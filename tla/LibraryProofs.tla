---------------------------- MODULE LibraryProofs ----------------------------
(***************************************************************************)
(* The exec lists, the monitor, and the arithmetic of the library and the   *)
(* demos, each part under a specification of its own; PartsRun shows that   *)
(* Library runs just these.                                                 *)
(***************************************************************************)
EXTENDS Library, CommonProofs

-----------------------------------------------------------------------------
(* Exec lists.  The pointer code of lists.c keeps every list whole, for any *)
(* number of lists and nodes, and so implements NodeLists.                  *)
(*                                                                          *)
(* The words a list is made of are its forward words, Place(l, s, i) for i  *)
(* from 0, and its backward words, which come after Place(l, s, i) for i    *)
(* from 1, and its shared word.  They are all different, because no node is *)
(* on a list twice; and different from another list's, because no node is   *)
(* on two lists.  An operation changes two or four of them.                 *)

USE NoNodeAssumption

NP(n) == <<"Pred", n>>

\* the words of a list l with the nodes s
ListWords(l, s) == {H(l), T(l), TP(l)} \cup {N(n) : n \in Range(s)} \cup {NP(n) : n \in Range(s)}

Memory == [Word -> Word \cup {Null}]

-----------------------------------------------------------------------------
(* Addresses.                                                               *)

LEMMA HeaderWords ==
  ASSUME NEW l \in Lists
  PROVE  /\ H(l) \in Word /\ T(l) \in Word /\ TP(l) \in Word
         /\ H(l) # T(l) /\ H(l) # TP(l) /\ T(l) # TP(l)
         /\ After(H(l)) = T(l) /\ After(T(l)) = TP(l)
BY DEF H, T, TP, Word, After

LEMMA NodeWords ==
  ASSUME NEW n \in Nodes
  PROVE  /\ N(n) \in Word /\ NP(n) \in Word
         /\ N(n) # NP(n)
         /\ After(N(n)) = NP(n)
         /\ N(n)[2] = n
BY DEF N, NP, Word, After

LEMMA WordsDiffer ==
  /\ \A n, k \in Nodes : /\ N(n) # NP(k)
                         /\ N(n) = N(k) => n = k
                         /\ NP(n) = NP(k) => n = k
  /\ \A n \in Nodes, l \in Lists : /\ N(n) # H(l) /\ N(n) # T(l) /\ N(n) # TP(l)
                                   /\ NP(n) # H(l) /\ NP(n) # T(l) /\ NP(n) # TP(l)
  /\ \A k, l \in Lists : /\ H(k) # T(l) /\ H(k) # TP(l) /\ T(k) # TP(l)
                         /\ H(k) = H(l) => k = l
                         /\ T(k) = T(l) => k = l
                         /\ TP(k) = TP(l) => k = l
BY DEF N, NP, H, T, TP

LEMMA NullIsNoWord == Null \notin Word
BY DEF Null, Word

-----------------------------------------------------------------------------
(* The words of one list are different words.                               *)

LEMMA PlaceWords ==
  ASSUME NEW l \in Lists, NEW s \in Seq(Nodes), NEW i \in 0..Len(s) + 1
  PROVE  /\ Place(l, s, i) \in Word
         /\ Place(l, s, i) \in ListWords(l, s)
         /\ i = 0 => Place(l, s, i) = H(l)
         /\ i = Len(s) + 1 => Place(l, s, i) = T(l) /\ After(Place(l, s, i)) = TP(l)
         /\ i \in 1..Len(s) => /\ Place(l, s, i) = N(s[i])
                               /\ After(Place(l, s, i)) = NP(s[i])
                               /\ s[i] \in Nodes /\ s[i] \in Range(s)
         /\ i > 0 => /\ After(Place(l, s, i)) \in Word
                     /\ After(Place(l, s, i)) \in ListWords(l, s)
<1>1. Len(s) \in Nat /\ DOMAIN s = 1..Len(s)
  OBVIOUS
<1>2. CASE i = 0
  BY <1>1, <1>2, HeaderWords DEF Place, ListWords
<1>3. CASE i = Len(s) + 1
  BY <1>1, <1>3, HeaderWords DEF Place, ListWords
<1>4. CASE i \in 1..Len(s)
  <2>1. s[i] \in Nodes /\ s[i] \in Range(s)
    BY <1>1, <1>4 DEF Range
  <2>2. Place(l, s, i) = N(s[i])
    BY <1>1, <1>4 DEF Place
  <2> QED
    BY <1>1, <1>4, <2>1, <2>2, NodeWords DEF ListWords
<1> QED
  BY <1>1, <1>2, <1>3, <1>4

LEMMA PlacesDiffer ==
  ASSUME NEW l \in Lists, NEW s \in Seq(Nodes), IsInjective(s),
         NEW i \in 0..Len(s) + 1, NEW j \in 0..Len(s) + 1
  PROVE  /\ i # j => Place(l, s, i) # Place(l, s, j)
         /\ i # j /\ i > 0 /\ j > 0 => After(Place(l, s, i)) # After(Place(l, s, j))
         /\ i <= Len(s) /\ j > 0 => Place(l, s, i) # After(Place(l, s, j))
         /\ i <= Len(s) => Place(l, s, i) # T(l)
         /\ j > 0 => After(Place(l, s, j)) # T(l)
<1>1. Len(s) \in Nat /\ DOMAIN s = 1..Len(s)
  OBVIOUS
<1>2. i \in 1..Len(s) /\ j \in 1..Len(s) /\ i # j => s[i] # s[j]
  BY <1>1 DEF IsInjective
<1>3. i = 0 \/ i = Len(s) + 1 \/ i \in 1..Len(s)
  BY <1>1
<1>4. j = 0 \/ j = Len(s) + 1 \/ j \in 1..Len(s)
  BY <1>1
<1> QED
  BY <1>1, <1>2, <1>3, <1>4, PlaceWords, WordsDiffer

-----------------------------------------------------------------------------
(* A list whose words are not written stays as it is.                       *)
LEMMA ChainKept ==
  ASSUME NEW l \in Lists, NEW s \in Seq(Nodes), NEW m, NEW r, Chain(m, l, s),
         \A w \in ListWords(l, s) : r[w] = m[w]
  PROVE  Chain(r, l, s)
<1>1. r[T(l)] = Null
  BY DEF Chain, ListWords
<1>2. ASSUME NEW i \in 0..Len(s)
      PROVE  /\ r[Place(l, s, i)] = Place(l, s, i + 1)
             /\ Pred(r, Place(l, s, i + 1)) = Place(l, s, i)
  <2>1. i \in 0..Len(s) + 1 /\ i + 1 \in 0..Len(s) + 1 /\ i + 1 > 0
    OBVIOUS
  <2>2. Place(l, s, i) \in ListWords(l, s) /\ After(Place(l, s, i + 1)) \in ListWords(l, s)
    BY <2>1, PlaceWords
  <2> QED
    BY <2>2 DEF Chain, Pred
<1> QED
  BY <1>1, <1>2 DEF Chain

(* Two lists without a common node have no common word.                     *)
LEMMA ListsApart ==
  ASSUME NEW k \in Lists, NEW l \in Lists, k # l,
         NEW s \in Seq(Nodes), NEW t \in Seq(Nodes), Range(s) \cap Range(t) = {}
  PROVE  ListWords(k, s) \cap ListWords(l, t) = {}
<1>1. Range(s) \subseteq Nodes /\ Range(t) \subseteq Nodes
  BY DEF Range
<1> QED
  BY <1>1, WordsDiffer DEF ListWords

-----------------------------------------------------------------------------
(* What the operations write.                                               *)

LEMMA EmptiedChain ==
  ASSUME NEW m \in Memory, NEW l \in Lists
  PROVE  /\ Emptied(m, l) \in Memory
         /\ Chain(Emptied(m, l), l, <<>>)
         /\ \A w \in Word : w \notin {H(l), T(l), TP(l)} => Emptied(m, l)[w] = m[w]
<1> DEFINE r == Emptied(m, l)
<1>1. /\ r \in Memory
      /\ r[H(l)] = T(l) /\ r[T(l)] = Null /\ r[TP(l)] = H(l)
      /\ \A w \in Word : w \notin {H(l), T(l), TP(l)} => r[w] = m[w]
  BY HeaderWords DEF Emptied, Memory
<1>2. <<>> \in Seq(Nodes) /\ Len(<<>>) = 0
  OBVIOUS
<1>3. Place(l, <<>>, 0) = H(l) /\ Place(l, <<>>, 1) = T(l)
  BY <1>2 DEF Place
<1>4. Chain(r, l, <<>>)
  BY <1>1, <1>2, <1>3, HeaderWords DEF Chain, Pred
<1> QED
  BY <1>1, <1>4

LEMMA LinkedFirstChain ==
  ASSUME NEW m \in Memory, NEW l \in Lists, NEW s \in Seq(Nodes), IsInjective(s),
         NEW n \in Nodes, n \notin Range(s), Chain(m, l, s)
  PROVE  /\ LinkedFirst(m, l, n) \in Memory
         /\ Chain(LinkedFirst(m, l, n), l, Push(s, n))
         /\ \A w \in Word \ (ListWords(l, s) \cup {N(n), NP(n)}) : LinkedFirst(m, l, n)[w] = m[w]
<1> DEFINE r == LinkedFirst(m, l, n)
           F(i) == Place(l, s, i)
           B(i) == After(Place(l, s, i))
           p == Push(s, n)
<1>1. Len(s) \in Nat /\ 0 \in 0..Len(s) + 1 /\ 1 \in 0..Len(s) + 1
  OBVIOUS
<1>2. /\ F(0) = H(l) /\ m[H(l)] = F(1)
      /\ F(1) \in Word /\ B(1) \in Word /\ F(1) \in ListWords(l, s) /\ B(1) \in ListWords(l, s)
  BY <1>1, PlaceWords DEF Chain
<1>3. /\ N(n) \notin ListWords(l, s) /\ NP(n) \notin ListWords(l, s)
      /\ N(n) # NP(n) /\ N(n) \in Word /\ NP(n) \in Word /\ After(N(n)) = NP(n)
      /\ H(l) \in ListWords(l, s) /\ H(l) \in Word /\ H(l) # B(1)
  <2>1. Range(s) \subseteq Nodes
    BY DEF Range
  <2>2. H(l) # B(1)
    BY <1>1, <1>2, PlacesDiffer
  <2> QED
    BY <2>1, <2>2, WordsDiffer, NodeWords, HeaderWords DEF ListWords
<1>4. /\ r \in Memory
      /\ r[H(l)] = N(n) /\ r[B(1)] = N(n) /\ r[N(n)] = F(1) /\ r[NP(n)] = H(l)
      /\ \A w \in Word : w \notin {H(l), B(1), N(n), NP(n)} => r[w] = m[w]
  <2> DEFINE m1 == [m EXCEPT ![N(n)] = F(1)]
             m2 == [m1 EXCEPT ![NP(n)] = H(l)]
             m3 == [m2 EXCEPT ![B(1)] = N(n)]
  <2>1. m2[H(l)] = F(1)
    BY <1>2, <1>3 DEF Memory
  <2>2. r = [m3 EXCEPT ![H(l)] = N(n)]
    BY <1>2, <1>3, <2>1 DEF LinkedFirst, SetSucc, SetPred
  <2> QED
    BY <1>2, <1>3, <2>2 DEF Memory
<1>5. /\ p \in Seq(Nodes) /\ Len(p) = Len(s) + 1
      /\ \A i \in 1..Len(s) + 1 : p[i] = IF i = 1 THEN n ELSE s[i - 1]
  BY PushProperties
<1> HIDE DEF r, p
<1>6. /\ Place(l, p, 0) = H(l) /\ Place(l, p, 1) = N(n)
      /\ \A i \in 2..Len(s) + 2 : Place(l, p, i) = F(i - 1)
  BY <1>1, <1>5 DEF Place
<1>7. r[T(l)] = Null
  <2>1. T(l) # H(l) /\ T(l) # B(1) /\ T(l) # N(n) /\ T(l) # NP(n)
    BY <1>1, PlacesDiffer, WordsDiffer
  <2> QED
    BY <1>4, <2>1, HeaderWords DEF Chain
<1>8. ASSUME NEW i \in 0..Len(p)
      PROVE  /\ r[Place(l, p, i)] = Place(l, p, i + 1)
             /\ Pred(r, Place(l, p, i + 1)) = Place(l, p, i)
  <2>1. CASE i = 0
    BY <1>3, <1>4, <1>6, <2>1 DEF Pred
  <2>2. CASE i = 1
    BY <1>1, <1>4, <1>6, <2>2 DEF Pred
  <2>3. CASE i \in 2..Len(s) + 1
    <3>1. i - 1 \in 1..Len(s) /\ i \in 2..Len(s) + 1 /\ i \in 0..Len(s) + 1
          /\ i - 1 \in 0..Len(s) + 1
      BY <1>1, <2>3
    <3>2. Place(l, p, i) = F(i - 1) /\ Place(l, p, i + 1) = F(i)
      BY <1>1, <1>6, <3>1
    <3>3. F(i - 1) \notin {H(l), B(1), N(n), NP(n)} /\ F(i - 1) \in Word
      BY <1>1, <1>2, <1>3, <3>1, PlaceWords, PlacesDiffer
    <3>4. B(i) \notin {H(l), B(1), N(n), NP(n)} /\ B(i) \in Word
      BY <1>1, <1>2, <1>3, <3>1, PlaceWords, PlacesDiffer
    <3>5. m[F(i - 1)] = F(i) /\ m[B(i)] = F(i - 1)
      <4>1. i - 1 \in 0..Len(s) /\ (i - 1) + 1 = i
        BY <3>1
      <4> QED
        BY <4>1 DEF Chain, Pred
    <3> QED
      BY <1>4, <3>2, <3>3, <3>4, <3>5 DEF Pred
  <2> QED
    BY <1>1, <1>5, <2>1, <2>2, <2>3
<1>9. Chain(r, l, p)
  BY <1>7, <1>8 DEF Chain
<1> QED
  BY <1>2, <1>3, <1>4, <1>9 DEF r, p

LEMMA LinkedLastChain ==
  ASSUME NEW m \in Memory, NEW l \in Lists, NEW s \in Seq(Nodes), IsInjective(s),
         NEW n \in Nodes, n \notin Range(s), Chain(m, l, s)
  PROVE  /\ LinkedLast(m, l, n) \in Memory
         /\ Chain(LinkedLast(m, l, n), l, Append(s, n))
         /\ \A w \in Word \ (ListWords(l, s) \cup {N(n), NP(n)}) : LinkedLast(m, l, n)[w] = m[w]
<1> DEFINE r == LinkedLast(m, l, n)
           F(i) == Place(l, s, i)
           B(i) == After(Place(l, s, i))
           e == Len(s)
           p == Append(s, n)
<1>1. e \in Nat /\ e \in 0..e + 1 /\ e + 1 \in 0..e + 1 /\ e \in 0..e
  OBVIOUS
<1>2. /\ F(e + 1) = T(l) /\ B(e + 1) = TP(l) /\ m[TP(l)] = F(e)
      /\ F(e) \in Word /\ F(e) \in ListWords(l, s)
  <2>1. F(e + 1) = T(l) /\ B(e + 1) = TP(l) /\ F(e) \in Word /\ F(e) \in ListWords(l, s)
    BY <1>1, PlaceWords
  <2>2. m[B(e + 1)] = F(e)
    BY <1>1 DEF Chain, Pred
  <2> QED
    BY <2>1, <2>2
<1>3. /\ N(n) \notin ListWords(l, s) /\ NP(n) \notin ListWords(l, s)
      /\ N(n) # NP(n) /\ N(n) \in Word /\ NP(n) \in Word /\ After(N(n)) = NP(n)
      /\ TP(l) \in ListWords(l, s) /\ TP(l) \in Word /\ T(l) \in Word /\ TP(l) # F(e)
  <2>1. Range(s) \subseteq Nodes
    BY DEF Range
  <2>2. TP(l) # F(e)
    BY <1>1, <1>2, PlacesDiffer
  <2> QED
    BY <2>1, <2>2, WordsDiffer, NodeWords, HeaderWords DEF ListWords
<1>4. /\ r \in Memory
      /\ r[TP(l)] = N(n) /\ r[F(e)] = N(n) /\ r[N(n)] = T(l) /\ r[NP(n)] = F(e)
      /\ \A w \in Word : w \notin {TP(l), F(e), N(n), NP(n)} => r[w] = m[w]
  <2> DEFINE m1 == [m EXCEPT ![NP(n)] = F(e)]
             m2 == [m1 EXCEPT ![N(n)] = T(l)]
             m3 == [m2 EXCEPT ![F(e)] = N(n)]
  <2>1. m2[TP(l)] = F(e)
    BY <1>2, <1>3 DEF Memory
  <2>2. r = [m3 EXCEPT ![TP(l)] = N(n)]
    BY <1>2, <1>3, <2>1 DEF LinkedLast, SetSucc, SetPred
  <2> QED
    BY <1>2, <1>3, <2>2 DEF Memory
<1>5. /\ p \in Seq(Nodes) /\ Len(p) = e + 1
      /\ \A i \in 1..e + 1 : p[i] = IF i = e + 1 THEN n ELSE s[i]
  BY AppendPlaces
<1> HIDE DEF r, p
<1>6. /\ \A i \in 0..e : Place(l, p, i) = F(i)
      /\ Place(l, p, e + 1) = N(n) /\ Place(l, p, e + 2) = T(l)
  BY <1>1, <1>5 DEF Place
<1>7. r[T(l)] = Null
  <2>1. T(l) # TP(l) /\ T(l) # F(e) /\ T(l) # N(n) /\ T(l) # NP(n)
    BY <1>1, PlacesDiffer, WordsDiffer
  <2> QED
    BY <1>4, <2>1, HeaderWords DEF Chain
<1>8. ASSUME NEW i \in 0..Len(p)
      PROVE  /\ r[Place(l, p, i)] = Place(l, p, i + 1)
             /\ Pred(r, Place(l, p, i + 1)) = Place(l, p, i)
  <2>1. CASE i = e + 1
    <3>1. Place(l, p, i) = N(n) /\ Place(l, p, i + 1) = T(l) /\ After(T(l)) = TP(l)
      BY <1>1, <1>6, <2>1, HeaderWords
    <3> QED
      BY <1>4, <3>1 DEF Pred
  <2>2. CASE i = e
    <3>1. Place(l, p, i) = F(e) /\ Place(l, p, i + 1) = N(n)
      BY <1>1, <1>6, <2>2
    <3> QED
      BY <1>3, <1>4, <3>1 DEF Pred
  <2>3. CASE i \in 0..(e - 1)
    <3>1. i \in 0..e + 1 /\ i + 1 \in 0..e + 1 /\ i + 1 \in 1..e /\ i \in 0..e /\ i # e
          /\ i + 1 # e + 1
      BY <1>1, <2>3
    <3>2. Place(l, p, i) = F(i) /\ Place(l, p, i + 1) = F(i + 1)
      BY <1>1, <1>6, <3>1
    <3>3. F(i) \notin {TP(l), F(e), N(n), NP(n)} /\ F(i) \in Word
      BY <1>1, <1>2, <1>3, <3>1, PlaceWords, PlacesDiffer
    <3>4. B(i + 1) \notin {TP(l), F(e), N(n), NP(n)} /\ B(i + 1) \in Word
      BY <1>1, <1>2, <1>3, <3>1, PlaceWords, PlacesDiffer
    <3>5. m[F(i)] = F(i + 1) /\ m[B(i + 1)] = F(i)
      BY <3>1 DEF Chain, Pred
    <3> QED
      BY <1>4, <3>2, <3>3, <3>4, <3>5 DEF Pred
  <2> QED
    BY <1>1, <1>5, <2>1, <2>2, <2>3
<1>9. Chain(r, l, p)
  BY <1>7, <1>8 DEF Chain
<1> QED
  BY <1>2, <1>3, <1>4, <1>9 DEF r, p

(* Removing a node closes both chains over its two neighbours, header or    *)
(* not.                                                                     *)
LEMMA UnlinkedWords ==
  ASSUME NEW m \in Memory, NEW l \in Lists, NEW s \in Seq(Nodes), IsInjective(s),
         NEW k \in 1..Len(s), Chain(m, l, s)
  PROVE  Unlinked(m, s[k]) = [m EXCEPT ![Place(l, s, k - 1)] = Place(l, s, k + 1),
                                       ![After(Place(l, s, k + 1))] = Place(l, s, k - 1)]
<1> DEFINE n == s[k]
           r == Unlinked(m, n)
           F(i) == Place(l, s, i)
           B(i) == After(Place(l, s, i))
           e == Len(s)
<1>1. /\ e \in Nat /\ k \in 1..e /\ k \in 0..e + 1 /\ k - 1 \in 0..e /\ k - 1 \in 0..e + 1
      /\ k + 1 \in 1..e + 1 /\ k + 1 \in 0..e + 1 /\ (k - 1) + 1 = k /\ k \in 0..e
  OBVIOUS
<1>2. /\ N(n) = F(k) /\ After(N(n)) = B(k)
      /\ m[F(k)] = F(k + 1) /\ m[B(k)] = F(k - 1)
  BY <1>1, PlaceWords DEF Chain, Pred
<1>3. /\ F(k - 1) \in Word /\ F(k - 1) \in ListWords(l, s) /\ F(k + 1) \in Word
      /\ B(k + 1) \in Word /\ B(k + 1) \in ListWords(l, s)
      /\ F(k - 1) # F(k) /\ F(k - 1) # B(k) /\ F(k - 1) # B(k + 1)
  BY <1>1, PlaceWords, PlacesDiffer
<1> DEFINE m1 == [m EXCEPT ![F(k - 1)] = F(k + 1)]
<1>4. m1[F(k)] = F(k + 1) /\ m1[B(k)] = F(k - 1)
  <2>1. F(k) \in Word /\ B(k) \in Word
    BY <1>1, PlaceWords
  <2> QED
    BY <1>2, <1>3, <2>1 DEF Memory
<1>5. r = [m1 EXCEPT ![B(k + 1)] = F(k - 1)]
  BY <1>2, <1>4 DEF Unlinked, SetSucc, SetPred, Succ, Pred
<1> QED
  BY <1>5

LEMMA UnlinkedChain ==
  ASSUME NEW m \in Memory, NEW l \in Lists, NEW s \in Seq(Nodes), IsInjective(s),
         NEW k \in 1..Len(s), Chain(m, l, s)
  PROVE  /\ Unlinked(m, s[k]) \in Memory
         /\ Chain(Unlinked(m, s[k]), l, Without(s, s[k]))
         /\ \A w \in Word \ ListWords(l, s) : Unlinked(m, s[k])[w] = m[w]
<1> DEFINE n == s[k]
           r == Unlinked(m, n)
           F(i) == Place(l, s, i)
           B(i) == After(Place(l, s, i))
           e == Len(s)
           p == Without(s, n)
<1>1. /\ e \in Nat /\ k \in 1..e /\ k \in 0..e + 1 /\ k - 1 \in 0..e /\ k - 1 \in 0..e + 1
      /\ k + 1 \in 1..e + 1 /\ k + 1 \in 0..e + 1 /\ (k - 1) + 1 = k /\ k \in 0..e
  OBVIOUS
<1>2. /\ F(k - 1) \in Word /\ F(k - 1) \in ListWords(l, s) /\ F(k + 1) \in Word
      /\ B(k + 1) \in Word /\ B(k + 1) \in ListWords(l, s)
      /\ F(k - 1) # B(k + 1)
  BY <1>1, PlaceWords, PlacesDiffer
<1>3. r = [m EXCEPT ![F(k - 1)] = F(k + 1), ![B(k + 1)] = F(k - 1)]
  BY UnlinkedWords
<1>4. /\ r \in Memory
      /\ r[F(k - 1)] = F(k + 1) /\ r[B(k + 1)] = F(k - 1)
      /\ \A w \in Word : w \notin {F(k - 1), B(k + 1)} => r[w] = m[w]
  BY <1>2, <1>3 DEF Memory
<1>5. /\ p \in Seq(Nodes) /\ Len(p) = e - 1
      /\ \A j \in 1..(e - 1) : p[j] = IF j < k THEN s[j] ELSE s[j + 1]
  BY WithoutPlaces
<1> HIDE DEF r, p, n
<1>6. \A j \in 0..e : Place(l, p, j) = IF j < k THEN F(j) ELSE F(j + 1)
  BY <1>1, <1>5 DEF Place
<1>7. r[T(l)] = Null
  <2>1. T(l) # F(k - 1) /\ T(l) # B(k + 1)
    BY <1>1, PlacesDiffer
  <2> QED
    BY <1>4, <2>1, HeaderWords DEF Chain
<1>8. ASSUME NEW j \in 0..Len(p)
      PROVE  /\ r[Place(l, p, j)] = Place(l, p, j + 1)
             /\ Pred(r, Place(l, p, j + 1)) = Place(l, p, j)
  <2>1. j \in 0..(e - 1) /\ j \in 0..e /\ j + 1 \in 0..e
    BY <1>1, <1>5
  <2>2. CASE j = k - 1
    <3>1. Place(l, p, j) = F(k - 1) /\ Place(l, p, j + 1) = F(k + 1)
      BY <1>1, <1>6, <2>1, <2>2
    <3> QED
      BY <1>4, <3>1 DEF Pred
  <2>3. CASE j < k - 1
    <3>1. /\ j \in 0..e + 1 /\ j + 1 \in 0..e + 1 /\ j # k - 1 /\ j + 1 # k + 1
          /\ j < k /\ j + 1 < k
      BY <1>1, <2>1, <2>3
    <3>2. Place(l, p, j) = F(j) /\ Place(l, p, j + 1) = F(j + 1)
      BY <1>6, <2>1, <3>1
    <3>3. F(j) \in Word \ {F(k - 1), B(k + 1)} /\ B(j + 1) \in Word \ {F(k - 1), B(k + 1)}
      BY <1>1, <2>1, <3>1, PlaceWords, PlacesDiffer
    <3>4. m[F(j)] = F(j + 1) /\ m[B(j + 1)] = F(j)
      BY <2>1 DEF Chain, Pred
    <3> QED
      BY <1>4, <3>2, <3>3, <3>4 DEF Pred
  <2>4. CASE j >= k
    <3>1. /\ j + 1 \in 0..e /\ j + 1 \in 0..e + 1 /\ j + 2 \in 0..e + 1
          /\ j + 1 # k - 1 /\ j + 2 # k + 1 /\ (j + 1) + 1 = j + 2
          /\ ~ (j < k) /\ ~ (j + 1 < k)
      BY <1>1, <2>1, <2>4
    <3>2. Place(l, p, j) = F(j + 1) /\ Place(l, p, j + 1) = F(j + 2)
      BY <1>6, <2>1, <3>1
    <3>3. F(j + 1) \in Word \ {F(k - 1), B(k + 1)} /\ B(j + 2) \in Word \ {F(k - 1), B(k + 1)}
      BY <1>1, <2>1, <3>1, PlaceWords, PlacesDiffer
    <3>4. m[F(j + 1)] = F(j + 2) /\ m[B(j + 2)] = F(j + 1)
      BY <3>1 DEF Chain, Pred
    <3> QED
      BY <1>4, <3>2, <3>3, <3>4 DEF Pred
  <2> QED
    BY <1>1, <2>1, <2>2, <2>3, <2>4
<1>9. Chain(r, l, p)
  BY <1>7, <1>8 DEF Chain
<1> QED
  BY <1>2, <1>3, <1>4, <1>9 DEF r, p, n

(* What RemHead finds: the first node, if there is one, and its end if not. *)
LEMMA FirstWords ==
  ASSUME NEW m, NEW l \in Lists, NEW s \in Seq(Nodes), Chain(m, l, s)
  PROVE  /\ HasNode(m, l) <=> s # <<>>
         /\ s # <<>> => /\ 1 \in 1..Len(s) /\ s[1] \in Range(s)
                        /\ m[H(l)] = N(s[1]) /\ m[H(l)][2] = s[1]
<1>1. Len(s) \in Nat /\ (s = <<>> <=> Len(s) = 0) /\ 0 \in 0..Len(s) + 1 /\ 1 \in 0..Len(s) + 1
  OBVIOUS
<1>2. m[H(l)] = Place(l, s, 1) /\ m[T(l)] = Null
  BY <1>1, PlaceWords DEF Chain
<1>3. CASE s = <<>>
  <2>1. Place(l, s, 1) = T(l)
    BY <1>1, <1>3 DEF Place
  <2> QED
    BY <1>2, <1>3, <2>1 DEF HasNode, Succ
<1>4. CASE s # <<>>
  <2>1. 1 \in 1..Len(s) /\ 1 \in 0..Len(s) /\ 1 + 1 \in 0..Len(s) + 1
    BY <1>1, <1>4
  <2>2. m[Place(l, s, 1)] \in Word
    BY <2>1, PlaceWords DEF Chain
  <2>3. s[1] \in Nodes /\ s[1] \in Range(s) /\ Place(l, s, 1) = N(s[1])
    BY <1>1, <2>1, PlaceWords
  <2> QED
    BY <1>2, <1>4, <2>1, <2>2, <2>3, NullIsNoWord, NodeWords DEF HasNode, Succ
<1> QED
  BY <1>3, <1>4

(* RemHead writes what Remove would, called with the first node.            *)
LEMMA UnlinkedFirstIsUnlinked ==
  ASSUME NEW m \in Memory, NEW l \in Lists, NEW s \in Seq(Nodes), IsInjective(s),
         s # <<>>, Chain(m, l, s)
  PROVE  UnlinkedFirst(m, l) = Unlinked(m, s[1])
<1> DEFINE F(i) == Place(l, s, i)
           B(i) == After(Place(l, s, i))
<1>1. /\ Len(s) \in Nat /\ 1 \in 1..Len(s) /\ 0 \in 0..Len(s) + 1 /\ 1 \in 0..Len(s) + 1
      /\ 2 \in 0..Len(s) + 1 /\ 1 \in 0..Len(s) /\ 0 \in 0..Len(s)
  OBVIOUS
<1>2. m[H(l)] = F(1) /\ m[F(1)] = F(2) /\ F(0) = H(l)
  BY <1>1, PlaceWords DEF Chain
<1>3. F(1) \in Word /\ B(2) \in Word /\ H(l) \in Word /\ F(1) # B(2) /\ H(l) # B(2)
  BY <1>1, <1>2, PlaceWords, PlacesDiffer
<1>4. Unlinked(m, s[1]) = [m EXCEPT ![H(l)] = F(2), ![B(2)] = H(l)]
  <2>1. Unlinked(m, s[1]) = [m EXCEPT ![F(1 - 1)] = F(1 + 1), ![After(F(1 + 1))] = F(1 - 1)]
    BY <1>1, UnlinkedWords
  <2>2. 1 - 1 = 0 /\ 1 + 1 = 2
    OBVIOUS
  <2> QED
    BY <1>2, <2>1, <2>2
<1>5. UnlinkedFirst(m, l) = [m EXCEPT ![B(2)] = H(l), ![H(l)] = F(2)]
  <2> DEFINE m1 == [m EXCEPT ![B(2)] = H(l)]
  <2>1. m1[F(1)] = F(2)
    BY <1>2, <1>3 DEF Memory
  <2> QED
    BY <1>2, <2>1 DEF UnlinkedFirst, SetPred, Succ
<1> QED
  BY <1>3, <1>4, <1>5 DEF Memory

-----------------------------------------------------------------------------
(* Every operation keeps the chains.                                        *)

\* what an operation on l does: it writes to no other list's words, gives l
\* the nodes t, and takes at most the node n, which was on no list
LEMMA OneListChanged ==
  ASSUME ChainsIntact, NEW l \in Lists, NEW t \in Seq(Nodes), NEW New \in SUBSET Nodes,
         \A k \in Lists : New \cap Range(order[k]) = {},
         Range(t) \subseteq Range(order[l]) \cup New, IsInjective(t),
         order' = [order EXCEPT ![l] = t],
         mem' \in Memory, Chain(mem', l, t), ret' \in Nodes \cup {NoNode},
         \A w \in Word \ (ListWords(l, order[l]) \cup {N(n) : n \in New} \cup {NP(n) : n \in New}) :
            mem'[w] = mem[w]
  PROVE  ChainsIntact'
<1>1. order \in [Lists -> Seq(Nodes)] /\ order[l] \in Seq(Nodes)
  BY DEF ChainsIntact, TypeOK
<1>2. order'[l] = t /\ \A k \in Lists : k # l => order'[k] = order[k]
  BY <1>1
<1>3. TypeOK'
  BY <1>1 DEF TypeOK, Memory
<1>4. OneListEach'
  BY <1>1, <1>2 DEF ChainsIntact, OneListEach
<1>5. ASSUME NEW k \in Lists
      PROVE  Chain(mem', k, order'[k])
  <2>1. CASE k = l
    BY <1>2, <2>1
  <2>2. CASE k # l
    <3>1. order[k] \in Seq(Nodes) /\ Range(order[k]) \cap Range(order[l]) = {}
      BY <1>1, <2>2 DEF ChainsIntact, OneListEach
    <3>2. ListWords(k, order[k]) \cap ListWords(l, order[l]) = {}
      BY <1>1, <2>2, <3>1, ListsApart
    <3>3. Range(order[k]) \subseteq Nodes /\ New \subseteq Nodes
      BY <3>1 DEF Range
    <3>4. \A n \in New : N(n) \notin ListWords(k, order[k]) /\ NP(n) \notin ListWords(k, order[k])
      BY <3>3, WordsDiffer DEF ListWords
    <3>5. ListWords(k, order[k]) \subseteq Word
      BY <3>3, HeaderWords, NodeWords DEF ListWords
    <3>6. \A w \in ListWords(k, order[k]) : mem'[w] = mem[w]
      BY <3>2, <3>4, <3>5
    <3>7. Chain(mem, k, order[k])
      BY DEF ChainsIntact, Linked
    <3> QED
      BY <1>2, <2>2, <3>1, <3>6, <3>7, ChainKept
  <2> QED
    BY <2>1, <2>2
<1> QED
  BY <1>3, <1>4, <1>5 DEF ChainsIntact, Linked

LEMMA NewListKeeps ==
  ASSUME ChainsIntact, NEW l \in Lists, NewList(l)
  PROVE  ChainsIntact'
<1>1. mem \in Memory /\ ret \in Nodes \cup {NoNode}
  BY DEF ChainsIntact, TypeOK, Memory
<1>2. /\ <<>> \in Seq(Nodes) /\ Range(<<>>) = {} /\ IsInjective(<<>>)
  BY DEF Range, IsInjective
<1>3. /\ mem' \in Memory /\ Chain(mem', l, <<>>)
      /\ \A w \in Word : w \notin {H(l), T(l), TP(l)} => mem'[w] = mem[w]
  BY <1>1, EmptiedChain DEF NewList
<1>4. {H(l), T(l), TP(l)} \subseteq ListWords(l, order[l])
  BY DEF ListWords
<1>5. order' = [order EXCEPT ![l] = <<>>] /\ ret' = ret
  BY DEF NewList
<1> DEFINE New == {}
<1>6. /\ New \in SUBSET Nodes /\ \A k \in Lists : New \cap Range(order[k]) = {}
      /\ Range(<<>>) \subseteq Range(order[l]) \cup New
  BY <1>2
<1>7. \A w \in Word \ (ListWords(l, order[l]) \cup {N(n) : n \in New} \cup {NP(n) : n \in New}) :
         mem'[w] = mem[w]
  BY <1>3, <1>4
<1> HIDE DEF New
<1> QED
  BY <1>1, <1>2, <1>3, <1>5, <1>6, <1>7, OneListChanged

LEMMA AddHeadKeeps ==
  ASSUME ChainsIntact, NEW l \in Lists, NEW n \in Nodes, AddHead(l, n)
  PROVE  ChainsIntact'
<1>1. /\ mem \in Memory /\ ret \in Nodes \cup {NoNode} /\ order[l] \in Seq(Nodes)
      /\ IsInjective(order[l]) /\ Chain(mem, l, order[l])
      /\ \A k \in Lists : n \notin Range(order[k])
  BY DEF ChainsIntact, TypeOK, Memory, OneListEach, Linked, AddHead, Loose
<1> DEFINE t == Push(order[l], n)
           New == {n}
<1>2. /\ t \in Seq(Nodes) /\ IsInjective(t) /\ Range(t) = Range(order[l]) \cup New
  BY <1>1, PushProperties
<1>3. /\ mem' \in Memory /\ Chain(mem', l, t)
      /\ \A w \in Word \ (ListWords(l, order[l]) \cup {N(n), NP(n)}) : mem'[w] = mem[w]
  BY <1>1, LinkedFirstChain DEF AddHead
<1>4. order' = [order EXCEPT ![l] = t] /\ ret' = ret
  BY DEF AddHead
<1>5. \A w \in Word \ (ListWords(l, order[l]) \cup {N(x) : x \in New} \cup {NP(x) : x \in New}) :
         mem'[w] = mem[w]
  BY <1>3
<1>6. New \in SUBSET Nodes /\ \A k \in Lists : New \cap Range(order[k]) = {}
  BY <1>1
<1> HIDE DEF t, New
<1> QED
  BY <1>1, <1>2, <1>3, <1>4, <1>5, <1>6, OneListChanged

LEMMA AddTailKeeps ==
  ASSUME ChainsIntact, NEW l \in Lists, NEW n \in Nodes, AddTail(l, n)
  PROVE  ChainsIntact'
<1>1. /\ mem \in Memory /\ ret \in Nodes \cup {NoNode} /\ order[l] \in Seq(Nodes)
      /\ IsInjective(order[l]) /\ Chain(mem, l, order[l])
      /\ \A k \in Lists : n \notin Range(order[k])
  BY DEF ChainsIntact, TypeOK, Memory, OneListEach, Linked, AddTail, Loose
<1> DEFINE t == Append(order[l], n)
           New == {n}
<1>2. /\ t \in Seq(Nodes) /\ IsInjective(t) /\ Range(t) = Range(order[l]) \cup New
  BY <1>1, AppendElements
<1>3. /\ mem' \in Memory /\ Chain(mem', l, t)
      /\ \A w \in Word \ (ListWords(l, order[l]) \cup {N(n), NP(n)}) : mem'[w] = mem[w]
  BY <1>1, LinkedLastChain DEF AddTail
<1>4. order' = [order EXCEPT ![l] = t] /\ ret' = ret
  BY DEF AddTail
<1>5. \A w \in Word \ (ListWords(l, order[l]) \cup {N(x) : x \in New} \cup {NP(x) : x \in New}) :
         mem'[w] = mem[w]
  BY <1>3
<1>6. New \in SUBSET Nodes /\ \A k \in Lists : New \cap Range(order[k]) = {}
  BY <1>1
<1> HIDE DEF t, New
<1> QED
  BY <1>1, <1>2, <1>3, <1>4, <1>5, <1>6, OneListChanged

\* the part that Remove and RemHead share
LEMMA UnlinkedKeeps ==
  ASSUME ChainsIntact, NEW l \in Lists, NEW n \in Range(order[l]),
         mem' = Unlinked(mem, n), order' = [order EXCEPT ![l] = Without(order[l], n)],
         ret' \in Nodes \cup {NoNode}
  PROVE  ChainsIntact'
<1>1. /\ mem \in Memory /\ order[l] \in Seq(Nodes)
      /\ IsInjective(order[l]) /\ Chain(mem, l, order[l])
  BY DEF ChainsIntact, TypeOK, Memory, OneListEach, Linked
<1> DEFINE t == Without(order[l], n)
           New == {}
<1>2. PICK k \in 1..Len(order[l]) : order[l][k] = n
  BY <1>1 DEF Range
<1>3. /\ t \in Seq(Nodes) /\ IsInjective(t) /\ Range(t) = Range(order[l]) \ {n}
  BY <1>1, WithoutProperties
<1>4. /\ mem' \in Memory /\ Chain(mem', l, t)
      /\ \A w \in Word \ ListWords(l, order[l]) : mem'[w] = mem[w]
  BY <1>1, <1>2, UnlinkedChain
<1>5. /\ New \in SUBSET Nodes /\ \A j \in Lists : New \cap Range(order[j]) = {}
      /\ Range(t) \subseteq Range(order[l]) \cup New
  BY <1>3
<1>6. \A w \in Word \ (ListWords(l, order[l]) \cup {N(x) : x \in New} \cup {NP(x) : x \in New}) :
         mem'[w] = mem[w]
  BY <1>4
<1>7. order' = [order EXCEPT ![l] = t]
  OBVIOUS
<1> HIDE DEF t, New
<1> QED
  BY <1>3, <1>4, <1>5, <1>6, <1>7, OneListChanged

LEMMA RemoveKeeps ==
  ASSUME ChainsIntact, NEW l \in Lists, NEW n \in Nodes, Remove(l, n)
  PROVE  ChainsIntact'
<1>1. ret' \in Nodes \cup {NoNode}
  BY DEF Remove, ChainsIntact, TypeOK
<1> QED
  BY <1>1, UnlinkedKeeps DEF Remove

\* RemHead takes the first node of a list, and nothing from an empty one
LEMMA RemHeadTakesFirst ==
  ASSUME ChainsIntact, NEW l \in Lists, RemHead(l)
  PROVE  /\ order[l] # <<>> => /\ order[l][1] \in Range(order[l]) /\ ret' = order[l][1]
                               /\ mem' = Unlinked(mem, order[l][1])
                               /\ order' = [order EXCEPT ![l] = Without(order[l], ret')]
         /\ order[l] = <<>> => ret' = NoNode /\ UNCHANGED <<mem, order>>
<1>1. /\ mem \in Memory /\ order[l] \in Seq(Nodes)
      /\ IsInjective(order[l]) /\ Chain(mem, l, order[l])
  BY DEF ChainsIntact, TypeOK, Memory, OneListEach, Linked
<1>2. /\ HasNode(mem, l) <=> order[l] # <<>>
      /\ order[l] # <<>> => /\ order[l][1] \in Range(order[l])
                            /\ mem[H(l)][2] = order[l][1]
  BY <1>1, FirstWords
<1>3. order[l] # <<>> => UnlinkedFirst(mem, l) = Unlinked(mem, order[l][1])
  BY <1>1, UnlinkedFirstIsUnlinked
<1> QED
  BY <1>2, <1>3 DEF RemHead

LEMMA RemHeadKeeps ==
  ASSUME ChainsIntact, NEW l \in Lists, RemHead(l)
  PROVE  ChainsIntact'
<1>1. CASE order[l] = <<>>
  BY <1>1, RemHeadTakesFirst DEF ChainsIntact, TypeOK, OneListEach, Linked
<1>2. CASE order[l] # <<>>
  <2>1. order[l][1] \in Nodes
    BY <1>2, RemHeadTakesFirst DEF ChainsIntact, TypeOK, Range
  <2> QED
    BY <1>2, <2>1, RemHeadTakesFirst, UnlinkedKeeps
<1> QED
  BY <1>1, <1>2

-----------------------------------------------------------------------------
LEMMA InitChains == Init => ChainsIntact
<1> SUFFICES ASSUME Init PROVE ChainsIntact
  OBVIOUS
<1>1. \A l \in Lists : order[l] = <<>> /\ Range(order[l]) = {} /\ IsInjective(order[l])
  BY DEF Init, Range, IsInjective
<1>2. \A l \in Lists : mem[H(l)] = T(l) /\ mem[T(l)] = Null /\ mem[TP(l)] = H(l)
  <2>1. mem = [w \in Word |-> IF w[1] = "Head" THEN T(w[2])
                              ELSE IF w[1] = "TailPred" THEN H(w[2]) ELSE Null]
    BY DEF Init
  <2>2. \A l \in Lists : H(l) \in Word /\ T(l) \in Word /\ TP(l) \in Word
    BY HeaderWords
  <2>3. \A l \in Lists : /\ H(l)[1] = "Head" /\ H(l)[2] = l /\ T(l)[1] = "Tail"
                         /\ TP(l)[1] = "TailPred" /\ TP(l)[2] = l
    BY DEF H, T, TP
  <2> QED
    BY <2>1, <2>2, <2>3
<1>3. TypeOK
  <2>1. ASSUME NEW w \in Word
        PROVE  mem[w] \in Word \cup {Null}
    <3>1. w[1] = "Head" => w[2] \in Lists
      BY DEF Word
    <3>2. w[1] = "TailPred" => w[2] \in Lists
      BY DEF Word
    <3> QED
      BY <3>1, <3>2, HeaderWords DEF Init
  <2>2. mem \in [Word -> Word \cup {Null}]
    BY <2>1 DEF Init
  <2>3. order \in [Lists -> Seq(Nodes)] /\ ret \in Nodes \cup {NoNode}
    BY DEF Init
  <2> QED
    BY <2>2, <2>3 DEF TypeOK
<1>4. ASSUME NEW l \in Lists
      PROVE  Linked(l)
  <2>1. Len(<<>>) = 0 /\ Place(l, <<>>, 0) = H(l) /\ Place(l, <<>>, 1) = T(l)
    BY DEF Place
  <2> QED
    BY <1>1, <1>2, <2>1, HeaderWords DEF Linked, Chain, Pred
<1> QED
  BY <1>1, <1>3, <1>4 DEF ChainsIntact, OneListEach

LEMMA NextChains == ChainsIntact /\ [Next]_vars => ChainsIntact'
<1> SUFFICES ASSUME ChainsIntact, [Next]_vars PROVE ChainsIntact'
  OBVIOUS
<1>1. CASE \E l \in Lists : NewList(l)
  BY <1>1, NewListKeeps
<1>2. CASE \E l \in Lists : RemHead(l)
  BY <1>2, RemHeadKeeps
<1>3. CASE \E l \in Lists, n \in Nodes : AddHead(l, n)
  BY <1>3, AddHeadKeeps
<1>4. CASE \E l \in Lists, n \in Nodes : AddTail(l, n)
  BY <1>4, AddTailKeeps
<1>5. CASE \E l \in Lists, n \in Nodes : Remove(l, n)
  BY <1>5, RemoveKeeps
<1>6. CASE UNCHANGED vars
  BY <1>6 DEF vars, ChainsIntact, TypeOK, OneListEach, Linked
<1> QED
  BY <1>1, <1>2, <1>3, <1>4, <1>5, <1>6 DEF Next

(* Whatever calls are made, on however many lists and nodes, both chains of *)
(* every list run through the nodes the callers put there.                  *)
THEOREM ListsSound == Spec => []ChainsIntact
BY InitChains, NextChains, PTL DEF Spec

LEMMA ChainsTellEmpty == ChainsIntact => EmptyListAgrees
<1> SUFFICES ASSUME ChainsIntact, NEW l \in Lists
             PROVE  (EmptyList(l) <=> order[l] = <<>>) /\ (HasNode(mem, l) <=> order[l] # <<>>)
  BY DEF EmptyListAgrees
<1>1. order[l] \in Seq(Nodes) /\ IsInjective(order[l]) /\ Chain(mem, l, order[l])
  BY DEF ChainsIntact, TypeOK, OneListEach, Linked
<1> DEFINE e == Len(order[l])
<1>2. /\ e \in Nat /\ e \in 0..e /\ 0 \in 0..e + 1 /\ e \in 0..e + 1 /\ e + 1 \in 0..e + 1
      /\ order[l] = <<>> <=> e = 0
  BY <1>1
<1>3. mem[TP(l)] = Place(l, order[l], e)
  BY <1>1, <1>2, PlaceWords DEF Chain, Pred
<1>4. Place(l, order[l], 0) = H(l)
  BY DEF Place
<1>5. e # 0 => Place(l, order[l], e) # Place(l, order[l], 0)
  BY <1>1, <1>2, PlacesDiffer
<1>6. HasNode(mem, l) <=> order[l] # <<>>
  BY <1>1, FirstWords
<1> QED
  BY <1>2, <1>3, <1>4, <1>5, <1>6 DEF EmptyList

(* EmptyList and RemHead never disagree on whether there is a node to take. *)
THEOREM EmptySound == Spec => []EmptyListAgrees
BY ListsSound, ChainsTellEmpty, PTL

-----------------------------------------------------------------------------
(* A queue holds no more nodes than there are.                              *)
LEMMA FitsNodes ==
  ASSUME NEW s \in Seq(Nodes), IsInjective(s)
  PROVE  Len(s) \in Nat /\ Cardinality(Nodes) \in Nat /\ Len(s) <= Cardinality(Nodes)
<1>1. s \in Injection(1..Len(s), Nodes) /\ Len(s) \in Nat
  <2>1. s \in [1..Len(s) -> Nodes]
    OBVIOUS
  <2> QED BY <2>1 DEF Injection
<1>2. Cardinality(1..Len(s)) = Len(s)
  <2>1. Cardinality(1..Len(s)) = IF 1 > Len(s) THEN 0 ELSE Len(s) - 1 + 1
    BY <1>1, FS_Interval
  <2> QED BY <1>1, <2>1
<1> QED BY <1>1, <1>2, FS_Injection, FS_CardinalityType, FiniteAssumption

\* the walk after i nodes
At(l, i) == [a |-> Place(l, order[l], i + 1), seen |-> SubSeq(order[l], 1, i)]

Visits == [a : Word \cup {Null}, seen : Seq(Nodes \cup Lists)]

(* A round of the walk takes one node more, until it comes to the end.      *)
LEMMA VisitIs ==
  ASSUME ChainsIntact, NEW l \in Lists, NEW i \in 0..Len(order[l])
  PROVE  /\ At(l, i) \in Visits
         /\ Visit[At(l, i)] = IF i = Len(order[l]) THEN At(l, i) ELSE At(l, i + 1)
<1> DEFINE s == order[l]
           e == Len(s)
<1>1. s \in Seq(Nodes) /\ IsInjective(s) /\ Chain(mem, l, s) /\ e \in Nat /\ i \in 0..e
  BY DEF ChainsIntact, TypeOK, OneListEach, Linked
<1> HIDE DEF s
<1>2. Place(l, s, i + 1) \in Word
  BY <1>1, PlaceWords
<1>3. SubSeq(s, 1, i) \in Seq(Nodes) /\ SubSeq(s, 1, i) \in Seq(Nodes \cup Lists)
  <2>1. SubSeq(s, 1, i) \in Seq(Nodes)
    BY <1>1, SubSeqProperties
  <2> QED BY <2>1
<1>4. At(l, i) = [a |-> Place(l, s, i + 1), seen |-> SubSeq(s, 1, i)]
  BY DEF At, s
<1>5. At(l, i) \in Visits
  BY <1>2, <1>3, <1>4 DEF Visits
<1>6. Visit[At(l, i)] = IF Succ(mem, Place(l, s, i + 1)) = Null THEN At(l, i)
                        ELSE [a |-> Succ(mem, Place(l, s, i + 1)),
                              seen |-> Append(SubSeq(s, 1, i), Place(l, s, i + 1)[2])]
  <2>1. Visit[At(l, i)] = IF At(l, i).a = Null \/ Succ(mem, At(l, i).a) = Null THEN At(l, i)
                          ELSE [a |-> Succ(mem, At(l, i).a),
                                seen |-> Append(At(l, i).seen, At(l, i).a[2])]
    BY <1>5 DEF Visit, Visits
  <2>2. At(l, i).a = Place(l, s, i + 1) /\ At(l, i).seen = SubSeq(s, 1, i)
    BY <1>4
  <2> QED BY <1>2, <2>1, <2>2, NullIsNoWord
<1>7. CASE i = e
  <2>1. Place(l, s, i + 1) = T(l) /\ mem[T(l)] = Null
    BY <1>1, <1>7 DEF Place, Chain
  <2> QED BY <1>5, <1>6, <1>7, <2>1 DEF Succ, s
<1>8. CASE i # e
  <2>1. i + 1 \in 1..e /\ i + 1 \in 0..e /\ i + 1 \in 0..e + 1 /\ i + 2 \in 0..e + 1
        /\ (i + 1) + 1 = i + 2 /\ i + 1 # 0
    BY <1>1, <1>8
  <2>2. mem[Place(l, s, i + 1)] = Place(l, s, i + 2)
    BY <1>1, <2>1 DEF Chain
  <2>3. Place(l, s, i + 2) # Null
    BY <1>1, <2>1, PlaceWords, NullIsNoWord
  <2>4. Place(l, s, i + 1)[2] = s[i + 1]
    BY <1>1, <2>1, PlaceWords, NodeWords
  <2>5. Append(SubSeq(s, 1, i), s[i + 1]) = SubSeq(s, 1, i + 1)
    <3>1. SubSeq(s, 1, i + 1) = SubSeq(s, 1, i) \o <<s[i + 1]>>
      <4>1. SubSeq(s, 1, i + 1) = SubSeq(s, 1, (i + 1) - 1) \o <<s[i + 1]>>
        BY <1>1, <2>1, SubSeqRecursiveSecond
      <4> QED BY <1>1, <4>1
    <3>2. s[i + 1] \in Nodes
      BY <1>1, <2>1
    <3> QED BY <1>3, <3>1, <3>2
  <2>6. At(l, i + 1) = [a |-> Place(l, s, i + 2), seen |-> SubSeq(s, 1, i + 1)]
    BY <2>1 DEF At, s
  <2>7. Visit[At(l, i)] = At(l, i + 1)
    BY <1>6, <2>2, <2>3, <2>4, <2>5, <2>6 DEF Succ
  <2> QED BY <1>5, <1>8, <2>7 DEF s
<1> QED BY <1>7, <1>8

(* The walk of a whole list has seen its nodes when it ends, and does end.  *)
LEMMA WalkIs ==
  ASSUME ChainsIntact, NEW l \in Lists
  PROVE  Walk(l) = order[l]
<1> DEFINE e == Len(order[l])
           I == {At(l, i) : i \in 0..e}
           k == Cardinality(Nodes) + 1
           rank == [at \in I |-> e - Len(at.seen)]
           end == Loop(Visit, At(l, 0), k)
<1>1. order[l] \in Seq(Nodes) /\ IsInjective(order[l]) /\ Chain(mem, l, order[l])
      /\ e \in Nat /\ k \in Nat /\ e <= k
  BY FitsNodes DEF ChainsIntact, TypeOK, OneListEach, Linked
<1>2. \A i \in 0..e : Len(At(l, i).seen) = i
  <2> SUFFICES ASSUME NEW i \in 0..e PROVE Len(At(l, i).seen) = i
    OBVIOUS
  <2>1. Len(SubSeq(order[l], 1, i)) = IF 1 <= i THEN i - 1 + 1 ELSE 0
    BY <1>1, SubSeqProperties
  <2> QED BY <2>1 DEF At
<1>3. At(l, 0) = [a |-> mem[H(l)], seen |-> <<>>]
  <2>1. mem[Place(l, order[l], 0)] = Place(l, order[l], 0 + 1) /\ Place(l, order[l], 0) = H(l)
    BY <1>1 DEF Chain, Place
  <2>2. SubSeq(order[l], 1, 0) = <<>>
    BY <1>1, SubSeqEmpty
  <2> QED BY <2>1, <2>2 DEF At
<1>4. \A i \in 0..e : /\ At(l, i) \in Visits
                      /\ Visit[At(l, i)] = IF i = e THEN At(l, i) ELSE At(l, i + 1)
  BY VisitIs
<1>5. At(l, 0) \in I /\ \A at \in I : \E i \in 0..e : at = At(l, i)
  BY <1>1
<1>6. \A i \in 0..e : At(l, i) \in I /\ rank[At(l, i)] = e - i
  BY <1>2
<1>7. rank \in [I -> Nat]
  <2>1. \A at \in I : e - Len(at.seen) \in Nat
    BY <1>1, <1>2, <1>5
  <2> QED BY <2>1
<1> HIDE DEF I, rank, end, k, e
<1>8. rank[At(l, 0)] <= k
  <2>1. 0 \in 0..e
    BY <1>1
  <2>2. rank[At(l, 0)] = e - 0
    BY <1>6, <2>1
  <2> QED BY <1>1, <2>2
<1>9. \A at \in I : /\ Visit[at] \in I
                    /\ Visit[at] = at \/ rank[Visit[at]] < rank[at]
  <2> SUFFICES ASSUME NEW i \in 0..e
               PROVE  /\ Visit[At(l, i)] \in I
                      /\ Visit[At(l, i)] = At(l, i) \/ rank[Visit[At(l, i)]] < rank[At(l, i)]
    BY <1>5
  <2>1. CASE i = e
    BY <1>4, <1>6, <2>1
  <2>2. CASE i # e
    <3>1. i + 1 \in 0..e /\ e - (i + 1) < e - i
      BY <1>1, <2>2
    <3> QED BY <1>4, <1>6, <2>2, <3>1
  <2> QED BY <2>1, <2>2
<1>10. Visit \in [Visits -> Visits]
  <2>1. ASSUME NEW at \in Visits, at.a # Null, Succ(mem, at.a) # Null
        PROVE  [a |-> Succ(mem, at.a), seen |-> Append(at.seen, at.a[2])] \in Visits
    <3>1. at.a \in Word /\ at.seen \in Seq(Nodes \cup Lists)
      BY <2>1 DEF Visits
    <3>2. Succ(mem, at.a) \in Word \cup {Null}
      BY <3>1 DEF Succ, ChainsIntact, TypeOK
    <3>3. at.a[2] \in Nodes \cup Lists
      BY <3>1 DEF Word
    <3> QED BY <3>1, <3>2, <3>3 DEF Visits
  <2> QED BY <2>1 DEF Visit, Visits
<1>11. I \in SUBSET Visits
  BY <1>4, <1>5
<1>12. end \in I /\ Visit[end] = end
  <2> DEFINE x == At(l, 0)
  <2>1. x \in I /\ rank[x] <= k /\ k \in Nat
    BY <1>1, <1>5, <1>8
  <2>2. end = Loop(Visit, x, k)
    BY DEF end
  <2> HIDE DEF x
  <2>3. Loop(Visit, x, k) \in I /\ Visit[Loop(Visit, x, k)] = Loop(Visit, x, k)
    BY <2>1, <1>7, <1>9, <1>10, <1>11, LoopEnds
  <2> QED BY <2>2, <2>3
<1>13. PICK i \in 0..e : end = At(l, i)
  BY <1>5, <1>12
<1>14. i = e
  <2> SUFFICES ASSUME i # e PROVE FALSE
    OBVIOUS
  <2>1. Visit[end] = At(l, i + 1) /\ i + 1 \in 0..e
    BY <1>1, <1>4, <1>13
  <2> QED BY <1>2, <1>12, <1>13, <2>1
<1>15. end.seen = SubSeq(order[l], 1, e)
  BY <1>13, <1>14 DEF At
<1>16. SubSeq(order[l], 1, e) = order[l]
  BY <1>1, SubSeqFull DEF e
<1> QED BY <1>3, <1>15, <1>16 DEF Walk, end, k, e

LEMMA WalksVisitAll == ChainsIntact => WalkVisitsAll
BY WalkIs DEF WalkVisitsAll

(* findTask sees each task of a queue, and comes to the end of it, however  *)
(* the queue was made.                                                      *)
THEOREM WalkSound == Spec => []WalkVisitsAll
BY ListsSound, WalksVisitAll, PTL

-----------------------------------------------------------------------------
(* The refinement: each call does to the sequences what NodeLists says.     *)

\* the two modules extend the same operators
LEMMA SameOperators ==
  \A s, n : /\ L!Range(s) = Range(s)
            /\ L!Push(s, n) = Push(s, n)
            /\ L!Without(s, n) = Without(s, n)
            /\ L!FirstOf(s, n) = FirstOf(s, n)
BY DEF L!Range, Range, L!Push, Push, L!Without, Without, L!DropAt, DropAt,
       L!Position, Position, L!FirstOf, FirstOf

LEMMA NextIsListNext == ChainsIntact /\ [Next]_vars => [L!Next]_L!absVars
<1> SUFFICES ASSUME ChainsIntact, [Next]_vars PROVE L!Next \/ UNCHANGED L!absVars
  OBVIOUS
<1>1. ASSUME NEW l \in Lists, NewList(l)
      PROVE  L!NewList(l)
  BY <1>1 DEF NewList, L!NewList
<1>2. ASSUME NEW l \in Lists, RemHead(l)
      PROVE  L!RemHead(l)
  <2>1. order \in [Lists -> Seq(Nodes)]
    BY DEF ChainsIntact, TypeOK
  <2>2. CASE order[l] = <<>>
    <3>1. ret' = NoNode /\ order' = order
      BY <1>2, <2>2, RemHeadTakesFirst
    <3>2. Without(<<>>, NoNode) = <<>>
      BY DEF Without, Range
    <3> QED
      BY <2>1, <2>2, <3>1, <3>2, SameOperators DEF L!RemHead, FirstOf
  <2>3. CASE order[l] # <<>>
    BY <1>2, <2>3, RemHeadTakesFirst, SameOperators DEF L!RemHead, FirstOf
  <2> QED
    BY <2>2, <2>3
<1>3. ASSUME NEW l \in Lists, NEW n \in Nodes, AddHead(l, n)
      PROVE  L!AddHead(l, n)
  BY <1>3, SameOperators DEF AddHead, L!AddHead, Loose, L!Loose
<1>4. ASSUME NEW l \in Lists, NEW n \in Nodes, AddTail(l, n)
      PROVE  L!AddTail(l, n)
  BY <1>4, SameOperators DEF AddTail, L!AddTail, Loose, L!Loose
<1>5. ASSUME NEW l \in Lists, NEW n \in Nodes, Remove(l, n)
      PROVE  L!Remove(l, n)
  BY <1>5, SameOperators DEF Remove, L!Remove
<1>6. CASE UNCHANGED vars
  BY <1>6 DEF vars, L!absVars
<1> QED
  BY <1>1, <1>2, <1>3, <1>4, <1>5, <1>6 DEF Next, L!Next

(* The pointer code implements the sequences lists.h promises: a client may *)
(* reason about its lists as sequences, as the kernel's model does.         *)
THEOREM ListsRefine == Spec => ImplementsLists
<1>1. Init => L!Init
  BY DEF Init, L!Init
<1> QED
  BY <1>1, NextIsListNext, ListsSound, PTL DEF Spec, ImplementsLists, L!Spec

HIDE NoNodeAssumption

-----------------------------------------------------------------------------
(* Arithmetic.                                                              *)

LEMMA Ordered ==
  ASSUME NEW a \in Nat, NEW b \in Nat, NEW c \in Nat, a <= b
  PROVE  a * c <= b * c /\ a * c \in Nat /\ b * c \in Nat
<1>1. b * c = a * c + (b - a) * c
  OBVIOUS
<1>2. (b - a) * c \in Nat /\ a * c \in Nat /\ b * c \in Nat
  OBVIOUS
<1> QED
  BY <1>1, <1>2

-----------------------------------------------------------------------------
(* Graphics.                                                                *)

DrawSpec == graphics_init /\ [][DrawNext]_drawVars

\* the text stays on the lines of the bitmap, which is what rectangles and
\* characters, that do not look at the upper edge, depend on
OnBitmap ==
    /\ rp.x \in Nat /\ rp.y \in 0..(Height - 1) /\ rp.point = Point(rp.x, rp.y)
    /\ drawn[1] \in Nat /\ drawn[2] \in Nat /\ drawn[2] <= Pixels

\* m pixels from column c, in each of n rows from row r, are on the bitmap
LEMMA BlockFits ==
  ASSUME NEW c \in Nat, NEW r \in Nat, NEW m \in Int, NEW n \in Int,
         m > 0, n > 0, c + m <= Width, r + n <= Height
  PROVE  /\ Rows(Point(c, r), m, n)[1] \in Nat /\ Rows(Point(c, r), m, n)[2] \in Nat
         /\ Rows(Point(c, r), m, n)[2] <= Pixels
<1> DEFINE above == r * Width
           block == (n - 1) * Width
           upto == (r + n) * Width
<1>1. upto <= Pixels /\ upto \in Nat /\ above \in Nat /\ block \in Nat
  BY Ordered, BitmapAssumption DEF Pixels
<1>2. upto = above + block + Width
  BY BitmapAssumption
<1>3. Rows(Point(c, r), m, n) = <<c + above, c + above + block + m>>
  BY DEF Rows, Point
<1>4. Pixels \in Nat
  BY BitmapAssumption DEF Pixels
<1> HIDE DEF above, block, upto
<1> QED
  BY <1>1, <1>2, <1>3, <1>4, BitmapAssumption

LEMMA NothingFits == Nothing[1] = 0 /\ Nothing[2] = 0 /\ 0 <= Pixels /\ Pixels \in Nat
BY BitmapAssumption DEF Nothing, Pixels

LEMMA InitOnBitmap == graphics_init => OnBitmap
BY NothingFits, BitmapAssumption DEF graphics_init, OnBitmap, Point

LEMMA MovedOnBitmap ==
  ASSUME NEW px \in Nat, NEW py \in 0..(Height - 1), rp' = Moved(px, py), drawn' = Nothing
  PROVE  OnBitmap'
BY NothingFits, BitmapAssumption DEF Moved, OnBitmap, Point, Pixels

LEMMA NextOnBitmap == OnBitmap /\ [DrawNext]_drawVars => OnBitmap'
<1> SUFFICES ASSUME OnBitmap, [DrawNext]_drawVars
             PROVE  OnBitmap'
  OBVIOUS
<1>1. rp.x \in Nat /\ rp.y \in 0..(Height - 1) /\ rp.point = Point(rp.x, rp.y)
  BY DEF OnBitmap
<1>2. CASE \E px \in Margins, py \in {0, 20, Height - 1} : moveTo(px, py)
  BY <1>2, MovedOnBitmap, BitmapAssumption DEF moveTo, Margins
<1>3. CASE rp.x < Width /\ drawPixel
  <2> DEFINE one == 1
  <2>1. Rows(rp.point, one, one) = <<rp.point, rp.point + 1>>
    BY <1>1, BitmapAssumption DEF Rows, Point
  <2>2. drawn' = Rows(rp.point, one, one) /\ rp' = rp
    BY <1>3, <2>1 DEF drawPixel
  <2>3. drawn'[1] \in Nat /\ drawn'[2] \in Nat /\ drawn'[2] <= Pixels
    <3>1. rp.y \in Nat /\ one \in Int /\ one > 0 /\ rp.x + one <= Width /\ rp.y + one <= Height
      BY <1>1, <1>3, BitmapAssumption
    <3> HIDE DEF one
    <3> QED
      BY <1>1, <2>2, <3>1, BlockFits
  <2> QED
    BY <1>1, <2>2, <2>3 DEF OnBitmap, Pixels
<1>4. CASE \E w, h \in {1, 32, Width} : drawRect(w, h)
  <2>1. PICK w \in {1, 32, Width}, h \in {1, 32, Width} : drawRect(w, h)
    BY <1>4
  <2> DEFINE m == IF w + rp.x > Width THEN Width - rp.x ELSE w
             n == IF h + rp.y > Height THEN Height - rp.y ELSE h
  <2>2. drawn' = Rows(rp.point, m, n) /\ rp' = rp
    BY <2>1 DEF drawRect, Clipped
  <2>3. m \in Int /\ n \in Int /\ rp.x + m <= Width /\ rp.y + n <= Height
    BY <1>1, BitmapAssumption
  <2> HIDE DEF m, n
  <2>4. CASE m <= 0 \/ n <= 0
    <3>1. drawn' = Nothing
      BY <2>2, <2>4 DEF Rows
    <3> QED
      BY <1>1, <2>2, <3>1, NothingFits DEF OnBitmap, Pixels
  <2>5. CASE m > 0 /\ n > 0
    <3>1. drawn'[1] \in Nat /\ drawn'[2] \in Nat /\ drawn'[2] <= Pixels
      <4>1. rp.y \in Nat
        BY <1>1, BitmapAssumption
      <4> QED
        BY <1>1, <2>2, <2>3, <2>5, <4>1, BlockFits
    <3> QED
      BY <1>1, <2>2, <3>1 DEF OnBitmap, Pixels
  <2> QED
    BY <2>3, <2>4, <2>5
<1>5. CASE rp.y >= 20 /\ rp.x + FontWidth <= Width /\ drawChar
  <2>1. rp.point - 2 * Baseline * Width = Point(rp.x, rp.y - 18)
    BY <1>1, BitmapAssumption DEF Point, Baseline
  <2> DEFINE w == FontWidth
             h == FontHeight
  <2>2. drawn' = Rows(Point(rp.x, rp.y - 18), w, h)
    BY <1>5, <2>1 DEF drawChar
  <2>3. /\ drawn'[1] \in Nat /\ drawn'[2] \in Nat /\ drawn'[2] <= Pixels
    <3>1. rp.y - 18 \in Nat /\ rp.x + w <= Width /\ (rp.y - 18) + h <= Height
      BY <1>1, <1>5, BitmapAssumption DEF FontHeight
    <3>2. w \in Int /\ w > 0 /\ h \in Int /\ h > 0
      BY DEF FontWidth, FontHeight
    <3> HIDE DEF w, h
    <3> QED
      BY <1>1, <2>2, <3>1, <3>2, BlockFits
  <2>4. rp'.x = rp.x + 6 /\ rp'.y = rp.y /\ rp'.point = rp.point + 6
    BY <1>5 DEF drawChar, FontWidth
  <2>5. rp'.point = Point(rp'.x, rp'.y)
    BY <1>1, <2>4, BitmapAssumption DEF Point
  <2> QED
    BY <1>1, <2>3, <2>4, <2>5 DEF OnBitmap, Pixels
<1>6. CASE rp.y >= 20 /\ newline(20)
  BY <1>1, <1>6, MovedOnBitmap, BitmapAssumption DEF newline, Newline, LineHeight
<1>7. CASE UNCHANGED drawVars
  BY <1>7 DEF drawVars, OnBitmap, Pixels
<1> QED
  BY <1>2, <1>3, <1>4, <1>5, <1>6, <1>7 DEF DrawNext

(* Nothing is written outside the bitmap and the pointer stays where the    *)
(* position is, for every size of the bitmap and whatever calls were made.  *)
THEOREM DrawsSound == DrawSpec => []DrawsInBitmap
<1>1. OnBitmap => DrawsInBitmap
  BY DEF OnBitmap, DrawsInBitmap
<1> QED
  BY <1>1, InitOnBitmap, NextOnBitmap, PTL DEF DrawSpec

-----------------------------------------------------------------------------
(* The ways to fill a rectangle.                                            *)

FillSpec == (\E b \in Boxes : FillInit(b)) /\ [][FillNext]_fillVars

\* the end given to a row is its own, or a whole number of chunks before it
ChunksBelow(a, n, end) == \E down \in Nat : down % 32 = 0 /\ end = a + n - down

(* What a row gets: no pixel is left out but by "long", and at most a chunk *)
(* is painted too much, none from an aligned address; for a row that starts *)
(* a whole number of chunks after the first row, whose end is the end given.*)
LEMMA RowGets ==
  ASSUME NEW routine \in Routines, NEW a \in Nat, NEW n \in Nat, NEW end \in Nat,
         ChunksBelow(a, n, end)
  PROVE  /\ RowPixels(routine, a, n, end) \in Nat
         /\ RowPixels(routine, a, n, end) - n <= 32
         /\ routine = "long" => RowPixels(routine, a, n, end) - n \in -1..1
         /\ routine # "long" => RowPixels(routine, a, n, end) - n \in {0, 16, 32}
         /\ routine # "long" /\ (a % 8 = 0 \/ routine \in {"short", "dma"}) =>
              RowPixels(routine, a, n, end) - n = 0
<1>6. PICK down \in Nat : down % 32 = 0 /\ end = a + n - down
  BY DEF ChunksBelow
<1> DEFINE m == down \div 32
<1>5. m \in Nat /\ end = a + n - 32 * m
  BY <1>6
<1> HIDE DEF m
<1>1. CASE routine \in {"short", "dma"}
  BY <1>1 DEF RowPixels
<1>2. CASE routine = "long"
  <2>1. RowPixels(routine, a, n, end) = (a % 2) + 2 * (n \div 2) + ((end + 1) % 2)
    BY <1>2 DEF RowPixels, LongRow
  <2>2. (end + 1) % 2 = (a + n + 1) % 2
    BY <1>5
  <2>3. (a % 2) + 2 * (n \div 2) + ((a + n + 1) % 2) - n \in -1..1
    OBVIOUS
  <2>4. (a % 2) + 2 * (n \div 2) + ((a + n + 1) % 2) \in Nat
    OBVIOUS
  <2> QED
    BY <1>2, <2>1, <2>2, <2>3, <2>4
<1>3. CASE routine \in {"arm", "neon", "neon2"}
  <2>1. RowPixels(routine, a, n, end) = AsmRow(a, n, end, 4, 16)
    BY <1>3 DEF RowPixels
  <2> DEFINE head == (4 - (a % 4)) % 4
             body == 16 * (n \div 16)
             left == (n - body) - head
  <2>2. head \in 0..3 /\ (a % 8 = 0 => head = 0)
    OBVIOUS
  <2>3. body \in Nat /\ n - body \in 0..15
    OBVIOUS
  <2>4. AsmRow(a, n, end, 4, 16) = head + body + ((end - (a + head + body)) % 16)
    BY DEF AsmRow, Body
  <2> HIDE DEF head, body
  <2>5. left \in Int /\ end - (a + head + body) = left - 32 * m
    BY <1>5, <2>2, <2>3
  <2>6. (left - 32 * m) % 16 = left % 16
    <3> HIDE DEF left
    <3> QED
      BY <1>5, <2>5
  <2>7. left % 16 = IF left >= 0 THEN left ELSE left + 16
    BY <2>2, <2>3
  <2> QED
    BY <1>3, <2>1, <2>2, <2>3, <2>4, <2>5, <2>6, <2>7
<1>4. CASE routine \in {"neon3", "neon4"}
  <2>1. RowPixels(routine, a, n, end) = AsmRow(a, n, end, 8, 32)
    BY <1>4 DEF RowPixels
  <2> DEFINE head == (8 - (a % 8)) % 8
             body == 32 * (n \div 32)
             left == (n - body) - head
  <2>2. head \in 0..7 /\ (a % 8 = 0 => head = 0)
    OBVIOUS
  <2>3. body \in Nat /\ n - body \in 0..31
    OBVIOUS
  <2>4. AsmRow(a, n, end, 8, 32) = head + body + ((end - (a + head + body)) % 32)
    BY DEF AsmRow, Body
  <2> HIDE DEF head, body
  <2>5. left \in Int /\ end - (a + head + body) = left - 32 * m
    BY <1>5, <2>2, <2>3
  <2>6. (left - 32 * m) % 32 = left % 32
    <3> HIDE DEF left
    <3> QED
      BY <1>5, <2>5
  <2>7. left % 32 = IF left >= 0 THEN left ELSE left + 32
    BY <2>2, <2>3
  <2> QED
    BY <1>4, <2>1, <2>2, <2>3, <2>4, <2>5, <2>6, <2>7
<1> QED
  BY <1>1, <1>2, <1>3, <1>4 DEF Routines

RowAt(b, k) == Point(b.x, b.y + k)
EndOf(b) == RowAt(b, 0) + b.w

Filling ==
    /\ box \in Boxes
    /\ row \in Nat /\ (row = 0 \/ row <= RowCount(box.routine, box.h))
    /\ row = 0 => filled = Nothing
    /\ row > 0 => filled = <<RowAt(box, row - 1),
                             RowAt(box, row - 1)
                               + RowPixels(box.routine, RowAt(box, row - 1), box.w, EndOf(box))>>

LEMMA BoxIs ==
  ASSUME box \in Boxes
  PROVE  /\ box.routine \in Routines /\ box.w \in Nat /\ box.h \in Nat
         /\ box.x \in Nat /\ box.y \in Nat
         /\ box.x + box.w + 26 <= Width /\ box.y + box.h + 26 <= Height
         /\ Size[1] = box.w /\ Size[2] = box.h
         /\ RowCount(box.routine, box.h) \in Nat
         /\ RowCount(box.routine, box.h) <= box.h + 1
<1>1. /\ box.routine \in Routines /\ box.w \in Nat /\ box.h \in Nat
      /\ box.x \in Nat /\ box.y \in Nat
      /\ box.x + box.w + 26 <= Width /\ box.y + box.h + 26 <= Height
  BY BitmapAssumption DEF Boxes, RandomBox
<1> QED
  BY <1>1, BitmapAssumption DEF Size, Clipped, RowCount

LEMMA InitFilling == (\E b \in Boxes : FillInit(b)) => Filling
BY DEF FillInit, Filling

LEMMA NextFilling == Filling /\ [FillNext]_fillVars => Filling'
<1> SUFFICES ASSUME Filling, [FillNext]_fillVars
             PROVE  Filling'
  OBVIOUS
<1>1. CASE FillRow
  <2>1. /\ box' = box /\ row' = row + 1 /\ row \in Nat
        /\ row < RowCount(box.routine, box.h)
    BY <1>1, BoxIs DEF FillRow, Filling
  <2>3. Start = RowAt(box, row) /\ FirstEnd = EndOf(box) /\ Size[1] = box.w
    BY BoxIs DEF Filling, Start, FirstEnd, RowAt, EndOf
  <2>4. filled' = <<RowAt(box, row),
                    RowAt(box, row) + RowPixels(box.routine, RowAt(box, row), box.w, EndOf(box))>>
    BY <1>1, <2>3 DEF FillRow
  <2>2. row' - 1 = row
    BY <2>1
  <2> QED
    BY <2>1, <2>2, <2>4, BoxIs DEF Filling
<1>2. CASE NextBox
  BY <1>2 DEF NextBox, Filling
<1>3. CASE UNCHANGED fillVars
  BY <1>3 DEF fillVars, Filling, RowAt, EndOf
<1> QED
  BY <1>1, <1>2, <1>3 DEF FillNext

(* Every routine of the model keeps to the bitmap, on every box the program *)
(* draws and for every size of the bitmap whose rows are whole chunks, and   *)
(* paints what RowGets says of each row, the first or a later one.           *)
THEOREM BoxesSound == FillSpec => []BoxesPainted
<1>1. Filling => BoxesPainted
  <2> SUFFICES ASSUME Filling PROVE BoxesPainted
    OBVIOUS
  <2>1. box \in Boxes /\ row \in Nat
    BY DEF Filling
  <2>2. CASE row = 0
    BY <2>2, NothingFits DEF Filling, BoxesPainted
  <2>3. CASE row > 0
    <3> DEFINE k == row - 1
               a == RowAt(box, k)
               e == EndOf(box)
               p == RowPixels(box.routine, a, box.w, e)
    <3>1. k \in Nat /\ k <= box.h /\ filled = <<a, a + p>>
      BY <2>1, <2>3, BoxIs DEF Filling
    <3>2. box.y + k \in Nat /\ box.y + k + 2 <= Height
      BY <2>1, <3>1, BoxIs, BitmapAssumption
    <3> DEFINE above == (box.y + k) * Width
    <3>3. above \in Nat /\ above + 2 * Width <= Pixels /\ Pixels \in Nat
      <4> DEFINE upto == (box.y + k + 2) * Width
      <4>1. upto <= Pixels /\ above \in Nat /\ Pixels \in Nat
        BY <3>2, Ordered, BitmapAssumption DEF Pixels
      <4>2. upto = above + 2 * Width
        BY <3>2, BitmapAssumption
      <4> QED
        BY <4>1, <4>2
    <3>4. a = box.x + above /\ a \in Nat
      BY <2>1, <3>3, BoxIs DEF RowAt, Point
    <3> DEFINE down == k * Width
    <3>8. down \in Nat /\ down % 32 = 0 /\ e \in Nat /\ e = a + box.w - down
      <4> DEFINE q == Width \div 32
                 first == box.y * Width
      <4>1. q \in Nat /\ Width = 32 * q
        BY BitmapAssumption, StrideAssumption
      <4>2. e = first + box.x + box.w /\ first \in Nat
        BY <2>1, BoxIs, BitmapAssumption DEF EndOf, RowAt, Point
      <4>3. above = first + down /\ down \in Nat
        BY <2>1, <3>1, BoxIs, BitmapAssumption
      <4> HIDE DEF q
      <4>4. down = 32 * (k * q) /\ k * q \in Nat
        BY <3>1, <4>1
      <4>5. down % 32 = 0
        BY <4>3, <4>4
      <4> HIDE DEF first, down, above, k
      <4> QED
        BY <2>1, <3>4, <4>2, <4>3, <4>5, BoxIs
    <3>5. /\ p \in Nat /\ p <= box.w + 32
          /\ box.routine = "long" => p - box.w \in -1..1
          /\ box.routine # "long" => p - box.w \in {0, 16, 32}
          /\ box.routine # "long" /\ (a % 8 = 0 \/ box.routine \in {"short", "dma"}) => p - box.w = 0
      <4> DEFINE routine == box.routine
                 n == box.w
      <4>1. routine \in Routines /\ n \in Nat
        BY <2>1, BoxIs
      <4>2. /\ p = RowPixels(routine, a, n, e)
            /\ a \in Nat /\ e \in Nat /\ ChunksBelow(a, n, e)
        BY <3>4, <3>8 DEF ChunksBelow
      <4> HIDE DEF a, e, down, p, routine, n
      <4>3. /\ RowPixels(routine, a, n, e) \in Nat /\ RowPixels(routine, a, n, e) - n <= 32
            /\ routine = "long" => RowPixels(routine, a, n, e) - n \in -1..1
            /\ routine # "long" => RowPixels(routine, a, n, e) - n \in {0, 16, 32}
            /\ routine # "long" /\ (a % 8 = 0 \/ routine \in {"short", "dma"}) =>
                 RowPixels(routine, a, n, e) - n = 0
        BY <4>1, <4>2, RowGets
      <4>4. /\ p \in Nat /\ p <= n + 32
            /\ routine = "long" => p - n \in -1..1
            /\ routine # "long" => p - n \in {0, 16, 32}
            /\ routine # "long" /\ (a % 8 = 0 \/ routine \in {"short", "dma"}) => p - n = 0
        BY <4>1, <4>2, <4>3
      <4> QED
        BY <4>4 DEF routine, n
    <3> HIDE DEF p, a, e, k, down, above
    <3>6. filled[2] <= Pixels
      BY <2>1, <3>1, <3>3, <3>4, <3>5, BoxIs, BitmapAssumption
    <3>7. filled[2] - filled[1] - box.w = p - box.w
      BY <2>1, <3>1, <3>4, <3>5, BoxIs
    <3> QED
      BY <3>1, <3>5, <3>6, <3>7 DEF BoxesPainted
  <2> QED
    BY <2>1, <2>2, <2>3
<1> QED
  BY <1>1, InitFilling, NextFilling, PTL DEF FillSpec

-----------------------------------------------------------------------------
(* C's division, on the numbers the sounds are made of.                     *)

LEMMA Quotient ==
  ASSUME NEW a \in Int, NEW b \in Nat \ {0}
  PROVE  a \div b \in Int /\ b * (a \div b) <= a /\ a < b * (a \div b) + b
OBVIOUS

\* a quotient is below q when q times the divisor is above the dividend
LEMMA QuotientBelow ==
  ASSUME NEW a \in Int, NEW b \in Nat \ {0}, NEW q \in Int, a < q * b
  PROVE  a \div b < q
<1>1. SUFFICES ASSUME a \div b >= q PROVE FALSE
  BY Quotient
<1> DEFINE d == a \div b
<1>2. d \in Int /\ d - q \in Nat /\ b * d <= a
  BY <1>1, Quotient
<1> HIDE DEF d
<1>3. (d - q) * b \in Nat
  BY <1>2
<1>4. b * d = q * b + (d - q) * b
  BY <1>2
<1>5. q * b \in Int
  OBVIOUS
<1> QED
  BY <1>2, <1>3, <1>4, <1>5

\* and not when it is not
LEMMA QuotientFrom ==
  ASSUME NEW a \in Int, NEW b \in Nat \ {0}, NEW q \in Int, q * b <= a
  PROVE  a \div b >= q
<1>1. SUFFICES ASSUME a \div b < q PROVE FALSE
  BY Quotient
<1> DEFINE d == a \div b
<1>2. d \in Int /\ q - d - 1 \in Nat /\ a < b * d + b
  BY <1>1, Quotient
<1> HIDE DEF d
<1>3. (q - d - 1) * b \in Nat
  BY <1>2
<1>4. q * b = b * d + b + (q - d - 1) * b
  BY <1>2
<1>5. b * d \in Int
  BY <1>2
<1> QED
  BY <1>2, <1>3, <1>4, <1>5

\* a fraction of no more than c in size
LEMMA QuotWithin ==
  ASSUME NEW a \in Int, NEW b \in Nat \ {0}, NEW c \in Nat, -(c * b) <= a, a <= c * b
  PROVE  Quot(a, b) \in -c..c
<1>1. c * b \in Nat
  OBVIOUS
<1>3. CASE a >= 0
  <2>1. a < (c + 1) * b /\ 0 * b <= a
    BY <1>1, <1>3
  <2>2. a \div b < c + 1 /\ a \div b >= 0 /\ a \div b \in Int
    BY <2>1, QuotientBelow, QuotientFrom, Quotient
  <2> QED
    BY <1>3, <2>2 DEF Quot
<1>4. CASE a < 0
  <2>1. -a \in Int /\ -a < (c + 1) * b /\ 0 * b <= -a
    BY <1>1, <1>4
  <2>2. (-a) \div b < c + 1 /\ (-a) \div b >= 0 /\ (-a) \div b \in Int
    BY <2>1, QuotientBelow, QuotientFrom, Quotient
  <2> QED
    BY <1>4, <2>2 DEF Quot
<1> QED
  BY <1>3, <1>4

\* of a slope of c over n samples, what is behind at sample j
Part(c, n, j) == (c * j) \div n

LEMMA Slope ==
  ASSUME NEW c \in Nat, NEW n \in Nat \ {0}, NEW j \in Nat
  PROVE  /\ Part(c, n, j) \in Nat
         /\ j <= n => Part(c, n, j) <= c
         /\ Part(c, n, 0) = 0 /\ Part(c, n, n) = c
         /\ Part(c, n, j + 1) \in Nat
         /\ Part(c, n, j + 1) >= Part(c, n, j)
         /\ Part(c, n, j + 1) <= Part(c, n, j) + Part(c, n, 1) + 1
         /\ Part(c, n, 1) \in Nat
<1> DEFINE q == (c * j) \div n
           s == c \div n
<1>1. c * j \in Nat /\ c * n \in Nat /\ c * (j + 1) = c * j + c
  OBVIOUS
<1>2. q \in Int /\ n * q <= c * j /\ c * j < n * q + n
  BY <1>1, Quotient
<1>3. s \in Int /\ n * s <= c /\ c < n * s + n
  BY Quotient
<1>4. q >= 0
  <2>1. 0 * n <= c * j
    BY <1>1
  <2> QED
    BY <1>1, <2>1, QuotientFrom
<1>5. ASSUME j <= n PROVE q <= c
  <2>1. j * c <= n * c
    BY <1>5, Ordered
  <2>2. c * j < (c + 1) * n
    BY <1>1, <2>1
  <2> QED
    BY <1>1, <1>2, <2>2, QuotientBelow
<1>6. (c * 0) \div n = 0
  OBVIOUS
<1>7. (c * n) \div n = c
  <2>1. c * n < (c + 1) * n
    OBVIOUS
  <2>2. (c * n) \div n < c + 1 /\ (c * n) \div n >= c /\ (c * n) \div n \in Int
    BY <1>1, <2>1, QuotientBelow, QuotientFrom, Quotient
  <2> QED
    BY <2>2
<1> HIDE DEF q, s
<1>8. (c * (j + 1)) \div n >= q
  <2>1. q * n <= c * j + c
    BY <1>1, <1>2
  <2> QED
    BY <1>1, <1>2, <2>1, QuotientFrom
<1>9. (c * (j + 1)) \div n < q + s + 2
  <2>1. (q + s + 2) * n = n * q + n + (n * s + n)
    BY <1>2, <1>3
  <2>2. n * q \in Int /\ n * s \in Int /\ c * j \in Int
    BY <1>1, <1>2, <1>3
  <2>3. c * j + c < (q + s + 2) * n
    BY <1>2, <1>3, <2>1, <2>2
  <2> QED
    BY <1>1, <1>2, <1>3, <2>3, QuotientBelow
<1>10. (c * (j + 1)) \div n \in Int
  BY <1>1, Quotient
<1>11. s >= 0
  <2>1. 0 * n <= c
    OBVIOUS
  <2> QED
    BY <2>1, QuotientFrom DEF s
<1>12. Part(c, n, 1) = s
  BY DEF Part, s
<1> QED
  BY <1>2, <1>3, <1>4, <1>5, <1>6, <1>7, <1>8, <1>9, <1>10, <1>11, <1>12 DEF q, s, Part

LEMMA Steeper ==
  ASSUME NEW a \in Nat, NEW b \in Nat, NEW m \in Nat \ {0}, NEW n \in Nat \ {0}, a <= b, n <= m
  PROVE  Part(a, m, 1) <= Part(b, n, 1)
<1> DEFINE q == a \div m
<1>1. q \in Int /\ m * q <= a
  BY Quotient
<1>2. q >= 0
  BY QuotientFrom
<1> HIDE DEF q
<1>3. n * q <= m * q
  BY <1>1, <1>2, Ordered
<1>4. q * n <= b
  BY <1>1, <1>2, <1>3
<1>5. b \div n >= q
  BY <1>1, <1>4, QuotientFrom
<1> QED
  BY <1>5 DEF q, Part

-----------------------------------------------------------------------------
(* A note.  Its envelope is four slopes, each from where the one before it  *)
(* ends.                                                                    *)

Sounds == NoteNext \/ SweepSample
WaveSpec == (\E t \in Tones : NoteInit(t)) /\ SweepInit /\ [][Sounds]_waveVars

Ends == <<MAX_, SUS, SUS, 0>>
Starts_ == <<0, MAX_, SUS, SUS>>
Rise == Part(MAX_, adsr[1].time, 1) + 1
Fall == Part(SUS, adsr[4].time, 1) + 1

\* the amplitude that the next sample of a segment will have
Drop == MAX_ - SUS
Level(i, j) == CASE i = 1 -> Part(MAX_, adsr[1].time, j)
                 [] i = 2 -> MAX_ - Part(Drop, adsr[2].time, j)
                 [] i = 3 -> SUS
                 [] OTHER -> SUS - Part(SUS, adsr[4].time, j)

LEMMA EnvelopeIs ==
  /\ \A i \in 1..4 : adsr[i].target = Ends[i] /\ adsr[i].time \in Nat \ {0}
  /\ Len(adsr) = 4
  /\ adsr[4].time <= adsr[1].time /\ adsr[2].time = adsr[1].time
<1>1. SRATE \div 20 \in Nat \ {0} /\ SRATE \div 5 \in Nat \ {0} /\ SRATE \div 50 \in Nat \ {0}
  BY WaveAssumption
<1>2. SRATE \div 50 <= SRATE \div 20
  BY WaveAssumption
<1>3. /\ adsr[1] = [target |-> MAX_, time |-> SRATE \div 20]
      /\ adsr[2] = [target |-> SUS, time |-> SRATE \div 20]
      /\ adsr[3] = [target |-> SUS, time |-> SRATE \div 5]
      /\ adsr[4] = [target |-> 0, time |-> SRATE \div 50]
      /\ Len(adsr) = 4
  BY DEF adsr
<1>4. Ends[1] = MAX_ /\ Ends[2] = SUS /\ Ends[3] = SUS /\ Ends[4] = 0
  BY DEF Ends
<1>5. \A i \in 1..4 : i = 1 \/ i = 2 \/ i = 3 \/ i = 4
  OBVIOUS
<1> QED
  BY <1>1, <1>2, <1>3, <1>4, <1>5

\* from one sample to the next, within a segment
LEMMA LevelMoves ==
  ASSUME NEW i \in 1..4, NEW j \in Nat, i # 3 => j <= adsr[i].time
  PROVE  /\ Level(i, j) \in 0..MAX_
         /\ Level(i, 0) = Starts_[i]
         /\ i # 3 => Level(i, adsr[i].time) = Ends[i]
         /\ Level(i, j + 1) - Level(i, j) <= Rise
         /\ Level(i, j) - Level(i, j + 1) <= Fall
         /\ Rise \in Nat /\ Fall \in Nat
<1>1. adsr[1].time \in Nat \ {0} /\ adsr[2].time \in Nat \ {0} /\ adsr[4].time \in Nat \ {0}
  BY EnvelopeIs
<1>2. /\ MAX_ \in Nat /\ SUS \in Nat /\ Drop \in Nat /\ SUS <= MAX_ /\ Drop <= SUS
      /\ Drop = MAX_ - SUS
  BY DEF MAX_, SUS, Drop
<1>3. Rise \in Nat /\ Fall \in Nat
  <2> DEFINE m == adsr[1].time
             n == adsr[4].time
             zero == 0
  <2>1. m \in Nat \ {0} /\ n \in Nat \ {0} /\ zero \in Nat
    BY <1>1
  <2>2. Rise = Part(MAX_, m, 1) + 1 /\ Fall = Part(SUS, n, 1) + 1
    BY DEF Rise, Fall
  <2> HIDE DEF m, n, zero
  <2>3. Part(MAX_, m, 1) \in Nat /\ Part(SUS, n, 1) \in Nat
    BY <1>2, <2>1, Slope
  <2> QED
    BY <2>2, <2>3
<1>4. Starts_[1] = 0 /\ Starts_[2] = MAX_ /\ Starts_[3] = SUS /\ Starts_[4] = SUS
  BY DEF Starts_
<1>5. Ends[1] = MAX_ /\ Ends[2] = SUS /\ Ends[3] = SUS /\ Ends[4] = 0
  BY DEF Ends
<1> DEFINE n == adsr[i].time
<1>6. n \in Nat \ {0} /\ (i # 3 => j <= n)
  BY EnvelopeIs
<1>7. ASSUME NEW c \in Nat, i # 3
      PROVE  /\ Part(c, n, j) \in Nat /\ Part(c, n, j) <= c
             /\ Part(c, n, 0) = 0 /\ Part(c, n, n) = c
             /\ Part(c, n, j + 1) \in Nat /\ Part(c, n, 1) \in Nat
             /\ Part(c, n, j + 1) >= Part(c, n, j)
             /\ Part(c, n, j + 1) <= Part(c, n, j) + Part(c, n, 1) + 1
  <2> HIDE DEF n
  <2> QED
    BY <1>6, <1>7, Slope
<1>8. CASE i = 1
  <2>1. \A k : Level(i, k) = Part(MAX_, n, k)
    BY <1>8 DEF Level
  <2>2. Rise = Part(MAX_, n, 1) + 1
    BY <1>8 DEF Rise
  <2> HIDE DEF n
  <2> QED
    BY <1>2, <1>3, <1>4, <1>5, <1>7, <1>8, <2>1, <2>2 DEF n
<1>9. CASE i = 2
  <2> DEFINE m == adsr[4].time
  <2>1. \A k : Level(i, k) = MAX_ - Part(Drop, n, k)
    BY <1>9 DEF Level
  <2>2. Fall = Part(SUS, m, 1) + 1 /\ m <= n /\ m \in Nat \ {0} /\ n \in Nat \ {0}
    BY <1>9, EnvelopeIs DEF Fall
  <2>3. Part(Drop, n, 1) <= Part(SUS, m, 1) /\ Part(SUS, m, 1) \in Nat
    <3> HIDE DEF m, n
    <3>1. Part(Drop, n, 1) <= Part(SUS, m, 1)
      BY <1>2, <2>2, Steeper
    <3>2. Part(SUS, m, j) \in Nat /\ Part(SUS, m, 1) \in Nat
      BY <1>2, <2>2, Slope
    <3> QED
      BY <3>1, <3>2
  <2> HIDE DEF n, m
  <2> QED
    BY <1>2, <1>3, <1>4, <1>5, <1>7, <1>9, <2>1, <2>2, <2>3 DEF n
<1>10. CASE i = 3
  BY <1>2, <1>3, <1>4, <1>10 DEF Level
<1>11. CASE i = 4
  <2>1. \A k : Level(i, k) = SUS - Part(SUS, n, k)
    BY <1>11 DEF Level
  <2>2. Fall = Part(SUS, n, 1) + 1
    BY <1>11 DEF Fall
  <2> HIDE DEF n
  <2> QED
    BY <1>2, <1>3, <1>4, <1>5, <1>7, <1>11, <2>1, <2>2 DEF n
<1> QED
  BY <1>8, <1>9, <1>10, <1>11

\* the amplitude of the note is a step from the one its next sample has
Playing ==
    /\ tone \in [wvlen : Nat \ {0}, len : Nat]
    /\ note.i \in 1..4 /\ note.j \in Nat
    /\ note.j <= Duration(note.i)
    /\ note.ampstart = Starts_[note.i]
    /\ note.st \in 0..(tone.wvlen - 1)
    /\ note.amp \in 0..MAX_
    /\ Level(note.i, note.j) - note.amp <= Rise
    /\ note.amp - Level(note.i, note.j) <= Fall
    /\ note.v \in -MAX_..MAX_
    /\ trace.x \in 0..(TraceWidth - 1) /\ trace.row \in 64..320

LEMMA DurationIs ==
  ASSUME tone \in [wvlen : Nat \ {0}, len : Nat], NEW i \in 1..4
  PROVE  /\ Duration(i) \in Nat
         /\ i # 3 => Duration(i) = adsr[i].time
<1>1. CASE i = 3
  <2> DEFINE a == adsr[3].time * tone.len
  <2>1. adsr[3].time \in Nat /\ tone.len \in Nat
    BY EnvelopeIs
  <2>2. a \in Nat
    <3> DEFINE t == adsr[3].time
               k == tone.len
    <3>1. t \in Nat /\ k \in Nat
      BY <2>1
    <3> HIDE DEF t, k
    <3>2. t * k \in Nat
      BY <3>1
    <3> QED
      BY <3>2 DEF t, k
  <2>3. Duration(3) = a \div 256
    BY DEF Duration
  <2> HIDE DEF a
  <2>4. a \div 256 \in Nat
    BY <2>2
  <2> QED
    BY <1>1, <2>3, <2>4
<1>2. CASE i # 3
  BY <1>2, EnvelopeIs DEF Duration
<1> QED
  BY <1>1, <1>2

\* what the code computes is the level
LEMMA AmplitudeIs ==
  ASSUME Playing, note.j < Duration(note.i)
  PROVE  Amplitude(note) = Level(note.i, note.j)
<1> DEFINE n == Duration(note.i)
           j == note.j
           start == note.ampstart
           goal == adsr[note.i].target
<1>1. n \in Nat /\ j \in Nat /\ n > 0
  BY DurationIs DEF Playing
<1>2. start = Starts_[note.i] /\ goal = Ends[note.i] /\ note.i \in 1..4
  BY EnvelopeIs DEF Playing
<1>3. Amplitude(note) = Quot((goal - start) * j, n) + start
  BY DEF Amplitude
<1>4. MAX_ \in Nat /\ SUS \in Nat /\ Drop = MAX_ - SUS /\ Drop \in Nat
  BY DEF MAX_, SUS, Drop
<1>5. /\ Starts_[1] = 0 /\ Starts_[2] = MAX_ /\ Starts_[3] = SUS /\ Starts_[4] = SUS
      /\ Ends[1] = MAX_ /\ Ends[2] = SUS /\ Ends[3] = SUS /\ Ends[4] = 0
  BY DEF Starts_, Ends
<1>6. note.i # 3 => n = adsr[note.i].time
  BY <1>2, DurationIs DEF Playing
\* of a slope upwards, level, and downwards
<1>7. ASSUME NEW c \in Nat
      PROVE  /\ Quot(c * j, n) = Part(c, n, j)
             /\ Quot((-c) * j, n) = -Part(c, n, j)
             /\ Part(c, n, j) \in Int
  <2> HIDE DEF n, j
  <2>1. c * j \in Nat /\ (-c) * j = -(c * j) /\ -(-(c * j)) = c * j
    BY <1>1
  <2>2. Quot(c * j, n) = Part(c, n, j)
    BY <2>1 DEF Quot, Part
  <2>3. Part(c, n, j) \in Int
    BY <1>1, <2>1, Quotient DEF Part
  <2>4. CASE c * j > 0
    <3>1. Quot((-c) * j, n) = -((c * j) \div n)
      BY <2>1, <2>4 DEF Quot
    <3> QED
      BY <2>2, <2>3, <3>1 DEF Part
  <2>5. CASE c * j = 0
    <3>1. Quot((-c) * j, n) = 0 \div n
      BY <2>1, <2>5 DEF Quot
    <3>2. 0 \div n = 0
      BY <1>1
    <3> QED
      BY <2>2, <2>3, <2>5, <3>1, <3>2 DEF Part
  <2> QED
    BY <2>1, <2>2, <2>3, <2>4, <2>5
<1>8. CASE note.i = 1
  <2>1. Amplitude(note) = Quot((MAX_ - 0) * j, n) + 0 /\ Level(note.i, j) = Part(MAX_, n, j)
    BY <1>2, <1>3, <1>5, <1>6, <1>8 DEF Level
  <2> HIDE DEF n, j
  <2>2. MAX_ - 0 = MAX_
    BY <1>4
  <2>3. Amplitude(note) = Part(MAX_, n, j)
    BY <1>4, <1>7, <2>1, <2>2
  <2> QED
    BY <2>1, <2>3 DEF j
<1>9. CASE note.i = 2
  <2>1. /\ Amplitude(note) = Quot((SUS - MAX_) * j, n) + MAX_
        /\ Level(note.i, j) = MAX_ - Part(Drop, n, j)
    BY <1>2, <1>3, <1>5, <1>6, <1>9 DEF Level
  <2> HIDE DEF n, j
  <2>2. SUS - MAX_ = -Drop
    BY <1>4
  <2>3. Amplitude(note) = -Part(Drop, n, j) + MAX_ /\ Part(Drop, n, j) \in Int
    BY <1>4, <1>7, <2>1, <2>2
  <2>4. -Part(Drop, n, j) + MAX_ = MAX_ - Part(Drop, n, j)
    BY <1>4, <2>3
  <2> QED
    BY <2>1, <2>3, <2>4 DEF j
<1>10. CASE note.i = 3
  <2>1. Amplitude(note) = Quot((SUS - SUS) * j, n) + SUS /\ Level(note.i, j) = SUS
    BY <1>2, <1>3, <1>5, <1>10 DEF Level
  <2> HIDE DEF n, j
  <2>2. (SUS - SUS) * j = 0
    BY <1>1, <1>4
  <2>3. Quot(0, n) = 0
    BY <1>1 DEF Quot
  <2>4. Amplitude(note) = SUS
    BY <1>4, <2>1, <2>2, <2>3
  <2> QED
    BY <2>1, <2>4 DEF j
<1>11. CASE note.i = 4
  <2>1. /\ Amplitude(note) = Quot((0 - SUS) * j, n) + SUS
        /\ Level(note.i, j) = SUS - Part(SUS, n, j)
    BY <1>2, <1>3, <1>5, <1>6, <1>11 DEF Level
  <2> HIDE DEF n, j
  <2>2. 0 - SUS = -SUS
    BY <1>4
  <2>3. Amplitude(note) = -Part(SUS, n, j) + SUS /\ Part(SUS, n, j) \in Int
    BY <1>4, <1>7, <2>1, <2>2
  <2>4. -Part(SUS, n, j) + SUS = SUS - Part(SUS, n, j)
    BY <1>4, <2>3
  <2> QED
    BY <2>1, <2>3, <2>4 DEF j
<1> QED
  BY <1>2, <1>8, <1>9, <1>10, <1>11

LEMMA InitPlaying == (\E t \in Tones : NoteInit(t)) => Playing
<1> SUFFICES ASSUME NEW t \in Tones, NoteInit(t)
             PROVE  Playing
  OBVIOUS
<1>1. /\ tone \in [wvlen : Nat \ {0}, len : Nat]
      /\ note = [i |-> 1, j |-> 0, ampstart |-> 0, st |-> 0, amp |-> 0, v |-> 0]
      /\ trace = [x |-> 0, div |-> 0, row |-> 192]
  BY TonesAssumption DEF NoteInit
<1>2. Starts_[1] = 0 /\ MAX_ \in Nat
  BY DEF Starts_, MAX_
<1>3. Level(1, 0) = 0 /\ Rise \in Nat /\ Fall \in Nat
  <2> DEFINE zero == 0
             one == 1
  <2>1. one \in 1..4 /\ zero \in Nat /\ (one # 3 => zero <= adsr[one].time)
    BY EnvelopeIs
  <2> HIDE DEF zero, one
  <2>2. Level(one, 0) = Starts_[one] /\ Rise \in Nat /\ Fall \in Nat
    BY <2>1, LevelMoves
  <2> QED
    BY <1>2, <2>2 DEF one
<1>4. Duration(1) \in Nat
  BY <1>1, DurationIs
<1>5. 0 \in 0..(tone.wvlen - 1) /\ 0 \in 0..(TraceWidth - 1)
  BY <1>1, TraceAssumption
<1> QED
  BY <1>1, <1>2, <1>3, <1>4, <1>5 DEF Playing

\* a sample: what playnote computes, and what showsample draws
LEMMA SampleSteady ==
  ASSUME Playing, PlaySample
  PROVE  /\ Playing'
         /\ note'.amp - note.amp <= Rise /\ note.amp - note'.amp <= Fall
<1> DEFINE i == note.i
           j == note.j
           w == tone.wvlen
           level == Level(i, j)
<1>1. i \in 1..4 /\ j \in Nat /\ w \in Nat \ {0} /\ note.st \in 0..(w - 1)
  BY DEF Playing
<1>2. j < Duration(i) /\ (i # 3 => j <= adsr[i].time /\ j + 1 <= adsr[i].time) /\ Duration(i) \in Nat
  BY <1>1, DurationIs, EnvelopeIs DEF Playing, PlaySample
<1>3. /\ level \in 0..MAX_ /\ Level(i, j + 1) - level <= Rise /\ level - Level(i, j + 1) <= Fall
  <2> HIDE DEF i, j
  <2> QED
    BY <1>1, <1>2, LevelMoves
<1>4. Amplitude(note) = level
  BY <1>2, AmplitudeIs
<1>5. note' = [note EXCEPT !.amp = level, !.v = Saw(note), !.j = j + 1, !.st = (note.st + 1) % w]
  BY <1>4 DEF PlaySample
<1>6. Saw(note) \in -MAX_..MAX_
  <2> DEFINE a == note.st * 2 - w
  <2>1. Saw(note) = Quot(a * level, w)
    BY <1>4 DEF Saw
  <2>2. a \in Int /\ -w <= a /\ a <= w
    BY <1>1
  <2> HIDE DEF a, w, level
  <2>3. level \in Nat /\ level <= MAX_ /\ MAX_ \in Nat
    <3>1. MAX_ \in Nat
      BY DEF MAX_
    <3> QED
      BY <1>3, <3>1
  <2>4. w * level <= w * MAX_ /\ w * level \in Nat /\ w * MAX_ \in Nat
    <3>1. level * w <= MAX_ * w /\ level * w \in Nat /\ MAX_ * w \in Nat
      BY <1>1, <2>3, Ordered
    <3>2. w * level = level * w /\ w * MAX_ = MAX_ * w
      BY <1>1, <2>3
    <3> QED
      BY <3>1, <3>2
  <2>5. a * level <= w * level
    <3>1. w - a \in Nat
      BY <1>1, <2>2
    <3>2. (w - a) * level \in Nat
      BY <2>3, <3>1
    <3>3. (w - a) * level = w * level - a * level /\ a * level \in Int /\ w * level \in Int
      BY <1>1, <2>2, <2>3
    <3> QED
      BY <3>2, <3>3
  <2>6. -(w * level) <= a * level
    <3>1. w + a \in Nat
      BY <1>1, <2>2
    <3>2. (w + a) * level \in Nat
      BY <2>3, <3>1
    <3>3. (w + a) * level = w * level + a * level /\ a * level \in Int /\ w * level \in Int
      BY <1>1, <2>2, <2>3
    <3> QED
      BY <3>2, <3>3
  <2> DEFINE b == a * level
  <2>7. MAX_ * w = w * MAX_ /\ b \in Int
    BY <1>1, <2>2, <2>3
  <2>8. -(MAX_ * w) <= b /\ b <= MAX_ * w
    BY <2>4, <2>5, <2>6, <2>7
  <2> HIDE DEF b
  <2>9. Quot(b, w) \in -MAX_..MAX_
    BY <1>1, <2>3, <2>7, <2>8, QuotWithin
  <2> QED
    BY <2>1, <2>9 DEF b
<1>7. trace'.x \in 0..(TraceWidth - 1)
  BY TraceAssumption DEF PlaySample, showsample, Column, Playing
<1>8. trace'.row \in 64..320
  <2> DEFINE v == Saw(note)
             b == -v * 128
             c == 128
             d == 32768
  <2>1. trace'.row = Quot(b, d) + 192
    BY DEF PlaySample, showsample
  <2>2. MAX_ = 32767
    BY DEF MAX_
  <2> HIDE DEF v
  <2>3. b \in Int /\ -(c * d) <= b /\ b <= c * d /\ c \in Nat /\ d \in Nat \ {0}
    <3>1. v \in Int /\ -32767 <= v /\ v <= 32767
      <4>1. v \in -MAX_..MAX_
        BY <1>6 DEF v
      <4>2. MAX_ \in Int
        BY <2>2
      <4>3. v \in Int /\ -MAX_ <= v /\ v <= MAX_
        BY <4>1, <4>2
      <4> QED
        BY <2>2, <4>3
    <3>2. b \in Int /\ b = -(v * 128) /\ v * 128 \in Int
      BY <3>1
    <3>3. c * d = 4194304
      OBVIOUS
    <3> QED
      BY <3>1, <3>2, <3>3
  <2> HIDE DEF b, c, d
  <2>4. Quot(b, d) \in -c..c
    BY <2>3, QuotWithin
  <2> QED
    BY <2>1, <2>4 DEF c
<1>9. tone' = tone
  BY DEF PlaySample
<1>10. (note.st + 1) % w \in 0..(w - 1)
  BY <1>1
<1>11. /\ note'.i = i /\ note'.j = j + 1 /\ note'.ampstart = note.ampstart /\ note'.amp = level
       /\ note'.v = Saw(note) /\ note'.st = (note.st + 1) % w
  BY <1>5 DEF Playing
<1>12. Duration(note.i)' = Duration(i)
  BY <1>9, <1>11 DEF Duration
<1>13. Playing'
  <2> HIDE DEF level
  <2>1. note'.j <= Duration(note.i)' /\ note'.j \in Nat
    BY <1>1, <1>2, <1>11, <1>12
  <2>2. /\ Level(note'.i, note'.j) - note'.amp <= Rise
        /\ note'.amp - Level(note'.i, note'.j) <= Fall
    BY <1>3, <1>11
  <2> QED
    BY <1>3, <1>6, <1>7, <1>8, <1>9, <1>10, <1>11, <2>1, <2>2 DEF Playing
<1>14. note'.amp - note.amp <= Rise /\ note.amp - note'.amp <= Fall
  BY <1>11 DEF Playing
<1> QED
  BY <1>13, <1>14

\* the end of a segment: the next one starts where it ended
LEMMA SegmentSteady ==
  ASSUME Playing, NextSegment
  PROVE  Playing' /\ note'.amp = note.amp
<1> DEFINE i == note.i
           n == IF i < 4 THEN i + 1 ELSE 1
<1>1. i \in 1..4 /\ n \in 1..4
  BY DEF Playing
<1>2. note.j = Duration(i) /\ (i # 3 => note.j = adsr[i].time)
  <2>1. Duration(i) \in Nat /\ (i # 3 => Duration(i) = adsr[i].time)
    BY <1>1, DurationIs DEF Playing
  <2>2. note.j \in Nat /\ note.j <= Duration(i) /\ note.j >= Duration(i)
    BY DEF Playing, NextSegment
  <2> QED
    BY <2>1, <2>2
<1>3. /\ note'.i = n /\ note'.j = 0 /\ note'.amp = note.amp /\ note'.v = note.v
      /\ note'.st \in 0..(tone.wvlen - 1) /\ UNCHANGED <<tone, trace>>
      /\ note'.ampstart = IF i < 4 THEN adsr[i].target ELSE 0
  BY EnvelopeIs DEF NextSegment, StartsFrom, Playing
<1>4. Starts_[n] = Ends[i] /\ note'.ampstart = Ends[i]
  <2>1. adsr[i].target = Ends[i]
    BY <1>1, EnvelopeIs
  <2>2. i = 4 => Ends[i] = 0
    BY DEF Ends
  <2>3. i = 1 \/ i = 2 \/ i = 3 \/ i = 4
    BY <1>1
  <2>4. Starts_[n] = Ends[i]
    BY <2>3 DEF Starts_, Ends
  <2> QED
    BY <1>1, <1>3, <2>1, <2>2, <2>4
<1>5. Level(i, note.j) = Ends[i]
  <2>1. CASE i = 3
    BY <2>1 DEF Level, Ends
  <2>2. CASE i # 3
    <3> DEFINE k == adsr[i].time
    <3>1. k \in Nat /\ k <= adsr[i].time
      BY <1>1, EnvelopeIs
    <3>2. Level(i, k) = Ends[i]
      <4> HIDE DEF i, k
      <4> QED
        BY <1>1, <2>2, <3>1, LevelMoves DEF k
    <3> QED
      BY <1>2, <2>2, <3>2
  <2> QED
    BY <2>1, <2>2
<1>6. Level(n, 0) = Starts_[n]
  <2> DEFINE zero == 0
  <2>1. zero \in Nat /\ (n # 3 => zero <= adsr[n].time)
    BY <1>1, EnvelopeIs
  <2> HIDE DEF n, zero
  <2> QED
    BY <1>1, <2>1, LevelMoves
<1>7. Level(note'.i, note'.j) = Level(i, note.j)
  BY <1>3, <1>4, <1>5, <1>6
<1>8. Duration(note.i)' \in Nat
  <2>1. Duration(n) \in Nat
    BY <1>1, DurationIs DEF Playing
  <2>2. Duration(note.i)' = Duration(n)
    BY <1>3 DEF Duration
  <2> QED
    BY <2>1, <2>2
<1> QED
  BY <1>1, <1>3, <1>4, <1>7, <1>8 DEF Playing

(* A note has no clicks, in any key, at any speed and for any rate of       *)
(* samples: each segment of the envelope begins where the one before it     *)
(* ends, also when it has no sample at all; the samples fit 16 bits and the *)
(* trace of them stays on the screen.                                       *)
THEOREM ToneSound == WaveSpec => ToneSteady
<1> DEFINE Steady == /\ note'.amp - note.amp <= MAX_ \div adsr[1].time + 1
                     /\ note.amp - note'.amp <= SUS \div adsr[4].time + 1
                     /\ note'.v \in -MAX_..MAX_
                     /\ trace'.x \in 0..(TraceWidth - 1) /\ trace'.row \in 64..320
<1>1. Rise = MAX_ \div adsr[1].time + 1 /\ Fall = SUS \div adsr[4].time + 1
  <2>1. MAX_ * 1 = MAX_ /\ SUS * 1 = SUS
    BY DEF MAX_, SUS
  <2> QED
    BY <2>1 DEF Rise, Fall, Part
<1>2. Rise \in Nat /\ Fall \in Nat
  <2> DEFINE zero == 0
             one == 1
  <2>1. one \in 1..4 /\ zero \in Nat /\ (one # 3 => zero <= adsr[one].time)
    BY EnvelopeIs
  <2> HIDE DEF zero, one
  <2> QED
    BY <2>1, LevelMoves
<1>3. Playing /\ [Sounds]_waveVars => Playing' /\ Steady
  <2> SUFFICES ASSUME Playing, [Sounds]_waveVars PROVE Playing' /\ Steady
    OBVIOUS
  <2>1. CASE PlaySample
    <3>1. /\ Playing'
          /\ note'.amp - note.amp <= Rise /\ note.amp - note'.amp <= Fall
      BY <2>1, SampleSteady
    <3> QED
      BY <1>1, <3>1 DEF Playing
  <2>2. CASE UNCHANGED <<tone, note, trace>>
    <3>1. Playing'
      BY <2>2 DEF Playing, Duration
    <3>2. note.amp \in Int /\ note'.amp = note.amp
      BY <2>2 DEF Playing
    <3>3. note'.amp - note.amp = 0 /\ note.amp - note'.amp = 0
      BY <3>2
    <3> QED
      BY <1>1, <1>2, <3>1, <3>3 DEF Playing
  <2>3. CASE NextSegment
    <3>1. Playing' /\ note'.amp = note.amp
      BY <2>3, SegmentSteady
    <3>2. note.amp \in Int
      BY DEF Playing
    <3>3. note'.amp - note.amp = 0 /\ note.amp - note'.amp = 0
      BY <3>1, <3>2
    <3> QED
      BY <1>1, <1>2, <3>1, <3>3 DEF Playing
  <2> QED
    BY <2>1, <2>2, <2>3 DEF Sounds, NoteNext, SweepSample, waveVars
<1> HIDE DEF Steady
<1>4. WaveSpec => [][Steady]_waveVars
  BY <1>3, InitPlaying, PTL DEF WaveSpec
<1> QED
  BY <1>4 DEF ToneSteady, Steady

-----------------------------------------------------------------------------
(* The sweep.                                                               *)

Sweeping == /\ sweep \in [i : 0..(WVLEN - 1), phase : 0..(WVLEN - 1), pdir : {-1, 1},
                          side : {-1, 1}, phaselen : Nat]

LEMMA InitSweeping == SweepInit => Sweeping
BY WaveAssumption DEF SweepInit, Sweeping

\* one sample; the sides change at the short end only
LEMMA SweepMoves ==
  ASSUME Sweeping, SweepSample
  PROVE  Sweeping' /\ (sweep'.side # sweep.side => sweep.phase = 0 /\ sweep'.phase = 0)
<1> DEFINE next == (sweep.i + 1) % WVLEN
           count == sweep.phaselen + 1
           s == [sweep EXCEPT !.i = next, !.phaselen = count]
           phase == s.phase + s.pdir
           t == [s EXCEPT !.phaselen = 0, !.phase = phase]
           Sweeps(P) == [i : 0..(WVLEN - 1), phase : P, pdir : {-1, 1}, side : {-1, 1}, phaselen : Nat]
<1>1. /\ sweep.phase \in 0..(WVLEN - 1) /\ sweep.pdir \in {-1, 1} /\ sweep.side \in {-1, 1}
      /\ count \in Nat /\ next \in 0..(WVLEN - 1) /\ sweep \in Sweeps(0..(WVLEN - 1))
  BY WaveAssumption DEF Sweeping
<1>2. /\ sweep' = s \/ sweep' = Turned(t)
      /\ Sweeping' <=> sweep' \in Sweeps(0..(WVLEN - 1))
  BY DEF SweepSample, Sweeping
<1> HIDE DEF next, count
<1>3. /\ s \in Sweeps(0..(WVLEN - 1))
      /\ s.phase = sweep.phase /\ s.pdir = sweep.pdir /\ s.side = sweep.side
  BY <1>1
<1> HIDE DEF s
<1>4. phase \in Int /\ phase = sweep.phase + sweep.pdir
  BY <1>1, <1>3, WaveAssumption
<1> HIDE DEF phase
<1>5. t \in Sweeps(Int) /\ t.phase = phase /\ t.pdir = sweep.pdir /\ t.side = sweep.side
  BY <1>3, <1>4
<1> HIDE DEF t
<1>6. CASE sweep' = s
  BY <1>2, <1>3, <1>6
<1>7. CASE sweep' = Turned(t) /\ ~(t.phase < 0 \/ t.phase >= WVLEN)
  <2>1. sweep' = t
    BY <1>7 DEF Turned
  <2>2. t.phase \in 0..(WVLEN - 1)
    BY <1>4, <1>5, <1>7, WaveAssumption
  <2>3. sweep'.side = sweep.side
    BY <1>5, <2>1
  <2>4. sweep' \in Sweeps(0..(WVLEN - 1))
    BY <1>5, <2>1, <2>2
  <2> QED
    BY <1>2, <2>3, <2>4
<1>8. CASE sweep' = Turned(t) /\ (t.phase < 0 \/ t.phase >= WVLEN)
  <2> DEFINE side == IF t.pdir < 0 THEN -t.side ELSE t.side
             back == t.phase - t.pdir
             pdir == -t.pdir
  <2>1. sweep' = [t EXCEPT !.pdir = pdir, !.phase = back, !.side = side]
    BY <1>8 DEF Turned
  <2>2. back = sweep.phase /\ pdir \in {-1, 1} /\ side \in {-1, 1}
    BY <1>1, <1>4, <1>5, WaveAssumption
  <2>3. side # sweep.side => sweep.pdir = -1
    BY <1>1, <1>5
  <2>4. sweep.pdir = -1 => sweep.phase = 0
    BY <1>1, <1>4, <1>5, <1>8, WaveAssumption
  <2> HIDE DEF side, back, pdir
  <2>5. /\ sweep' \in Sweeps(0..(WVLEN - 1))
        /\ sweep'.phase = back /\ sweep'.side = side
    BY <1>1, <1>5, <2>1, <2>2
  <2> QED
    BY <1>2, <2>2, <2>3, <2>4, <2>5
<1> QED
  BY <1>2, <1>6, <1>7, <1>8

Words == 0..65535

LEMMA WordFits == Sweeping => SweepWord \in Words
<1> SUFFICES ASSUME Sweeping PROVE SweepWord \in Words
  OBVIOUS
<1> DEFINE c == 32767
           m == 65535
           a == (sweep.i * 2 - WVLEN) * c
           w == WVLEN
<1>1. SweepWord = IF sweep.i > sweep.phase THEN 0 ELSE Quot(a, w) + 32768
  BY DEF SweepWord
<1>2. a \in Int /\ -(c * w) <= a /\ a <= c * w /\ c \in Nat /\ w \in Nat \ {0}
  BY WaveAssumption DEF Sweeping
<1>3. Words = 0..m
  BY DEF Words
<1> HIDE DEF a, c, w, m
<1>4. Quot(a, w) \in -c..c
  BY <1>2, QuotWithin
<1>5. Quot(a, w) \in Int /\ -c <= Quot(a, w) /\ Quot(a, w) <= c
  BY <1>2, <1>4
<1>6. c = 32767 /\ m = 65535
  BY DEF c, m
<1> DEFINE q == Quot(a, w)
<1>7. q \in Int /\ -32767 <= q /\ q <= 32767
  BY <1>5, <1>6
<1>8. SweepWord = 0 \/ SweepWord = q + 32768
  BY <1>1
<1> HIDE DEF q
<1>9. SweepWord \in Int /\ 0 <= SweepWord /\ SweepWord <= m /\ m \in Int
  BY <1>6, <1>7, <1>8
<1> QED
  BY <1>3, <1>9

(* The sweep turns at both ends of the wave without leaving it, and goes to *)
(* the other channel when it is silent, whatever the length of the wave.    *)
THEOREM SweepSound == WaveSpec => SweepSilent
<1> DEFINE Silent == /\ sweep'.side # sweep.side => sweep.phase = 0 /\ sweep'.phase = 0
                     /\ sweep'.phase \in 0..(WVLEN - 1)
                     /\ SweepWord \in Words
<1>1. ASSUME Sweeping, [Sounds]_waveVars
      PROVE  Sweeping' /\ (Silent \/ UNCHANGED sweep)
  <2>1. CASE SweepSample
    <3>1. Sweeping' /\ (sweep'.side # sweep.side => sweep.phase = 0 /\ sweep'.phase = 0)
      BY <1>1, <2>1, SweepMoves
    <3>2. sweep'.phase \in 0..(WVLEN - 1)
      BY <3>1 DEF Sweeping
    <3>3. SweepWord \in Words
      BY <1>1, WordFits
    <3> QED
      BY <3>1, <3>2, <3>3
  <2>2. CASE UNCHANGED sweep
    BY <1>1, <2>2 DEF Sweeping
  <2>3. SweepSample \/ UNCHANGED sweep
    BY <1>1 DEF Sounds, NoteNext, PlaySample, NextSegment, waveVars
  <2> QED
    BY <2>1, <2>2, <2>3
<1> HIDE DEF Silent
<1>2. Sweeping /\ [Sounds]_waveVars => Sweeping' /\ [Silent]_sweep
  BY <1>1
<1>3. WaveSpec => [][Silent]_sweep
  BY <1>2, InitSweeping, PTL DEF WaveSpec
<1> QED
  BY <1>3 DEF SweepSilent, Silent, Words

-----------------------------------------------------------------------------
(* The page table of mmu_simple_init.                                       *)

MapSpec == (\E c \in Sdrc : MapInit(c)) /\ [][MapNext]_mapVars

Entry(k, p) == [addr |-> p, type |-> IF IsSuper(Ranges[k]) THEN "super" ELSE "section",
                attr |-> Ranges[k].attr]

\* what is in the table are the ranges that have been mapped, and no other
Tabled == /\ \A p \in DOMAIN pt :
                \E k \in 1..mapped : p \in Covered(Ranges[k]) /\ pt[p] = Entry(k, p)
          /\ \A k \in 1..mapped : Covered(Ranges[k]) \subseteq DOMAIN pt

MapInv == sdrc \in Sdrc /\ mapped \in 0..Len(Ranges) /\ Tabled

LEMMA RangeCount == Len(Ranges) = 13
BY DEF Ranges, iomap

LEMMA InitMapped == (\E c \in Sdrc : MapInit(c)) => MapInv
<1> SUFFICES ASSUME NEW c \in Sdrc, MapInit(c) PROVE MapInv
  OBVIOUS
<1>1. sdrc = c /\ mapped = 0 /\ DOMAIN pt = {}
  BY DEF MapInit
<1> QED
  BY <1>1, RangeCount DEF MapInv, Tabled

LEMMA NextMapped == MapInv /\ [MapNext]_mapVars => MapInv'
<1> SUFFICES ASSUME MapInv, [MapNext]_mapVars PROVE MapInv'
  OBVIOUS
<1>1. sdrc' = sdrc /\ Ranges' = Ranges /\ \A k, p : Entry(k, p)' = Entry(k, p)
  <2>1. sdrc' = sdrc
    BY DEF MapNext, mapVars
  <2> QED
    BY <2>1 DEF Ranges, Entry, ram0_size, ram1_size, ram1_base
<1>2. CASE UNCHANGED mapVars
  BY <1>1, <1>2 DEF MapInv, Tabled, mapVars
<1>3. CASE MapNext
  <2> DEFINE n == mapped + 1
             r == Ranges[n]
  <2>1. mapped \in 0..12 /\ mapped' = n /\ n \in 1..13
    BY <1>3, RangeCount DEF MapInv, MapNext
  <2>2. pt' = [p \in Covered(r) \cup DOMAIN pt |->
                 IF p \in Covered(r) THEN Entry(n, p) ELSE pt[p]]
    BY <1>3 DEF MapNext, map_section, Entry
  <2> HIDE DEF r
  <2>3. /\ DOMAIN pt' = Covered(r) \cup DOMAIN pt
        /\ \A p \in DOMAIN pt' : pt'[p] = IF p \in Covered(r) THEN Entry(n, p) ELSE pt[p]
    BY <2>2
  <2>5. \A p \in DOMAIN pt' : \E k \in 1..n : p \in Covered(Ranges[k]) /\ pt'[p] = Entry(k, p)
    <3> SUFFICES ASSUME NEW p \in DOMAIN pt'
                 PROVE  \E k \in 1..n : p \in Covered(Ranges[k]) /\ pt'[p] = Entry(k, p)
      OBVIOUS
    <3>1. CASE p \in Covered(r)
      BY <2>1, <2>3, <3>1 DEF r
    <3>2. CASE p \notin Covered(r)
      <4>1. PICK k \in 1..mapped : p \in Covered(Ranges[k]) /\ pt[p] = Entry(k, p)
        BY <2>3, <3>2 DEF MapInv, Tabled
      <4> QED
        BY <2>1, <2>3, <3>2, <4>1
    <3> QED
      BY <3>1, <3>2
  <2>6. \A k \in 1..n : Covered(Ranges[k]) \subseteq DOMAIN pt'
    <3> SUFFICES ASSUME NEW k \in 1..n PROVE Covered(Ranges[k]) \subseteq DOMAIN pt'
      OBVIOUS
    <3>1. CASE k = n
      BY <2>3, <3>1 DEF r
    <3>2. CASE k # n
      BY <2>1, <2>3, <3>2 DEF MapInv, Tabled
    <3> QED
      BY <3>1, <3>2
  <2>7. Tabled'
    BY <1>1, <2>1, <2>5, <2>6 DEF MapInv, Tabled
  <2> QED
    BY <1>1, <2>1, <2>7, RangeCount DEF MapInv
<1> QED
  BY <1>2, <1>3

\* the first megabyte of a range and the one after its last
iolo == <<1024, 1026, 1152, 1168, 1280, 1344, 1472, 1664, 1728, 1744, 1760>>
iohi == <<1025, 1027, 1168, 1169, 1281, 1352, 1520, 1680, 1744, 1760, 1776>>
Lo(k) == IF k <= 11 THEN iolo[k] ELSE IF k = 12 THEN 2048 ELSE 2048 + 128 * sdrc.high
Hi(k) == IF k <= 11 THEN iohi[k]
         ELSE IF k = 12 THEN 2048 + 2 * sdrc.size0
         ELSE 2048 + 128 * sdrc.high + 2 * sdrc.size1

LEMMA IoRanges ==
  \A k \in 1..11 : /\ iolo[k] \in Nat /\ iohi[k] \in Nat /\ iolo[k] < iohi[k]
                   /\ 1024 <= iolo[k] /\ iohi[k] < 2048
                   /\ iomap[k].base = iolo[k] * MB /\ iomap[k].end = iohi[k] * MB
                   /\ Ranges[k] = iomap[k]
<1> SUFFICES ASSUME NEW k \in 1..11
    PROVE  /\ iolo[k] \in Nat /\ iohi[k] \in Nat /\ iolo[k] < iohi[k]
           /\ 1024 <= iolo[k] /\ iohi[k] < 2048
           /\ iomap[k].base = iolo[k] * MB /\ iomap[k].end = iohi[k] * MB
           /\ Ranges[k] = iomap[k]
  OBVIOUS
<1>1. k \in {1, 2, 3, 4, 5, 6, 7, 8, 9, 10, 11}
  OBVIOUS
<1>2. /\ iolo[k] \in Nat /\ iohi[k] \in Nat /\ iolo[k] < iohi[k]
      /\ 1024 <= iolo[k] /\ iohi[k] < 2048
  BY <1>1 DEF iolo, iohi
<1>3. iomap[k].base = iolo[k] * MB /\ iomap[k].end = iohi[k] * MB
  BY <1>1 DEF iolo, iohi, iomap, Mapping
<1>4. Ranges[k] = iomap[k]
  BY <1>1 DEF Ranges, iomap
<1> QED
  BY <1>2, <1>3, <1>4

\* the devices are in the order of their addresses
LEMMA IoOrder == \A j, k \in 1..11 : j < k => iohi[j] <= iolo[k]
<1> SUFFICES ASSUME NEW j \in 1..11, NEW k \in 1..11, j < k PROVE iohi[j] <= iolo[k]
  OBVIOUS
<1>1. /\ j \in {1, 2, 3, 4, 5, 6, 7, 8, 9, 10, 11}
      /\ k \in {1, 2, 3, 4, 5, 6, 7, 8, 9, 10, 11}
  OBVIOUS
<1> QED
  BY <1>1 DEF iolo, iohi

LEMMA Banks ==
  ASSUME sdrc \in Sdrc
  PROVE  /\ sdrc.high \in 0..15 /\ sdrc.low \in 0..3
         /\ sdrc.size0 \in 1..512 /\ sdrc.size1 \in 0..512
         /\ 2 * sdrc.size0 <= 128 * sdrc.high + 32 * sdrc.low
         /\ 128 * sdrc.high + 32 * sdrc.low + 2 * sdrc.size1 <= 2048
<1> DEFINE h == sdrc.high
           a == sdrc.size0
           b == sdrc.size1
           l == sdrc.low
<1>1. /\ h \in Starts /\ a \in Sizes /\ b \in Sizes \cup {0} /\ l \in 0..3
      /\ 2 * a <= 128 * h + 32 * l /\ 128 * h + 32 * l + 2 * b <= 2048
  BY DEF Sdrc
<1> HIDE DEF h, a, b, l
<1>2. h \in 0..15
  BY <1>1, BankAssumption
<1>3. a \in 1..512 /\ b \in 0..512
  BY <1>1, BankAssumption
<1> QED
  BY <1>1, <1>2, <1>3 DEF h, a, b, l

\* every range begins and ends with a megabyte; the last may end with the addresses
LEMMA RangesAre ==
  ASSUME sdrc \in Sdrc, NEW k \in 1..13
  PROVE  /\ Lo(k) \in Nat /\ Hi(k) \in Nat /\ 1024 <= Lo(k) /\ Lo(k) < 4096
         /\ Lo(k) <= Hi(k) /\ Hi(k) <= 4096
         /\ Ranges[k].base = Lo(k) * MB /\ Ranges[k].end = (Hi(k) * MB) % Addresses
<1>1. CASE k \in 1..11
  <2>1. /\ iolo[k] \in Nat /\ iohi[k] \in Nat /\ iolo[k] < iohi[k]
        /\ 1024 <= iolo[k] /\ iohi[k] < 2048
    BY <1>1, IoRanges
  <2>2. Ranges[k].base = iolo[k] * MB /\ Ranges[k].end = iohi[k] * MB
    BY <1>1, IoRanges
  <2>3. Lo(k) = iolo[k] /\ Hi(k) = iohi[k]
    BY <1>1 DEF Lo, Hi
  <2>4. iohi[k] * MB = (iohi[k] * MB) % Addresses
    BY <2>1 DEF MB, Addresses
  <2> QED
    BY <2>1, <2>2, <2>3, <2>4
<1>2. CASE k = 12
  <2>1. Ranges[12] = [base |-> NCS0, end |-> NCS0 + ram0_size, attr |-> "data"]
    BY DEF Ranges, iomap
  <2> DEFINE a == sdrc.size0
  <2>2. Lo(k) = 2048 /\ Hi(k) = 2048 + 2 * a /\ a \in 1..512
    BY <1>2, Banks DEF Lo, Hi
  <2>3. Ranges[k].base = 2048 * MB /\ Ranges[k].end = 2048 * MB + a * 2 * MB
    BY <1>2, <2>1 DEF NCS0, ram0_size
  <2> HIDE DEF a
  <2>4. 2048 * MB + a * 2 * MB = ((2048 + 2 * a) * MB) % Addresses
    BY <2>2 DEF MB, Addresses
  <2> HIDE DEF Lo, Hi
  <2> QED
    BY <2>2, <2>3, <2>4
<1>3. CASE k = 13
  <2>1. Ranges[13] = [base |-> ram1_base, end |-> (ram1_base + ram1_size) % Addresses,
                      attr |-> "dma"]
    BY DEF Ranges, iomap
  <2> DEFINE h == sdrc.high
             b == sdrc.size1
             l == sdrc.low
  <2>2. /\ Lo(k) = 2048 + 128 * h /\ Hi(k) = 2048 + 128 * h + 2 * b
        /\ h \in 0..15 /\ l \in 0..3 /\ b \in 0..512 /\ 128 * h + 2 * b <= 2048
    <3>1. Lo(k) = 2048 + 128 * h /\ Hi(k) = 2048 + 128 * h + 2 * b
      BY <1>3 DEF Lo, Hi
    <3>2. /\ h \in 0..15 /\ l \in 0..3 /\ b \in 0..512
          /\ 128 * h + 32 * l + 2 * b <= 2048
      BY Banks
    <3> HIDE DEF h, b, l
    <3>3. 128 * h + 2 * b <= 2048
      BY <3>2
    <3> QED
      BY <3>1, <3>2, <3>3
  <2>3. ram1_base = (2048 * MB + h * 128 * MB + l * 8192 * MB) % Addresses
    BY DEF ram1_base, NCS0
  <2>4. ram1_size = b * 2 * MB
    BY DEF ram1_size
  <2> HIDE DEF h, b, l
  <2>5. ram1_base = (2048 + 128 * h) * MB
    BY <2>2, <2>3 DEF MB, Addresses
  <2>6. (2048 + 128 * h) * MB + b * 2 * MB = (2048 + 128 * h + 2 * b) * MB
    BY <2>2 DEF MB
  <2> HIDE DEF Lo, Hi
  <2> QED
    BY <1>3, <2>1, <2>2, <2>4, <2>5, <2>6
<1> QED
  BY <1>1, <1>2, <1>3

LEMMA Megabytes ==
  ASSUME NEW m \in Nat, m <= 4096
  PROVE  /\ RoundUp((m * MB) % Addresses) \div MB = IF m = 4096 THEN 0 ELSE m
         /\ ((m * MB) % Addresses) % (16 * MB) = 0 <=> m % 16 = 0
<1>1. CASE m = 4096
  BY <1>1 DEF RoundUp, MB, Addresses
<1>2. CASE m < 4096
  <2>1. (m * MB) % Addresses = m * MB
    BY <1>2 DEF MB, Addresses
  <2>2. RoundUp(m * MB) = m * MB
    BY <1>2 DEF RoundUp, MB, Addresses
  <2>3. (m * MB) \div MB = m /\ ((m * MB) % (16 * MB) = 0 <=> m % 16 = 0)
    BY <1>2 DEF MB
  <2>4. m # 4096
    BY <1>2
  <2> QED
    BY <2>1, <2>2, <2>3, <2>4
<1> QED
  BY <1>1, <1>2

LEMMA CoveredIs ==
  ASSUME sdrc \in Sdrc, NEW k \in 1..13
  PROVE  /\ Covered(Ranges[k]) = Lo(k)..(Hi(k) - 1)
         /\ IsSuper(Ranges[k]) <=> Lo(k) % 16 = 0 /\ Hi(k) % 16 = 0
<1> DEFINE lo == Lo(k)
           hi == Hi(k)
           r == Ranges[k]
<1>1. /\ lo \in Nat /\ hi \in Nat /\ 1024 <= lo /\ lo < 4096 /\ lo <= hi /\ hi <= 4096
      /\ r.base = lo * MB /\ r.end = (hi * MB) % Addresses
  BY RangesAre
<1> HIDE DEF lo, hi, r
<1>2. lo * MB = (lo * MB) % Addresses
  BY <1>1 DEF MB, Addresses
<1>3. RoundUp(r.base) \div MB = lo /\ (r.base % (16 * MB) = 0 <=> lo % 16 = 0)
  <2>1. lo \in Nat /\ lo <= 4096 /\ lo # 4096
    BY <1>1
  <2>2. /\ RoundUp((lo * MB) % Addresses) \div MB = lo
        /\ ((lo * MB) % Addresses) % (16 * MB) = 0 <=> lo % 16 = 0
    BY <2>1, Megabytes
  <2>3. r.base = (lo * MB) % Addresses
    BY <1>1, <1>2
  <2> QED
    BY <2>2, <2>3
<1>4. /\ RoundUp(r.end) \div MB = IF hi = 4096 THEN 0 ELSE hi
      /\ r.end % (16 * MB) = 0 <=> hi % 16 = 0
  <2>2. /\ RoundUp((hi * MB) % Addresses) \div MB = IF hi = 4096 THEN 0 ELSE hi
        /\ ((hi * MB) % Addresses) % (16 * MB) = 0 <=> hi % 16 = 0
    BY <1>1, Megabytes
  <2> QED
    BY <1>1, <2>2
<1>5. ((IF hi = 4096 THEN 0 ELSE hi) - lo) % 4096 = hi - lo
  BY <1>1
<1>6. Covered(r) = {(lo + n) % 4096 : n \in 0..((hi - lo) - 1)}
  BY <1>3, <1>4, <1>5 DEF Covered
<1>7. Covered(r) = lo..(hi - 1)
  <2>1. \A n \in 0..((hi - lo) - 1) : (lo + n) % 4096 = lo + n /\ lo + n \in lo..(hi - 1)
    BY <1>1
  <2>2. \A p \in lo..(hi - 1) : p - lo \in 0..((hi - lo) - 1) /\ lo + (p - lo) = p
    BY <1>1
  <2> QED
    BY <1>6, <2>1, <2>2
<1> QED
  BY <1>3, <1>4, <1>7 DEF IsSuper, lo, hi, r

\* only a second bank that is put too low can share a megabyte with another range
LEMMA RangesApart ==
  ASSUME sdrc \in Sdrc, NEW j \in 1..13, NEW k \in 1..13, j < k,
         sdrc.low = 0 \/ ~(j = 12 /\ k = 13)
  PROVE  Hi(j) <= Lo(k)
<1> DEFINE h == sdrc.high
           a == sdrc.size0
<1>1. h \in Nat /\ a \in Nat /\ (sdrc.low = 0 => 2 * a <= 128 * h)
  BY Banks
<1>2. Lo(13) = 2048 + 128 * h /\ Hi(12) = 2048 + 2 * a /\ Lo(12) = 2048
  BY DEF Lo, Hi
<1>3. \A m \in 1..11 : Lo(m) = iolo[m] /\ Hi(m) = iohi[m] /\ iohi[m] \in Nat /\ iohi[m] < 2048
  BY IoRanges DEF Lo, Hi
<1> HIDE DEF h, a
<1>4. CASE k \in 1..11
  BY <1>3, <1>4, IoOrder
<1>5. CASE k = 12
  BY <1>2, <1>3, <1>5
<1>6. CASE k = 13
  <2>1. CASE j = 12
    BY <1>1, <1>2, <1>6, <2>1
  <2>2. CASE j \in 1..11
    <3>1. Hi(j) \in Nat /\ Hi(j) < 2048
      BY <1>3, <2>2
    <3> QED
      BY <1>1, <1>2, <1>6, <3>1
  <2> QED
    BY <1>6, <2>1, <2>2
<1> QED
  BY <1>4, <1>5, <1>6

\* a bank that is put too low has all its megabytes among the misplaced
LEMMA SecondMisplaced ==
  ASSUME sdrc \in Sdrc, sdrc.low # 0
  PROVE  /\ Covered(Ranges[13]) \subseteq Misplaced
         /\ Misplaced = Lo(13)..(Hi(13) + 32 * sdrc.low - 1)
         /\ Bank1..(Bank1 + 2 * sdrc.size1 - 1) \subseteq Misplaced
<1> DEFINE h == sdrc.high
           b == sdrc.size1
           l == sdrc.low
<1>1. h \in Nat /\ b \in Nat /\ l \in Nat
  BY Banks
<1>2. Lo(13) = 2048 + 128 * h /\ Hi(13) = 2048 + 128 * h + 2 * b
  BY DEF Lo, Hi
<1>3. Bank1 = 2048 + h * 128 + l * 32 /\ Misplaced = (2048 + h * 128)..(Bank1 + 2 * b - 1)
  BY DEF Bank1, Misplaced
<1>4. Covered(Ranges[13]) = Lo(13)..(Hi(13) - 1)
  BY CoveredIs
<1> HIDE DEF h, b, l
<1>5. h * 128 = 128 * h /\ l * 32 = 32 * l
  BY <1>1
<1>6. Misplaced = Lo(13)..(Hi(13) + 32 * l - 1)
  <2>1. Bank1 + 2 * b - 1 = Hi(13) + 32 * l - 1
    BY <1>1, <1>2, <1>3
  <2> QED
    BY <1>2, <1>3, <1>5, <2>1
<1>7. Lo(13) \in Int /\ Hi(13) \in Int /\ Bank1 \in Int
  BY <1>1, <1>2, <1>3
<1>8. Lo(13)..(Hi(13) - 1) \subseteq Misplaced
  BY <1>1, <1>6, <1>7
<1>9. Bank1..(Bank1 + 2 * b - 1) \subseteq Misplaced
  BY <1>1, <1>3, <1>7
<1> QED
  BY <1>4, <1>6, <1>8, <1>9 DEF b, l

\* what is not misplaced is in one range, and so is the supersection it is in
LEMMA OneRange ==
  ASSUME sdrc \in Sdrc, NEW j \in 1..13, NEW k \in 1..13,
         NEW p \in Slots, p \notin Misplaced, NEW q \in Sixteen(p),
         p \in Covered(Ranges[j]), q \in Covered(Ranges[j]), q \in Covered(Ranges[k])
  PROVE  j = k
<1>1. p \in Lo(j)..(Hi(j) - 1) /\ q \in Lo(j)..(Hi(j) - 1) /\ q \in Lo(k)..(Hi(k) - 1)
  BY CoveredIs
<1>2. Lo(j) \in Nat /\ Hi(j) \in Nat /\ Lo(k) \in Nat /\ Hi(k) \in Nat
  BY RangesAre
<1>3. CASE j < k /\ (sdrc.low = 0 \/ ~(j = 12 /\ k = 13))
  BY <1>1, <1>2, <1>3, RangesApart
<1>4. CASE k < j /\ (sdrc.low = 0 \/ ~(k = 12 /\ j = 13))
  BY <1>1, <1>2, <1>4, RangesApart
<1>5. CASE sdrc.low # 0 /\ j = 13
  BY <1>5, SecondMisplaced
<1>6. CASE sdrc.low # 0 /\ j = 12 /\ k = 13
  <2> DEFINE h == sdrc.high
             lo == Lo(13)
             hi == Hi(13)
             l == sdrc.low
  <2>1. h \in Nat /\ l \in 1..3
    BY <1>6, Banks
  <2>2. lo = 2048 + 128 * h
    BY DEF Lo
  <2>3. Misplaced = lo..(hi + 32 * l - 1) /\ hi \in Nat
    BY <1>2, <1>6, SecondMisplaced
  <2>4. p \in Nat /\ q \in Nat /\ q \div 16 = p \div 16 /\ q \in lo..(hi - 1)
    BY <1>1, <1>6 DEF Sixteen, Slots
  <2> HIDE DEF h, lo, hi, l
  <2>5. p >= lo
    <3>1. lo \div 16 = 128 + 8 * h /\ lo % 16 = 0
      BY <2>1, <2>2
    <3>2. q \div 16 >= 128 + 8 * h
      BY <2>1, <2>2, <2>4
    <3>3. p >= 16 * (128 + 8 * h)
      BY <2>1, <2>4, <3>2
    <3> QED
      BY <2>1, <2>2, <3>3
  <2>6. p < q + 16
    BY <2>4
  <2>7. p <= hi + 32 * l - 1
    BY <2>1, <2>3, <2>4, <2>6
  <2> QED
    BY <2>1, <2>2, <2>3, <2>4, <2>5, <2>7
<1> QED
  BY <1>3, <1>4, <1>5, <1>6

\* what the memory that is there is for
LEMMA AttributeIs ==
  ASSUME sdrc \in Sdrc, NEW mb \in Slots, mb \notin Misplaced
  PROVE  /\ \A k \in 1..13 : mb \in Covered(Ranges[k]) => Attribute(mb) = Ranges[k].attr
         /\ (\A k \in 1..13 : mb \notin Covered(Ranges[k])) => Attribute(mb) = "none"
<1> DEFINE here(k) == mb \in Covered(Ranges[k])
           io(k) == mb * MB >= iomap[k].base /\ mb * MB < iomap[k].end
<1>1. here(12) <=> mb \in 2048..(2047 + 2 * sdrc.size0)
  <2>1. Covered(Ranges[12]) = Lo(12)..(Hi(12) - 1)
    BY CoveredIs
  <2>2. 12 \in 1..13 /\ ~(12 <= 11)
    OBVIOUS
  <2>3. Lo(12) = 2048 /\ Hi(12) = 2048 + 2 * sdrc.size0
    BY <2>2 DEF Lo, Hi
  <2>4. sdrc.size0 \in Nat
    BY Banks
  <2> QED
    BY <2>1, <2>3, <2>4
<1>2. here(13) <=> mb \in Bank1..(Bank1 + 2 * sdrc.size1 - 1)
  <2>1. Covered(Ranges[13]) = Lo(13)..(Hi(13) - 1)
    BY CoveredIs
  <2>2. Lo(13) = 2048 + 128 * sdrc.high /\ Hi(13) = 2048 + 128 * sdrc.high + 2 * sdrc.size1
    BY DEF Lo, Hi
  <2>3. sdrc.high \in Nat /\ sdrc.size1 \in Nat
    BY Banks
  <2>4. CASE sdrc.low = 0
    <3>1. Bank1 = 2048 + sdrc.high * 128
      BY <2>3, <2>4 DEF Bank1
    <3> QED
      BY <2>1, <2>2, <2>3, <3>1
  <2>5. CASE sdrc.low # 0
    BY <2>5, SecondMisplaced
  <2> QED
    BY <2>4, <2>5
<1>3. ASSUME NEW k \in 1..11 PROVE here(k) <=> io(k)
  <2>1. /\ iolo[k] \in Nat /\ iohi[k] \in Nat
        /\ iomap[k].base = iolo[k] * MB /\ iomap[k].end = iohi[k] * MB
    BY IoRanges
  <2>2. Covered(Ranges[k]) = iolo[k]..(iohi[k] - 1)
    BY CoveredIs DEF Lo, Hi
  <2>3. mb \in Nat
    BY DEF Slots
  <2> DEFINE l == iolo[k]
             h == iohi[k]
  <2>4. mb \in l..(h - 1) <=> mb * MB >= l * MB /\ mb * MB < h * MB
    <3>1. l \in Nat /\ h \in Nat
      BY <2>1
    <3> HIDE DEF l, h
    <3> QED
      BY <2>3, <3>1 DEF MB
  <2> QED
    BY <2>1, <2>2, <2>4
<1>4. DOMAIN iomap = 1..11
  BY DEF iomap
<1>5. /\ Ranges[12].attr = "data" /\ Ranges[13].attr = "dma"
      /\ \A k \in 1..11 : Ranges[k].attr = iomap[k].attr
  <2>1. Ranges[12].attr = "data" /\ Ranges[13].attr = "dma"
    BY DEF Ranges, iomap
  <2> QED
    BY <2>1, IoRanges
<1> DEFINE first == CHOOSE k \in DOMAIN iomap : io(k)
           P1 == mb \in 2048..(2047 + 2 * sdrc.size0)
           P2 == mb \in Bank1..(Bank1 + 2 * sdrc.size1 - 1)
           P3 == \E k \in DOMAIN iomap : io(k)
<1>6. Attribute(mb) = CASE P1 -> "data" [] P2 -> "dma" [] P3 -> iomap[first].attr
                        [] OTHER -> "none"
  BY DEF Attribute
<1>7. \A j, k \in 1..13 : here(j) /\ here(k) => j = k
  <2>1. mb \in Sixteen(mb)
    BY DEF Sixteen
  <2> QED
    BY <2>1, OneRange
<1>10. (P1 <=> here(12)) /\ (P2 <=> here(13)) /\ (P3 <=> \E k \in 1..11 : io(k))
  BY <1>1, <1>2, <1>4
<1> HIDE DEF here, io, first, P1, P2, P3
<1>8. ASSUME NEW k \in 1..13, here(k) PROVE Attribute(mb) = Ranges[k].attr
  <2>1. CASE k = 12 \/ k = 13
    <3>1. here(12) /\ here(13) => FALSE
      <4>1. 12 \in 1..13 /\ 13 \in 1..13 /\ 12 # 13
        OBVIOUS
      <4> QED
        BY <1>7, <4>1
    <3> QED
      <4>1. k \in 1..13 /\ ~P3
        BY <1>3, <1>7, <1>8, <1>10, <2>1
      <4>2. CASE k = 12
        BY <1>5, <1>6, <1>8, <1>10, <3>1, <4>1, <4>2
      <4>3. CASE k = 13
        BY <1>5, <1>6, <1>8, <1>10, <3>1, <4>1, <4>3
      <4> QED
        BY <2>1, <4>2, <4>3
  <2>2. CASE k \in 1..11
    <3>1. io(k) /\ ~here(12) /\ ~here(13)
      <4>1. 12 \in 1..13 /\ 13 \in 1..13 /\ k # 12 /\ k # 13
        BY <2>2
      <4>2. io(k)
        BY <1>3, <1>8, <2>2
      <4> QED
        BY <1>7, <1>8, <4>1, <4>2
    <3>2. \A j \in 1..11 : io(j) => j = k
      BY <1>3, <1>7, <1>8
    <3>3. first = k
      BY <1>4, <2>2, <3>1, <3>2 DEF first
    <3>4. P3 /\ ~P1 /\ ~P2
      BY <1>10, <2>2, <3>1
    <3> QED
      BY <1>5, <1>6, <2>2, <3>3, <3>4
  <2> QED
    BY <2>1, <2>2
<1>9. ASSUME \A k \in 1..13 : ~here(k) PROVE Attribute(mb) = "none"
  <2>1. 12 \in 1..13 /\ 13 \in 1..13 /\ \A k \in 1..11 : ~io(k)
    BY <1>3, <1>9
  <2> QED
    BY <1>6, <1>9, <1>10, <2>1
<1> QED
  BY <1>8, <1>9 DEF here

(* However large the banks of memory are, and wherever the second begins:   *)
(* when the mmu is turned on each address of a device or of the memory is   *)
(* mapped to itself, with the attributes of its kind, and no other is; only *)
(* when the second bank begins at no multiple of 128M is nothing said of    *)
(* the addresses from the multiple below it to its end.                     *)
THEOREM MapSound == MapSpec => []IdentityMap
<1>1. MapInv => IdentityMap
  <2> SUFFICES ASSUME MapInv, mapped = Len(Ranges), NEW mb \in Slots \ Misplaced
               PROVE  Translated(mb) = <<mb, Attribute(mb)>>
    BY DEF IdentityMap
  <2>1. mapped = 13 /\ sdrc \in Sdrc /\ Tabled
    BY RangeCount DEF MapInv
  <2>2. CASE mb \notin DOMAIN pt
    <3>1. \A k \in 1..13 : mb \notin Covered(Ranges[k])
      BY <2>1, <2>2 DEF Tabled
    <3> QED
      BY <2>1, <2>2, <3>1, AttributeIs DEF Translated
  <2>3. CASE mb \in DOMAIN pt
    <3>1. PICK k \in 1..13 : mb \in Covered(Ranges[k]) /\ pt[mb] = Entry(k, mb)
      BY <2>1, <2>3 DEF Tabled
    <3>2. Attribute(mb) = Ranges[k].attr
      BY <2>1, <3>1, AttributeIs
    <3>3. /\ pt[mb].addr = mb /\ pt[mb].attr = Ranges[k].attr
          /\ pt[mb].type = IF IsSuper(Ranges[k]) THEN "super" ELSE "section"
      BY <3>1 DEF Entry
    <3>4. CASE ~IsSuper(Ranges[k])
      BY <2>3, <3>2, <3>3, <3>4 DEF Translated
    <3>5. CASE IsSuper(Ranges[k])
      <4> DEFINE lo == Lo(k)
                 hi == Hi(k)
      <4>1. /\ lo \in Nat /\ hi \in Nat /\ lo % 16 = 0 /\ hi % 16 = 0 /\ mb \in Nat
            /\ lo <= mb /\ mb < hi /\ Covered(Ranges[k]) = lo..(hi - 1)
        <5>1. Covered(Ranges[k]) = lo..(hi - 1) /\ lo % 16 = 0 /\ hi % 16 = 0
          BY <2>1, <3>5, CoveredIs
        <5>2. lo \in Nat /\ hi \in Nat
          BY <2>1, RangesAre
        <5>3. mb \in Nat
          BY DEF Slots
        <5> HIDE DEF lo, hi
        <5> QED
          BY <3>1, <5>1, <5>2, <5>3
      <4> HIDE DEF lo, hi
      <4>2. ASSUME NEW q \in Sixteen(mb)
            PROVE  q \in DOMAIN pt /\ pt[q].type = "super" /\ pt[q].attr = pt[mb].attr
        <5>1. q \in Nat /\ q \div 16 = mb \div 16
          BY DEF Sixteen, Slots
        <5>2. lo <= q /\ q < hi
          BY <4>1, <5>1
        <5>3. q \in Covered(Ranges[k])
          BY <4>1, <5>1, <5>2
        <5>4. q \in DOMAIN pt
          BY <2>1, <5>3 DEF Tabled
        <5>5. PICK j \in 1..13 : q \in Covered(Ranges[j]) /\ pt[q] = Entry(j, q)
          BY <2>1, <5>4 DEF Tabled
        <5>6. j = k
          <6>1. mb \in Slots /\ mb \notin Misplaced
            OBVIOUS
          <6> QED
            BY <2>1, <3>1, <5>3, <5>5, <6>1, OneRange
        <5> QED
          BY <3>3, <3>5, <5>4, <5>5, <5>6 DEF Entry
      <4>3. (mb \div 16) * 16 + (mb % 16) = mb
        BY <4>1
      <4>4. Translated(mb) = <<(pt[mb].addr \div 16) * 16 + (mb % 16), pt[mb].attr>>
        BY <2>3, <3>3, <3>5, <4>2 DEF Translated
      <4> QED
        BY <3>2, <3>3, <4>3, <4>4
    <3> QED
      BY <3>4, <3>5
  <2> QED
    BY <2>2, <2>3
<1> QED
  BY <1>1, InitMapped, NextMapped, PTL DEF MapSpec

-----------------------------------------------------------------------------
(* The page tables of start-kernel.S.                                       *)

BootSpec == (\E k \in Kernels : BootInit(k)) /\ [][MapPage]_bootVars

\* the order in which the megabytes come up: the page the kernel is loaded at,
\* the stack, and the kernel from below
Number(m) == IF m = 2048 THEN 1 ELSE IF m = 4095 THEN 2 ELSE m - 3837

BootRow(k) == ttb_map[k]
Went(k, p) == [pa |-> BootRow(k).pa + p - BootRow(k).va, flags |-> BootRow(k).flags]
Done(k, p) == Holds(BootRow(k), p) /\ (k < entry \/ (k = entry /\ p < va))

\* where main of the mapping is
Inside == /\ kernel \in Kernels /\ entry \in 1..7 /\ va \in Nat
          /\ entry < 7 => va \in BootRow(entry).va..(BootRow(entry).end - 1)
                          /\ pa = BootRow(entry).pa + va - BootRow(entry).va

\* the megabytes that have come up
Serves == /\ entry = 1 => taken = 0 /\ DOMAIN l1 = {}
          /\ entry = 2 => IF va = Top - 9 THEN taken = 1 /\ DOMAIN l1 = {2048}
                                          ELSE taken = 2 /\ DOMAIN l1 = {2048, 4095}
          /\ entry > 2 => taken \in Nat \ {0, 1} /\
                            DOMAIN l1 = {2048, 4095} \cup 3840..(3837 + taken)
          /\ entry \in {3, 4} => 3837 + taken = Mega(va - 1)
          /\ entry > 4 => 3837 + taken = Mega(__bss_end__ - 1)
          /\ \A m \in DOMAIN l1 : l1[m] = Number(m)

\* what has been written, the later over the earlier
Written == /\ \A s \in DOMAIN l2 : s[1] \in 1..taken
           /\ \A k \in 1..6 : \A p \in Nat : Done(k, p) => Mega(p) \in DOMAIN l1
           /\ \A k \in 1..6 : \A p \in Nat :
                 Done(k, p) /\ (\A j \in (k + 1)..6 : ~Done(j, p)) => BootWalk(p) = Went(k, p)
           /\ \A p \in Nat : Mega(p) \in DOMAIN l1 /\ (\A k \in 1..6 : ~Done(k, p)) =>
                 BootWalk(p) = [pa |-> 0, flags |-> "none"]

BootInv == Inside /\ Serves /\ Written

LEMMA BootRowsAre ==
  ASSUME kernel \in Kernels
  PROVE  /\ kernel.text \in Nat \ {0} /\ kernel.data \in Nat /\ kernel.data > 1
         /\ kernel.text + kernel.data <= 62 * 256
         /\ Len(ttb_map) = 6 /\ DOMAIN ttb_map = 1..6
         /\ BootRow(1).va = LOADADDR /\ BootRow(1).end = LOADADDR + 1
         /\ BootRow(2).va = Top - 9 /\ BootRow(2).end = Top - 1
         /\ BootRow(3).va = __executable_start /\ BootRow(3).end = __data_start__
         /\ BootRow(4).va = __data_start__ /\ BootRow(4).end = __bss_end__
         /\ BootRow(5).va = __bss_end__ - 2 /\ BootRow(5).end = __bss_end__ - 1
         /\ BootRow(6).va = __bss_end__ - 1 /\ BootRow(6).end = __bss_end__
<1>1. /\ kernel.text \in Nat \ {0} /\ kernel.data \in Nat /\ kernel.data > 1
      /\ kernel.text + kernel.data <= 62 * 256
  <2>1. kernel.text \in Texts /\ kernel.data \in Datas
    BY DEF Kernels
  <2>2. kernel.text \in Nat \ {0} /\ kernel.data \in Nat \ (0..1)
    BY <2>1, KernelAssumption
  <2>3. kernel.text + kernel.data <= (Kernel_pages - 2) * 256
    BY <2>1, KernelAssumption
  <2> QED
    BY <2>2, <2>3 DEF Kernel_pages
<1> QED
  BY <1>1 DEF BootRow, ttb_map, UART3, GPIO5, __bss_end__, __data_start__, __executable_start

LEMMA BootRowsFit ==
  ASSUME kernel \in Kernels, NEW k \in 1..6
  PROVE  BootRow(k).va \in Nat /\ BootRow(k).end \in Nat /\ BootRow(k).va < BootRow(k).end
         /\ BootRow(k).pa \in Nat
<1>1. BootRow(k).va \in Nat /\ BootRow(k).end \in Nat /\ BootRow(k).va < BootRow(k).end
  BY BootRowsAre DEF LOADADDR, Top, __bss_end__, __data_start__, __executable_start
<1>2. BootRow(k).pa \in Nat
  BY BootRowsAre DEF BootRow, ttb_map, LOADADDR
<1> QED
  BY <1>1, <1>2

LEMMA KernelStays ==
  ASSUME kernel' = kernel
  PROVE  /\ ttb_map' = ttb_map /\ __bss_end__' = __bss_end__
         /\ \A k : BootRow(k)' = BootRow(k)
         /\ \A k, p : Went(k, p)' = Went(k, p) /\ (Holds(BootRow(k), p)' <=> Holds(BootRow(k), p))
<1>1. ttb_map' = ttb_map /\ __bss_end__' = __bss_end__
  BY DEF ttb_map, UART3, GPIO5, __bss_end__, __data_start__
<1> QED
  BY <1>1 DEF BootRow, Went, Holds

\* the next page, and with it what is done
LEMMA NextInside ==
  ASSUME Inside, MapPage
  PROVE  /\ Inside' /\ entry \in 1..6 /\ entry' \in {entry, entry + 1}
         /\ entry' = entry => va' = va + 1
         /\ entry' = entry + 1 => /\ va + 1 = BootRow(entry).end
                                  /\ entry < 6 => va' = BootRow(entry + 1).va
         /\ \A k \in 1..6 : \A p \in Nat : Done(k, p)' <=> Done(k, p) \/ (k = entry /\ p = va)
<1> DEFINE start(k) == BootRow(k).va
           end(k) == BootRow(k).end
           base(k) == BootRow(k).pa
<1>1. /\ kernel' = kernel /\ kernel \in Kernels /\ entry \in 1..6 /\ va \in Nat
      /\ va \in start(entry)..(end(entry) - 1) /\ pa = base(entry) + va - start(entry)
  <2>1. kernel \in Kernels /\ kernel' = kernel /\ entry <= Len(ttb_map)
    BY DEF Inside, MapPage
  <2>2. entry \in 1..6
    <3>1. entry \in 1..7 /\ Len(ttb_map) = 6
      BY <2>1, BootRowsAre DEF Inside
    <3> QED
      BY <2>1, <3>1
  <2> QED
    BY <2>1, <2>2 DEF Inside
<1>2. Len(ttb_map) = 6
  BY <1>1, BootRowsAre
<1>3. \A k \in 1..6 : start(k) \in Nat /\ end(k) \in Nat /\ start(k) < end(k) /\ base(k) \in Nat
  BY <1>1, BootRowsFit
<1>4. \A k \in 1..6 : \A p \in Nat : Done(k, p) <=> /\ start(k) <= p /\ p < end(k)
                                                    /\ (k < entry \/ (k = entry /\ p < va))
  BY <1>3 DEF Done, Holds
<1>5. \A k \in 1..6 : \A p \in Nat : Done(k, p)' <=> /\ start(k) <= p /\ p < end(k)
                                                     /\ (k < entry' \/ (k = entry' /\ p < va'))
  BY <1>1, <1>3, KernelStays DEF Done, Holds
<1>6. CASE va + 1 # end(entry)
  <2>1. entry' = entry /\ va' = va + 1 /\ pa' = pa + 1
    BY <1>6 DEF MapPage, BootRow
  <2>2. Inside'
    <3>1. /\ va' \in start(entry)..(end(entry) - 1) /\ va' \in Nat
          /\ pa' = base(entry) + va' - start(entry)
      <4> HIDE DEF start, end, base
      <4> QED
        BY <1>1, <1>3, <1>6, <2>1
    <3>2. BootRow(entry)' = BootRow(entry') /\ BootRow(entry') = BootRow(entry)
      BY <1>1, <2>1, KernelStays DEF BootRow
    <3> QED
      BY <1>1, <2>1, <3>1, <3>2 DEF Inside
  <2>3. \A k \in 1..6 : \A p \in Nat : Done(k, p)' <=> Done(k, p) \/ (k = entry /\ p = va)
    BY <1>1, <1>3, <1>4, <1>5, <2>1
  <2> QED
    BY <1>1, <2>1, <2>2, <2>3
<1>7. CASE va + 1 = end(entry)
  <2>1. entry' = entry + 1 /\ (entry < 6 => va' = start(entry + 1) /\ pa' = base(entry + 1))
        /\ (entry = 6 => va' = va /\ pa' = pa)
    BY <1>1, <1>2, <1>7 DEF MapPage, BootRow
  <2>2. Inside'
    <3>1. CASE entry = 6
      BY <1>1, <2>1, <3>1 DEF Inside
    <3>2. CASE entry < 6
      <4>1. entry + 1 \in 1..6
        BY <1>1, <3>2
      <4>2. BootRow(entry)' = BootRow(entry + 1)
        BY <1>1, <2>1, KernelStays DEF BootRow
      <4>3. va' = start(entry + 1) /\ pa' = base(entry + 1) /\ entry' = entry + 1
        BY <2>1, <3>2
      <4>4. /\ va' \in Nat /\ va' \in start(entry + 1)..(end(entry + 1) - 1)
            /\ pa' = base(entry + 1) + va' - start(entry + 1)
        <5>1. start(entry + 1) \in Nat /\ end(entry + 1) \in Nat
              /\ start(entry + 1) < end(entry + 1) /\ base(entry + 1) \in Nat
          BY <1>3, <4>1
        <5> HIDE DEF start, end, base
        <5> QED
          BY <4>3, <5>1
      <4> QED
        BY <1>1, <4>1, <4>2, <4>3, <4>4 DEF Inside
    <3> QED
      BY <1>1, <3>1, <3>2
  <2>3. \A k \in 1..6 : \A p \in Nat : Done(k, p)' <=> Done(k, p) \/ (k = entry /\ p = va)
    BY <1>1, <1>3, <1>4, <1>5, <1>7, <2>1
  <2> QED
    BY <1>1, <1>7, <2>1, <2>2, <2>3
<1> QED
  BY <1>6, <1>7

LEMMA MegaSteps ==
  /\ \A p \in Nat : Mega(p) \in Nat
  /\ \A p \in Nat \ {0} : Mega(p) = Mega(p - 1) \/ Mega(p) = Mega(p - 1) + 1
  /\ \A p, q \in Nat : p <= q => Mega(p) <= Mega(q)
  /\ Mega(LOADADDR) = 2048 /\ Mega(__executable_start - 1) = 3839
  /\ \A p \in Nat : Top - 9 <= p /\ p < Top => Mega(p) = 4095
  /\ \A p \in Nat : __executable_start <= p => 3840 <= Mega(p)
  /\ \A p \in Nat : p < __executable_start + 62 * 256 => Mega(p) <= 3901
BY DEF Mega, LOADADDR, Top, __executable_start

\* what one page does to the first level
Served(m) == /\ DOMAIN l1' = DOMAIN l1 \cup {m}
             /\ taken' = IF m \in DOMAIN l1 THEN taken ELSE taken + 1
             /\ Table(m) = Number(m) /\ \A n \in DOMAIN l1' : l1'[n] = Number(n)

LEMMA Tabling ==
  ASSUME MapPage, \A n \in DOMAIN l1 : l1[n] = Number(n),
         Mega(va) \notin DOMAIN l1 => Number(Mega(va)) = taken + 1
  PROVE  Served(Mega(va))
<1> DEFINE m == Mega(va)
<1>1. /\ taken' = IF m \in DOMAIN l1 THEN taken ELSE taken + 1
      /\ l1' = [k \in DOMAIN l1 \cup {m} |-> IF k = m THEN Table(m) ELSE l1[k]]
  BY DEF MapPage
<1>2. Table(m) = Number(m)
  BY DEF Table
<1> HIDE DEF m
<1> QED
  BY <1>1, <1>2 DEF Served, m

LEMMA NextServes ==
  ASSUME Inside, Serves, MapPage
  PROVE  Serves' /\ Served(Mega(va))
<1> DEFINE m == Mega(va)
<1>1. /\ Inside' /\ entry \in 1..6 /\ (entry' = entry \/ entry' = entry + 1)
      /\ entry' = entry => va' = va + 1
      /\ entry' = entry + 1 => /\ va + 1 = BootRow(entry).end
                               /\ entry < 6 => va' = BootRow(entry + 1).va
  BY NextInside
<1>2. /\ kernel \in Kernels /\ kernel' = kernel /\ va \in Nat
      /\ BootRow(entry).va <= va /\ va < BootRow(entry).end
  <2>1. kernel \in Kernels /\ kernel' = kernel /\ va \in Nat
    BY DEF Inside, MapPage
  <2>2. va \in BootRow(entry).va..(BootRow(entry).end - 1)
    BY <1>1 DEF Inside
  <2>3. BootRow(entry).va \in Nat /\ BootRow(entry).end \in Nat
    BY <1>1, <2>1, BootRowsFit
  <2> QED
    BY <2>1, <2>2, <2>3
<1>3. entry' < 7 => BootRow(entry').va <= va' /\ va' < BootRow(entry').end /\ va' \in Nat
  <2> SUFFICES ASSUME entry' < 7
               PROVE  BootRow(entry').va <= va' /\ va' < BootRow(entry').end /\ va' \in Nat
    OBVIOUS
  <2>1. va' \in BootRow(entry)'.va..(BootRow(entry)'.end - 1) /\ va' \in Nat
    BY <1>1 DEF Inside
  <2>2. BootRow(entry)' = BootRow(entry') /\ entry' \in 1..6
    BY <1>1, <1>2, KernelStays DEF BootRow
  <2>3. BootRow(entry').va \in Nat /\ BootRow(entry').end \in Nat
    BY <1>2, <2>2, BootRowsFit
  <2> QED
    BY <2>1, <2>2, <2>3
<1>4. \A n \in DOMAIN l1 : l1[n] = Number(n)
  BY DEF Serves
<1>5. __bss_end__' = __bss_end__
  BY <1>2, KernelStays
<1>6. CASE entry = 1
  <2>1. va = LOADADDR /\ m = 2048 /\ taken = 0 /\ DOMAIN l1 = {} /\ BootRow(1).end = LOADADDR + 1
    <3>1. va = LOADADDR /\ BootRow(1).end = LOADADDR + 1
      BY <1>2, <1>6, BootRowsAre DEF LOADADDR
    <3> QED
      BY <1>6, <3>1, MegaSteps DEF Serves
  <2>2. Served(m)
    BY <1>4, <2>1, Tabling DEF Number
  <2>3. entry' = 2 /\ va' = Top - 9
    BY <1>1, <1>2, <1>3, <1>6, <2>1, BootRowsAre DEF LOADADDR
  <2> QED
    BY <2>1, <2>2, <2>3 DEF Serves, Served
<1>7. CASE entry = 2
  <2>1. va \in Nat /\ Top - 9 <= va /\ va < Top - 1 /\ m = 4095
    BY <1>2, <1>7, BootRowsAre, MegaSteps DEF Top
  <2>2. IF va = Top - 9 THEN taken = 1 /\ DOMAIN l1 = {2048}
        ELSE taken = 2 /\ DOMAIN l1 = {2048, 4095}
    BY <1>7 DEF Serves
  <2>3. Served(m)
    BY <1>4, <2>1, <2>2, Tabling DEF Number
  <2>4. taken' = 2 /\ DOMAIN l1' = {2048, 4095}
    BY <2>1, <2>2, <2>3 DEF Served
  <2>5. CASE entry' = 2
    <3>1. va' # Top - 9
      BY <1>1, <1>7, <2>1, <2>5 DEF Top
    <3>2. \A n \in DOMAIN l1' : l1'[n] = Number(n)
      BY <2>3 DEF Served
    <3>3. ~(entry' > 2) /\ ~(entry' > 4) /\ entry' \notin {3, 4} /\ entry' # 1
      BY <2>5
    <3>4. Serves'
      BY <2>4, <3>1, <3>2, <3>3 DEF Serves
    <3> QED
      BY <2>3, <3>4
  <2>6. CASE entry' = 3
    <3>1. va' = __executable_start
      BY <1>1, <1>2, <1>7, <2>6, BootRowsAre
    <3>2. 3837 + taken' = Mega(va' - 1)
      BY <2>4, <3>1, MegaSteps
    <3>3. 3840..(3837 + taken') = {}
      BY <2>4
    <3>4. \A n \in DOMAIN l1' : l1'[n] = Number(n)
      BY <2>3 DEF Served
    <3>5. taken' \in Nat \ {0, 1} /\ DOMAIN l1' = {2048, 4095} \cup 3840..(3837 + taken')
      BY <2>4, <3>3
    <3>6. entry' # 1 /\ entry' # 2 /\ ~(entry' > 4)
      BY <2>6
    <3>7. Serves'
      <4> HIDE DEF m
      <4> QED
        BY <2>6, <3>2, <3>4, <3>5, <3>6 DEF Serves
    <3> QED
      BY <2>3, <3>7
  <2> QED
    BY <1>1, <1>7, <2>3, <2>5, <2>6
<1>8. CASE entry \in {3, 4}
  <2>1. /\ __executable_start <= va /\ va < __executable_start + 62 * 256 /\ va \in Nat \ {0}
        /\ entry' = 4 /\ entry = 3 => va' = va + 1
        /\ entry' = 5 => va + 1 = __bss_end__
    BY <1>1, <1>2, <1>8, BootRowsAre DEF __bss_end__, __data_start__, __executable_start
  <2>2. /\ taken \in Nat /\ DOMAIN l1 = {2048, 4095} \cup 3840..(3837 + taken)
        /\ 3837 + taken = Mega(va - 1)
    BY <1>8 DEF Serves
  <2>3. m \in Nat /\ 3840 <= m /\ m <= 3901 /\ (m = 3837 + taken \/ m = 3837 + taken + 1)
    BY <2>1, <2>2, MegaSteps
  <2> HIDE DEF m
  <2>4. Number(m) = m - 3837
    BY <2>3 DEF Number
  <2>5. m \notin DOMAIN l1 => m = 3837 + taken + 1
    BY <2>2, <2>3
  <2>6. m = 3837 + taken + 1 => m \notin DOMAIN l1
    BY <2>2, <2>3
  <2>7. Served(m)
    BY <1>4, <2>2, <2>3, <2>4, <2>5, Tabling DEF m
  <2>8. taken' \in Nat /\ 3837 + taken' = m /\ DOMAIN l1' = {2048, 4095} \cup 3840..m
    BY <2>2, <2>3, <2>5, <2>6, <2>7 DEF Served
  <2>9. entry' \in {3, 4} => 3837 + taken' = Mega(va' - 1)
    <3>1. entry' \in {3, 4} => va' = va + 1 /\ va' - 1 = va
      BY <1>1, <1>8, <2>1
    <3> QED
      BY <2>8, <3>1 DEF m
  <2>10. entry' > 4 => 3837 + taken' = Mega(__bss_end__ - 1)
    <3>1. entry' > 4 => __bss_end__ - 1 = va
      BY <1>1, <1>8, <2>1
    <3> QED
      BY <2>8, <3>1 DEF m
  <2> QED
    BY <1>1, <1>5, <1>8, <2>7, <2>8, <2>9, <2>10 DEF Serves, Served, m
<1>9. CASE entry \in {5, 6}
  <2>1. __executable_start <= va /\ va < __bss_end__ /\ va \in Nat /\ __bss_end__ \in Nat \ {0}
    BY <1>1, <1>2, <1>9, BootRowsAre DEF __bss_end__, __data_start__, __executable_start
  <2>2. /\ taken \in Nat /\ DOMAIN l1 = {2048, 4095} \cup 3840..(3837 + taken)
        /\ 3837 + taken = Mega(__bss_end__ - 1)
    BY <1>9 DEF Serves
  <2>3. m \in 3840..(3837 + taken)
    <3>1. va <= __bss_end__ - 1 /\ __bss_end__ - 1 \in Nat
      BY <2>1
    <3> QED
      BY <2>1, <2>2, <3>1, MegaSteps
  <2>4. Served(m) /\ m \in DOMAIN l1
    BY <1>4, <2>2, <2>3, Tabling
  <2>5. taken' = taken /\ DOMAIN l1' = DOMAIN l1 /\ entry' > 4
    BY <1>1, <1>9, <2>4 DEF Served
  <2> QED
    BY <1>1, <1>5, <2>2, <2>4, <2>5 DEF Serves, Served
<1> QED
  BY <1>1, <1>6, <1>7, <1>8, <1>9

\* the shapes of the first level
Chart(D, t) == \/ D = {} /\ t = 0
               \/ D = {2048} /\ t = 1
               \/ t \in Nat \ {0, 1} /\ D = {2048, 4095} \cup 3840..(3837 + t)

LEMMA NumbersApart ==
  ASSUME NEW D, NEW t, Chart(D, t)
  PROVE  t \in Nat /\ \A n, k \in D : Number(n) \in 1..t /\ (Number(n) = Number(k) => n = k)
<1>1. CASE D = {2048} /\ t = 1
  BY <1>1 DEF Number
<1>2. CASE t \in Nat \ {0, 1} /\ D = {2048, 4095} \cup 3840..(3837 + t)
  <2>1. \A n \in D : \/ n = 2048 /\ Number(n) = 1
                     \/ n = 4095 /\ Number(n) = 2
                     \/ n \in 3840..(3837 + t) /\ Number(n) = n - 3837
    <3> TAKE n \in D
    <3>1. n = 2048 \/ n = 4095 \/ n \in 3840..(3837 + t)
      BY <1>2
    <3>2. n \in 3840..(3837 + t) => n # 2048
      OBVIOUS
    <3> QED
      BY <3>1, <3>2 DEF Number
  <2> QED
    BY <1>2, <2>1
<1> QED
  BY <1>1, <1>2 DEF Chart

LEMMA Charted == Serves /\ entry \in 1..7 => Chart(DOMAIN l1, taken)
<1> SUFFICES ASSUME Serves, entry \in 1..7 PROVE Chart(DOMAIN l1, taken)
  OBVIOUS
<1>1. CASE entry = 1
  BY <1>1 DEF Serves, Chart
<1>2. CASE entry = 2
  <2>1. CASE va = Top - 9
    BY <1>2, <2>1 DEF Serves, Chart
  <2>2. CASE va # Top - 9
    <3>1. taken = 2 /\ DOMAIN l1 = {2048, 4095}
      BY <1>2, <2>2 DEF Serves
    <3>2. taken \in Nat \ {0, 1} /\ 3840..(3837 + taken) = {}
      BY <3>1
    <3> QED
      BY <3>1, <3>2 DEF Chart
  <2> QED
    BY <2>1, <2>2
<1>3. CASE entry > 2
  BY <1>3 DEF Serves, Chart
<1> QED
  BY <1>1, <1>2, <1>3

LEMMA PagesApart ==
  ASSUME NEW p \in Nat, NEW q \in Nat, Mega(p) = Mega(q), Index(p) = Index(q) PROVE p = q
<1>1. p = Mega(p) * 256 + Index(p) /\ q = Mega(q) * 256 + Index(q)
  BY DEF Mega, Index
<1> QED
  BY <1>1

LEMMA NextWritten ==
  ASSUME Inside, Serves, Written, MapPage
  PROVE  Written'
<1> DEFINE m == Mega(va)
           slot == <<Number(m), Index(va)>>
           new == [pa |-> pa, flags |-> ttb_map[entry].flags]
           none == [pa |-> 0, flags |-> "none"]
           place(p) == <<Number(Mega(p)), Index(p)>>
<1>1. /\ entry \in 1..6 /\ entry' \in 1..7 /\ va \in Nat /\ kernel' = kernel
      /\ new = Went(entry, va) /\ Holds(BootRow(entry), va)
  <2>1. entry \in 1..6 /\ Inside'
    BY NextInside
  <2>2. /\ va \in BootRow(entry).va..(BootRow(entry).end - 1)
        /\ pa = BootRow(entry).pa + va - BootRow(entry).va
    BY <2>1 DEF Inside
  <2> QED
    BY <2>1, <2>2 DEF Inside, MapPage, Went, BootRow, Holds
<1>2. \A k \in 1..6 : \A p \in Nat : Done(k, p)' <=> Done(k, p) \/ (k = entry /\ p = va)
  BY NextInside
<1>3. Serves' /\ Served(m)
  BY NextServes
<1>4. /\ \A n, k \in DOMAIN l1' : Number(n) \in 1..taken' /\ (Number(n) = Number(k) => n = k)
      /\ \A n \in DOMAIN l1' : l1'[n] = Number(n)
  <2>1. \A n, k \in DOMAIN l1' : Number(n) \in 1..taken' /\ (Number(n) = Number(k) => n = k)
    <3>1. (Serves /\ entry \in 1..7 => Chart(DOMAIN l1, taken))'
      BY Charted, PTL
    <3>2. (entry \in 1..7)'
      BY <1>1
    <3>3. Chart(DOMAIN l1, taken)'
      BY <1>3, <3>1, <3>2
    <3>4. Chart(DOMAIN l1', taken')
      BY <3>3 DEF Chart
    <3> QED
      BY <3>4, NumbersApart
  <2> QED
    BY <1>3, <2>1 DEF Served
<1>5. \A n \in DOMAIN l1 : l1[n] = Number(n)
  BY DEF Serves
<1>6. /\ m \in DOMAIN l1' /\ DOMAIN l1' = DOMAIN l1 \cup {m}
      /\ (taken' = taken \/ taken' = taken + 1)
      /\ m \notin DOMAIN l1 => Number(m) = taken + 1
  BY <1>3 DEF Served, Table
<1>7. taken \in Nat
  BY <1>1, Charted, NumbersApart
<1>8. /\ DOMAIN l2' = DOMAIN l2 \cup {slot}
      /\ \A s \in DOMAIN l2' : l2'[s] = IF s = slot THEN new ELSE l2[s]
  <2>1. Table(m) = Number(m)
    BY <1>3 DEF Served
  <2>2. l2' = [s \in DOMAIN l2 \cup {<<Table(m), Index(va)>>} |->
                 IF s = <<Table(m), Index(va)>> THEN new ELSE l2[s]]
    BY DEF MapPage
  <2> HIDE DEF new, m
  <2> QED
    BY <2>1, <2>2
<1>9. \A p \in Nat : Mega(p) \in DOMAIN l1' =>
         BootWalk(p)' = IF place(p) \in DOMAIN l2' THEN l2'[place(p)] ELSE none
  BY <1>4 DEF BootWalk
<1>10. \A p \in Nat : Mega(p) \in DOMAIN l1 =>
         BootWalk(p) = IF place(p) \in DOMAIN l2 THEN l2[place(p)] ELSE none
  BY <1>5 DEF BootWalk
<1>11. \A p \in Nat : p = va => BootWalk(p)' = Went(entry, va)
  <2>1. place(va) = slot
    OBVIOUS
  <2>2. Mega(va) \in DOMAIN l1'
    BY <1>6
  <2> HIDE DEF place, slot, new, none, m
  <2>3. slot \in DOMAIN l2' /\ l2'[slot] = new
    BY <1>8
  <2>4. ASSUME NEW p \in Nat, p = va PROVE BootWalk(p)' = new
    BY <1>9, <2>1, <2>2, <2>3, <2>4
  <2> QED
    BY <1>1, <2>4
<1>12. ASSUME NEW p \in Nat, p # va, Mega(p) \in DOMAIN l1'
       PROVE  /\ Mega(p) \in DOMAIN l1 => BootWalk(p)' = BootWalk(p)
              /\ Mega(p) \notin DOMAIN l1 => BootWalk(p)' = none
  <2>1. place(p) # slot
    <3>1. Number(Mega(p)) = Number(m) => Mega(p) = m
      BY <1>4, <1>6, <1>12
    <3>2. Mega(p) = m => Index(p) # Index(va)
      BY <1>1, <1>12, PagesApart
    <3> QED
      BY <3>1, <3>2
  <2>2. Mega(p) \notin DOMAIN l1 => place(p) \notin DOMAIN l2
    <3> SUFFICES ASSUME Mega(p) \notin DOMAIN l1, place(p) \in DOMAIN l2 PROVE FALSE
      OBVIOUS
    <3>1. Mega(p) = m /\ Number(Mega(p)) = taken + 1
      BY <1>6, <1>12
    <3>2. place(p)[1] \in 1..taken
      BY DEF Written
    <3> QED
      BY <1>7, <3>1, <3>2
  <2> HIDE DEF place, slot, new, none
  <2>3. BootWalk(p)' = IF place(p) \in DOMAIN l2 THEN l2[place(p)] ELSE none
    BY <1>8, <1>9, <1>12, <2>1
  <2> QED
    BY <1>10, <2>2, <2>3
<1>13. \A s \in DOMAIN l2' : s[1] \in 1..taken'
  <2>1. slot[1] \in 1..taken'
    BY <1>4, <1>6
  <2>2. \A s \in DOMAIN l2 : s[1] \in 1..taken'
    BY <1>6, <1>7 DEF Written
  <2> HIDE DEF slot
  <2> QED
    BY <1>8, <2>1, <2>2
<1>14. ASSUME NEW k \in 1..6, NEW p \in Nat, Done(k, p)'
       PROVE  Mega(p) \in DOMAIN l1'
  BY <1>2, <1>6, <1>14 DEF Written
<1>15. ASSUME NEW k \in 1..6, NEW p \in Nat, Done(k, p)', \A j \in (k + 1)..6 : ~Done(j, p)'
       PROVE  BootWalk(p)' = Went(k, p)'
  <2>1. Went(k, p)' = Went(k, p) /\ Mega(p) \in DOMAIN l1'
    BY <1>1, <1>14, <1>15, KernelStays
  <2>2. CASE p = va
    <3>1. \A j \in (k + 1)..6 : j # entry
      <4>1. \A j \in (k + 1)..6 : j \in 1..6
        OBVIOUS
      <4> QED
        BY <1>2, <1>15, <2>2, <4>1
    <3>2. entry \notin (k + 1)..6
      BY <3>1
    <3>3. k >= entry
      BY <1>1, <3>2
    <3>4. k = entry
      BY <1>1, <1>2, <1>15, <2>2, <3>3 DEF Done
    <3> QED
      BY <1>11, <2>1, <2>2, <3>4
  <2>3. CASE p # va
    <3>1. Done(k, p) /\ \A j \in (k + 1)..6 : ~Done(j, p)
      <4>1. \A j \in (k + 1)..6 : j \in 1..6
        OBVIOUS
      <4> QED
        BY <1>2, <1>15, <2>3, <4>1
    <3>2. Mega(p) \in DOMAIN l1 /\ BootWalk(p) = Went(k, p)
      BY <3>1 DEF Written
    <3> QED
      BY <1>12, <2>1, <2>3, <3>2
  <2> QED
    BY <2>2, <2>3
<1>16. ASSUME NEW p \in Nat, Mega(p) \in DOMAIN l1', \A k \in 1..6 : ~Done(k, p)'
       PROVE  BootWalk(p)' = none
  <2>1. p # va /\ \A k \in 1..6 : ~Done(k, p)
    BY <1>1, <1>2, <1>16
  <2>2. Mega(p) \in DOMAIN l1 => BootWalk(p) = none
    BY <2>1 DEF Written
  <2> QED
    BY <1>12, <1>16, <2>1, <2>2
<1> QED
  BY <1>13, <1>14, <1>15, <1>16 DEF Written

LEMMA InitBoot == (\E k \in Kernels : BootInit(k)) => BootInv
<1> SUFFICES ASSUME NEW c \in Kernels, BootInit(c) PROVE BootInv
  OBVIOUS
<1>1. /\ kernel \in Kernels /\ entry = 1 /\ va = LOADADDR /\ pa = LOADADDR /\ taken = 0
      /\ DOMAIN l1 = {} /\ DOMAIN l2 = {}
  BY DEF BootInit
<1>2. BootRow(1).va = LOADADDR /\ BootRow(1).end = LOADADDR + 1 /\ BootRow(1).pa = LOADADDR
  BY <1>1, BootRowsAre DEF BootRow, ttb_map
<1>3. Inside
  BY <1>1, <1>2 DEF Inside, LOADADDR
<1>4. Serves
  BY <1>1 DEF Serves
<1>5. \A k \in 1..6 : \A p \in Nat : ~Done(k, p)
  BY <1>1, <1>2 DEF Done, Holds, LOADADDR
<1>6. Written
  BY <1>1, <1>5 DEF Written
<1> QED
  BY <1>3, <1>4, <1>6 DEF BootInv

LEMMA NextBoot == BootInv /\ [MapPage]_bootVars => BootInv'
<1>1. BootInv /\ MapPage => BootInv'
  BY NextInside, NextServes, NextWritten DEF BootInv
<1>2. BootInv /\ UNCHANGED bootVars => BootInv'
  <2> SUFFICES ASSUME BootInv, UNCHANGED bootVars PROVE BootInv'
    OBVIOUS
  <2>1. /\ kernel' = kernel /\ l1' = l1 /\ l2' = l2 /\ taken' = taken /\ entry' = entry
        /\ va' = va /\ pa' = pa
    BY DEF bootVars
  <2>2. /\ \A k : BootRow(k)' = BootRow(k)
        /\ \A k, p : Done(k, p)' <=> Done(k, p)
        /\ \A k, p : Went(k, p)' = Went(k, p)
        /\ \A p : BootWalk(p)' = BootWalk(p)
        /\ __bss_end__' = __bss_end__
    BY <2>1, KernelStays DEF Done, BootWalk, Holds
  <2>3. BootRow(entry)' = BootRow(entry)
    BY <2>1, KernelStays DEF BootRow
  <2>4. Inside'
    BY <2>1, <2>3 DEF BootInv, Inside
  <2>5. Serves'
    BY <2>1, <2>2 DEF BootInv, Serves
  <2>6. Written'
    BY <2>1, <2>2 DEF BootInv, Written
  <2> QED
    BY <2>4, <2>5, <2>6 DEF BootInv
<1> QED
  BY <1>1, <1>2

(* When the mmu is turned on, every page of a range goes where the last     *)
(* range that has it says, no other page is mapped, and the tables have     *)
(* sufficed: for kernels of all sizes that fit.                             *)
THEOREM BootSound == BootSpec => []BootMapRight
<1>1. BootInv => BootMapRight
  <2> SUFFICES ASSUME BootInv, entry > Len(ttb_map)
               PROVE  /\ \A p \in MegaPages : BootWalk(p) = IF p \in AllPages THEN Wanted(p)
                                                            ELSE [pa |-> 0, flags |-> "none"]
                      /\ AllPages \subseteq MegaPages /\ Top - 1 \notin AllPages
                      /\ BootWalk(LOADADDR).pa = LOADADDR
                      /\ taken <= Kernel_pages
    BY DEF BootMapRight
  <2>1. /\ kernel \in Kernels /\ entry = 7 /\ Len(ttb_map) = 6 /\ DOMAIN ttb_map = 1..6
    <3>1. kernel \in Kernels /\ entry \in 1..7
      BY DEF BootInv, Inside
    <3>2. Len(ttb_map) = 6 /\ DOMAIN ttb_map = 1..6
      BY <3>1, BootRowsAre
    <3> QED
      BY <3>1, <3>2
  <2>2. \A k \in 1..6 : \A p : Done(k, p) <=> Holds(BootRow(k), p)
    BY <2>1 DEF Done
  <2>3. \A k \in 1..6 : BootRow(k).va \in Nat /\ BootRow(k).end \in Nat
    BY <2>1, BootRowsFit
  <2>4. \A k \in 1..6 : \A p : Holds(BootRow(k), p) => p \in Nat
    <3> SUFFICES ASSUME NEW k \in 1..6, NEW p, Holds(BootRow(k), p) PROVE p \in Nat
      OBVIOUS
    <3> DEFINE a == BootRow(k).va
               b == BootRow(k).end
    <3>1. a \in Nat /\ b \in Nat /\ p \in a..(b - 1)
      BY <2>3 DEF Holds
    <3> HIDE DEF a, b
    <3> QED
      BY <3>1
  <2>5. \A p : p \in AllPages <=> \E k \in 1..6 : Holds(BootRow(k), p)
    BY <2>1 DEF AllPages, Holds, BootRow
  <2>6. \A p \in MegaPages : p \in Nat /\ Mega(p) \in DOMAIN l1
    <3>1. \A m \in DOMAIN l1 : m \in Nat
      BY <2>1 DEF BootInv, Serves
    <3>2. \A m \in Nat : \A p \in (m * 256)..(m * 256 + 255) : p \in Nat /\ p \div 256 = m
      OBVIOUS
    <3> QED
      BY <3>1, <3>2 DEF MegaPages, Mega
  <2>7. \A p \in Nat : Mega(p) \in DOMAIN l1 => p \in MegaPages
    <3>1. \A p \in Nat : p \in (Mega(p) * 256)..(Mega(p) * 256 + 255)
      BY DEF Mega
    <3> QED
      BY <3>1 DEF MegaPages
  <2>8. ASSUME NEW p \in AllPages
        PROVE  Mega(p) \in DOMAIN l1 /\ p \in Nat /\ BootWalk(p) = Wanted(p)
    <3> DEFINE IsLast(k) == Holds(BootRow(k), p) /\ \A j \in (k + 1)..6 : ~Holds(BootRow(j), p)
    <3>1. \E k \in 1..6 : IsLast(k)
      <4> DEFINE Has(k) == Holds(BootRow(k), p)
      <4>1. \E k \in 1..6 : Has(k)
        BY <2>5, <2>8
      <4> HIDE DEF Has
      <4>2. Has(1) \/ Has(2) \/ Has(3) \/ Has(4) \/ Has(5) \/ Has(6)
        BY <4>1
      <4>3. \E k \in 1..6 : Has(k) /\ \A j \in (k + 1)..6 : ~Has(j)
        BY <4>2
      <4> QED
        BY <4>3 DEF Has
    <3> DEFINE last == CHOOSE k \in 1..6 : IsLast(k)
    <3>2. last \in 1..6 /\ IsLast(last)
      BY <3>1
    <3>3. Wanted(p) = Went(last, p)
      BY <2>1 DEF Wanted, Went, BootRow
    <3> HIDE DEF last
    <3>4. Done(last, p) /\ p \in Nat /\ \A j \in (last + 1)..6 : ~Done(j, p)
      BY <2>2, <2>4, <3>2
    <3> QED
      BY <3>2, <3>3, <3>4 DEF BootInv, Written
  <2>9. ASSUME NEW p \in MegaPages, p \notin AllPages
        PROVE  BootWalk(p) = [pa |-> 0, flags |-> "none"]
    BY <2>2, <2>5, <2>6, <2>9 DEF BootInv, Written
  <2>10. /\ __bss_end__ \in Nat /\ __bss_end__ > __executable_start + 1
         /\ __bss_end__ <= __executable_start + 62 * 256
    BY <2>1, BootRowsAre DEF __bss_end__, __data_start__, __executable_start
  <2>11. Top - 1 \notin AllPages
    BY <2>1, <2>5, <2>10, BootRowsAre
       DEF Holds, Top, LOADADDR, __bss_end__, __data_start__, __executable_start
  <2>12. BootWalk(LOADADDR).pa = LOADADDR
    <3>1. LOADADDR \in Nat /\ Holds(BootRow(1), LOADADDR)
      BY <2>1, BootRowsAre DEF Holds, LOADADDR
    <3>2. \A j \in 2..6 : ~Holds(BootRow(j), LOADADDR)
      BY <2>1, <2>10, BootRowsAre
         DEF Holds, Top, LOADADDR, __bss_end__, __data_start__, __executable_start
    <3>3. BootWalk(LOADADDR) = Went(1, LOADADDR)
      BY <2>2, <3>1, <3>2 DEF BootInv, Written
    <3>4. BootRow(1).va = LOADADDR /\ BootRow(1).pa = LOADADDR
      BY DEF BootRow, ttb_map
    <3> QED
      BY <3>1, <3>3, <3>4 DEF Went
  <2>13. taken <= Kernel_pages
    <3>1. __bss_end__ - 1 \in Nat /\ __bss_end__ - 1 < __executable_start + 62 * 256
      BY <2>10 DEF __executable_start
    <3>2. 3837 + taken = Mega(__bss_end__ - 1) /\ taken \in Nat
      BY <2>1 DEF BootInv, Serves
    <3> QED
      BY <3>1, <3>2, MegaSteps DEF Kernel_pages
  <2> QED
    BY <2>7, <2>8, <2>9, <2>11, <2>12, <2>13
<1> QED
  BY <1>1, InitBoot, NextBoot, PTL DEF BootSpec

-----------------------------------------------------------------------------
(* The monitor.  ufmt takes digits off a number at the low end and dstrtoul *)
(* puts them on again, so that at every round of ufmt the digits written,   *)
(* read onto what is left, give the number (Printing).  dstrtoul takes the  *)
(* remainder in every round, Meaning only in the end: the remainder of an   *)
(* accumulator is that of its remainder (AccumulatedRemainder).             *)

(* A remainder is what its definition says.                                 *)
LEMMA Remainder ==
  ASSUME NEW a \in Int, NEW w \in Nat \ {0}
  PROVE  a % w \in 0..(w - 1) /\ \E c \in Int : a = c * w + (a % w)
<1>1. a % w \in 0..(w - 1)
  OBVIOUS
<1>2. a = (a \div w) * w + (a % w) /\ a \div w \in Int
  OBVIOUS
<1> QED BY <1>1, <1>2

(* ... and nothing else is.                                                 *)
LEMMA RemainderIs ==
  ASSUME NEW a \in Int, NEW w \in Nat \ {0}, NEW c \in Int, NEW r \in 0..(w - 1), a = c * w + r
  PROVE  a % w = r
<1>1. PICK q \in Int : a = q * w + (a % w)
  BY Remainder
<1> DEFINE z == a % w
<1>2. z \in 0..(w - 1)
  BY Remainder
<1> HIDE DEF z
<1>3. a = q * w + z
  BY <1>1 DEF z
<1>4. (q - c) * w = r - z /\ r - z < w /\ r - z > -w
  <2>1. (q - c) * w = q * w - c * w
    OBVIOUS
  <2> QED BY <1>2, <1>3, <2>1
<1> DEFINE e == q - c
<1>5. e \in Int /\ e * w = r - z
  BY <1>4
<1> HIDE DEF e
<1>6. e = 0
  <2>1. e >= 1 => e * w >= w
    <3>1. e >= 1 => e * w = w + (e - 1) * w /\ e - 1 \in Nat
      BY <1>5
    <3>2. e >= 1 => (e - 1) * w \in Nat
      BY <1>5
    <3> QED BY <3>1, <3>2, <1>5
  <2>2. e <= -1 => e * w <= -w
    <3>1. e <= -1 => e * w = -w - (-1 - e) * w /\ -1 - e \in Nat
      BY <1>5
    <3>2. e <= -1 => (-1 - e) * w \in Nat
      BY <1>5
    <3> QED BY <3>1, <3>2, <1>5
  <2> QED BY <1>4, <1>5, <2>1, <2>2
<1>7. z = r
  BY <1>2, <1>5, <1>6
<1> QED BY <1>7 DEF z

(* Only the remainder of an accumulator counts.                             *)
LEMMA AccumulatedRemainder ==
  ASSUME NEW v \in Int, NEW base \in Int, NEW d \in Int, NEW w \in Nat \ {0}
  PROVE  ((v % w) * base + d) % w = (v * base + d) % w
<1> DEFINE x == v % w
<1>1. PICK c \in Int : v = c * w + x
  BY Remainder
<1>2. x \in Int
  BY Remainder
<1> HIDE DEF x
<1> DEFINE a == x * base + d
           y == v * base + d
<1>3. y = (c * base) * w + a
  <2>1. v * base = (c * w) * base + x * base
    BY <1>1, <1>2
  <2>2. (c * w) * base = (c * base) * w
    OBVIOUS
  <2> QED BY <2>1, <2>2, <1>2
<1>4. a \in Int /\ y \in Int /\ c * base \in Int
  BY <1>2
<1> HIDE DEF a, y
<1>5. PICK e \in Int : a = e * w + (a % w)
  BY <1>4, Remainder
<1>6. a % w \in 0..(w - 1)
  BY <1>4, Remainder
<1> DEFINE f == c * base
           r == a % w
<1>7. y = (f + e) * w + r /\ r \in 0..(w - 1) /\ f + e \in Int
  <2>1. (f + e) * w = f * w + e * w
    BY <1>4
  <2> QED BY <1>3, <1>4, <1>5, <1>6, <2>1
<1> HIDE DEF f, r
<1>8. y % w = r
  BY <1>4, <1>7, RemainderIs
<1> QED BY <1>8 DEF a, y, x, r

\* a step of a recursion over 1..n with values in S, and a function it defines
Recursion(n, S, R) == R \in [(1..n) \X S -> S]
Recursive(n, S, R, x, f) == f[0] = x /\ \A i \in 1..n : f[i] = R[<<i, f[i - 1]>>]

(* A recursive function over an interval exists.                            *)
LEMMA StepsExist ==
  ASSUME NEW n \in Nat, NEW S, NEW R, Recursion(n, S, R), NEW x \in S
  PROVE  \E f \in [0..n -> S] : Recursive(n, S, R, x, f)
<1>0. R \in [(1..n) \X S -> S]
  BY DEF Recursion
<1> DEFINE States == [i : 0..n, v : S]
           Round == [at \in States |-> IF at.i = n THEN at
                                      ELSE [i |-> at.i + 1, v |-> R[<<at.i + 1, at.v>>]]]
           start == [i |-> 0, v |-> x]
           g(i) == Loop(Round, start, i)
           f == [i \in 0..n |-> g(i).v]
<1>1. Round \in [States -> States] /\ start \in States
  BY <1>0
<1>1b. \A i \in 0..(n - 1), y \in S : Round[[i |-> i, v |-> y]] = [i |-> i + 1, v |-> R[<<i + 1, y>>]]
  OBVIOUS
<1> HIDE DEF Round
<1>2. g(0) = start /\ \A i \in Nat : g(i + 1) = Round[g(i)]
  <2> HIDE DEF start, States
  <2> QED BY <1>1, LoopSteps
<1> HIDE DEF g
<1> DEFINE A == {i \in Nat : i <= n => g(i) = [i |-> i, v |-> g(i).v] /\ g(i).v \in S}
<1>3. 0 \in A
  BY <1>2
<1>4. ASSUME NEW i \in Nat, i \in A PROVE i + 1 \in A
  <2> SUFFICES ASSUME i + 1 <= n
               PROVE  g(i + 1) = [i |-> i + 1, v |-> g(i + 1).v] /\ g(i + 1).v \in S
    OBVIOUS
  <2>1. i \in 0..(n - 1) /\ g(i) = [i |-> i, v |-> g(i).v] /\ g(i).v \in S
    BY <1>4
  <2>2. g(i + 1) = [i |-> i + 1, v |-> R[<<i + 1, g(i).v>>]]
    BY <1>1b, <1>2, <2>1
  <2>3. R[<<i + 1, g(i).v>>] \in S
    BY <1>0, <2>1
  <2> QED BY <2>2, <2>3
<1>5. Nat \subseteq A
  <2> HIDE DEF A
  <2> QED BY <1>3, <1>4, SetInduction
<1>6. \A i \in 0..n : g(i) = [i |-> i, v |-> g(i).v] /\ g(i).v \in S
  BY <1>5
<1>7. \A i \in 0..n : i # 0 => g(i).v = R[<<i, g(i - 1).v>>]
  <2> SUFFICES ASSUME NEW i \in 0..n, i # 0 PROVE g(i).v = R[<<i, g(i - 1).v>>]
    OBVIOUS
  <2>1. i - 1 \in 0..(n - 1) /\ i - 1 \in 0..n /\ i - 1 \in Nat /\ (i - 1) + 1 = i
    OBVIOUS
  <2>2. Round[g(i - 1)] = [i |-> i, v |-> R[<<i, g(i - 1).v>>]]
    BY <1>1b, <1>6, <2>1
  <2>3. g(i) = Round[g(i - 1)]
    BY <1>2, <2>1
  <2> QED BY <2>2, <2>3
<1>8. f \in [0..n -> S]
  BY <1>6
<1>9. f[0] = x /\ \A i \in 1..n : f[i] = R[<<i, f[i - 1]>>]
  <2>1. f[0] = x
    BY <1>2
  <2>2. ASSUME NEW i \in 1..n PROVE f[i] = R[<<i, f[i - 1]>>]
    <3>1. i \in 0..n /\ i # 0 /\ i - 1 \in 0..n /\ f[i] = g(i).v
      OBVIOUS
    <3>2. f[i - 1] = g(i - 1).v
      BY <3>1
    <3> QED BY <1>7, <3>1, <3>2
  <2> QED BY <2>1, <2>2
<1> QED BY <1>8, <1>9 DEF Recursive

Chars == 0..126
Value == 0..(Word32 - 1)

\* the powers of 16, up to the first number that is none of a word
Power(i) == Loop([v \in Nat |-> 16 * v], 1, i)

(* Each power is sixteen times the one before it.                           *)
LEMMA Powers ==
  /\ Power(0) = 1 /\ Power(WordDigits) = Word32
  /\ \A i \in Nat : Power(i) \in Nat \ {0} /\ Power(i + 1) = 16 * Power(i)
<1> DEFINE Times == [v \in Nat |-> 16 * v]
           one == 1
<1>1. Times \in [Nat -> Nat] /\ one \in Nat
  OBVIOUS
<1>2. \A v \in Nat : Times[v] = 16 * v
  OBVIOUS
<1>3. \A i \in Nat : Power(i) = Loop(Times, one, i)
  BY DEF Power
<1>3a. Power(0) = Loop(Times, one, 0)
  BY DEF Power
<1> HIDE DEF Times, one
<1>4. Power(0) = one /\ \A i \in Nat : Power(i + 1) = Times[Power(i)]
  BY <1>1, <1>3, <1>3a, LoopSteps
<1>5. \A i \in Nat : Power(i) \in Nat \ {0}
  <2> DEFINE A == {i \in Nat : Power(i) \in Nat \ {0}}
  <2>1. 0 \in A
    BY <1>4 DEF one
  <2>2. \A i \in Nat : i \in A => i + 1 \in A
    BY <1>2, <1>4
  <2>3. Nat \subseteq A
    <3> HIDE DEF A
    <3> QED BY <2>1, <2>2, SetInduction
  <2> QED BY <2>3
<1> QED BY <1>2, <1>4, <1>5 DEF Word32, Power, one

(* A word has at least one value, 0.                                        *)
LEMMA WordType == Word32 \in Nat \ {0} /\ Value \subseteq Nat /\ 0 \in Value
<1>1. Word32 \in Nat \ {0}
  BY Powers, MonitorAssumption
<1> QED BY <1>1 DEF Value

-----------------------------------------------------------------------------
(* Reading.                                                                 *)

(* Characters are numbers.                                                  *)
LEMMA CharType == \A c \in Chars : c \in Nat
BY DEF Chars

\* where dstrtoul is in s
Readings(s) == [next : 1..(Len(s) + 1), value : Value]

(* A round of dstrtoul, and that it stays within the line and a word.       *)
LEMMA AccumulateType ==
  ASSUME NEW s \in Seq(Chars), NEW base \in Nat
  PROVE  /\ Accumulate(s, base) \in [Readings(s) -> Readings(s)]
         /\ \A i \in 1..(Len(s) + 1), v \in Value :
              Accumulate(s, base)[[next |-> i, value |-> v]] =
                IF i > Len(s) \/ ~IsDigit(s[i]) THEN [next |-> i, value |-> v]
                ELSE [next |-> i + 1, value |-> Accumulated(v, base, DigitOf(s[i]))]
<1>1. ASSUME NEW v \in Value, NEW i \in 1..Len(s)
      PROVE  Accumulated(v, base, DigitOf(s[i])) \in Value
  <2>1. DigitOf(s[i]) \in Int /\ v \in Nat
    <3>1. s[i] \in Chars
      OBVIOUS
    <3>2. s[i] \in Nat
      BY <3>1, CharType
    <3>3. Ordinary(s[i]) \in Int
      BY <3>2 DEF Ordinary
    <3>4. DigitOf(s[i]) \in Int
      BY <3>2, <3>3 DEF DigitOf, Zero
    <3> QED BY <3>4, WordType
  <2>2. v * base + DigitOf(s[i]) \in Int
    BY <2>1
  <2> HIDE DEF DigitOf
  <2> DEFINE a == v * base + DigitOf(s[i])
  <2>3. a \in Int
    BY <2>2
  <2> HIDE DEF a
  <2>4. a % Word32 \in 0..(Word32 - 1)
    BY <2>3, WordType, Remainder
  <2> QED BY <2>4 DEF Accumulated, Value, a
<1>2. \A at \in Readings(s) : at.next \in 1..(Len(s) + 1) /\ at.value \in Value
  BY DEF Readings
<1>3. Len(s) \in Nat
  OBVIOUS
<1>4. \A at \in Readings(s) : ~(at.next > Len(s)) => at.next \in 1..Len(s) /\ at.next + 1 \in 1..(Len(s) + 1)
  BY <1>2, <1>3
<1>5. ASSUME NEW at \in Readings(s)
      PROVE  (IF at.next > Len(s) \/ ~IsDigit(s[at.next]) THEN at
              ELSE [next |-> at.next + 1, value |-> Accumulated(at.value, base, DigitOf(s[at.next]))])
             \in Readings(s)
  BY <1>1, <1>2, <1>4 DEF Readings
<1>6. Accumulate(s, base) = [at \in Readings(s) |->
        IF at.next > Len(s) \/ ~IsDigit(s[at.next]) THEN at
        ELSE [next |-> at.next + 1, value |-> Accumulated(at.value, base, DigitOf(s[at.next]))]]
  BY DEF Accumulate, Readings, Value
<1>7. \A i \in 1..(Len(s) + 1), v \in Value : [next |-> i, value |-> v] \in Readings(s)
  BY DEF Readings
<1> QED BY <1>5, <1>6, <1>7

(* dstrtoul ends within the line, with a word.                              *)
LEMMA dstrtoulType ==
  ASSUME NEW s \in Seq(Chars), NEW base \in Nat, NEW k \in 1..(Len(s) + 1)
  PROVE  dstrtoul(s, k, base) \in Readings(s)
<1> DEFINE R == Readings(s)
           A == Accumulate(s, base)
           x == [next |-> k, value |-> 0]
           n == Len(s)
<1>1. x \in R /\ n \in Nat
  BY WordType DEF Readings
<1>2. A \in [R -> R]
  BY AccumulateType
<1>3. dstrtoul(s, k, base) = Loop(A, x, n)
  BY DEF dstrtoul
<1> HIDE DEF R, A, x, n
<1>4. \A at \in R : A[at] \in R
  BY <1>2
<1>5. Loop(A, x, n) \in R
  BY <1>1, <1>2, <1>4, LoopKeeps
<1> QED BY <1>3, <1>5 DEF R

\* n digits from k on, with the values of the numbers they end
Numeral(s, k, base, n, f) ==
    /\ n \in Nat /\ k \in Nat \ {0} /\ k + n <= Len(s) + 1
    /\ \A i \in 1..n : IsDigit(s[k + i - 1])
    /\ k + n <= Len(s) => ~IsDigit(s[k + n])
    /\ f \in [0..n -> Value] /\ f[0] = 0
    /\ \A i \in 1..n : f[i] = Accumulated(f[i - 1], base, DigitOf(s[k + i - 1]))

(* dstrtoul reads the number that is there.                                 *)
LEMMA dstrtoulIs ==
  ASSUME NEW s \in Seq(Chars), NEW base \in Nat, NEW k, NEW n, NEW f, Numeral(s, k, base, n, f)
  PROVE  dstrtoul(s, k, base) = [next |-> k + n, value |-> f[n]]
<1> DEFINE R == Readings(s)
           Round == Accumulate(s, base)
           x == [next |-> k, value |-> 0]
           g(i) == Loop(Round, x, i)
           Reached(i) == [next |-> k + i, value |-> f[i]]
<1>0. n \in Nat /\ k \in Nat \ {0} /\ Len(s) \in Nat /\ k + n <= Len(s) + 1
  BY DEF Numeral
<1>1. \A i \in 0..n : Reached(i) \in R /\ k + i \in 1..(Len(s) + 1) /\ f[i] \in Value
  BY <1>0 DEF Readings, Numeral
<1>2. Round \in [R -> R]
  BY AccumulateType
<1>3. ASSUME NEW i \in 0..n, i # n PROVE Round[Reached(i)] = Reached(i + 1)
  <2>1. k + i \in 1..(Len(s) + 1) /\ ~(k + i > Len(s)) /\ f[i] \in Value /\ i + 1 \in 1..n
        /\ k + (i + 1) - 1 = k + i /\ (i + 1) - 1 = i /\ (k + i) + 1 = k + (i + 1)
    <3>1. k + i \in 1..(Len(s) + 1) /\ f[i] \in Value
      BY <1>1
    <3> HIDE DEF R, Round, x, Reached
    <3>2. i < n /\ i \in Nat
      BY <1>0, <1>3
    <3> QED BY <1>0, <3>1, <3>2
  <2>2. IsDigit(s[k + i]) /\ f[i + 1] = Accumulated(f[i], base, DigitOf(s[k + i]))
    <3>1. IsDigit(s[k + (i + 1) - 1]) /\ f[i + 1] = Accumulated(f[(i + 1) - 1], base, DigitOf(s[k + (i + 1) - 1]))
      BY <2>1 DEF Numeral
    <3> QED BY <2>1, <3>1
  <2>3. Round[Reached(i)] = [next |-> (k + i) + 1, value |-> Accumulated(f[i], base, DigitOf(s[k + i]))]
    <3>1. Round[Reached(i)] = IF k + i > Len(s) \/ ~IsDigit(s[k + i]) THEN Reached(i)
                         ELSE [next |-> (k + i) + 1, value |-> Accumulated(f[i], base, DigitOf(s[k + i]))]
      BY <2>1, AccumulateType
    <3> QED BY <2>1, <2>2, <3>1
  <2> QED BY <2>1, <2>2, <2>3
<1>4. Round[Reached(n)] = Reached(n)
  <2>1. k + n \in 1..(Len(s) + 1) /\ f[n] \in Value /\ (k + n > Len(s) \/ ~IsDigit(s[k + n]))
    BY <1>0, <1>1 DEF Numeral
  <2> QED BY <2>1, AccumulateType
<1>5. x = Reached(0)
  BY <1>0 DEF Numeral
<1> HIDE DEF x, R, Round, Reached
<1>6. g(0) = Reached(0) /\ \A i \in Nat : g(i + 1) = Round[g(i)]
  <2>1. Reached(0) \in R /\ x \in R
    BY <1>0, <1>1, <1>5
  <2>2. g(0) = x /\ \A i \in Nat : g(i + 1) = Round[g(i)]
    BY <1>2, <2>1, LoopSteps
  <2> QED BY <1>5, <2>2
<1> HIDE DEF g
<1> DEFINE Upto(i) == g(i) = IF i <= n THEN Reached(i) ELSE Reached(n)
           A == {i \in Nat : Upto(i)}
<1>7. 0 \in A
  BY <1>0, <1>6
<1>8. ASSUME NEW i \in Nat, i \in A PROVE i + 1 \in A
  <2>0. Upto(i)
    BY <1>8
  <2>1. CASE i + 1 <= n
    <3>1. i \in 0..n /\ i # n /\ i <= n
      BY <1>0, <2>1
    <3>2. g(i + 1) = Reached(i + 1)
      BY <1>3, <1>6, <2>0, <3>1
    <3> QED BY <2>1, <3>2
  <2>2. CASE ~(i + 1 <= n)
    <3>1. g(i) = Reached(n)
      <4>1. i <= n => i = n
        BY <1>0, <2>2
      <4> QED BY <2>0, <4>1
    <3>2. g(i + 1) = Reached(n)
      BY <1>4, <1>6, <3>1
    <3> QED BY <2>2, <3>2
  <2> QED BY <2>1, <2>2
<1>9. Nat \subseteq A
  <2> HIDE DEF A
  <2> QED BY <1>7, <1>8, SetInduction
<1>10. g(Len(s)) = Reached(n)
  <2>1. n <= Len(s) /\ Len(s) \in A
    BY <1>0, <1>9
  <2>2. Len(s) <= n => Len(s) = n
    BY <1>0, <2>1
  <2> QED BY <2>1, <2>2
<1> QED BY <1>10 DEF g, Reached, dstrtoul, Round, x

(* A round of parsenum's loop over the spaces.                              *)
LEMMA SkipType ==
  ASSUME NEW s \in Seq(Chars)
  PROVE  /\ SkipSpace(s) \in [1..(Len(s) + 1) -> 1..(Len(s) + 1)]
         /\ \A k \in 1..(Len(s) + 1) : SkipSpace(s)[k] = IF k <= Len(s) /\ s[k] = Space THEN k + 1 ELSE k
BY DEF SkipSpace

(* The loop over the spaces stays in the line, and where there is none.     *)
LEMMA SkipEnd ==
  ASSUME NEW s \in Seq(Chars), NEW k \in 1..(Len(s) + 1)
  PROVE  /\ Loop(SkipSpace(s), k, Len(s)) \in 1..(Len(s) + 1)
         /\ k <= Len(s) /\ s[k] # Space => Loop(SkipSpace(s), k, Len(s)) = k
<1> DEFINE K == 1..(Len(s) + 1)
           Round == SkipSpace(s)
           n == Len(s)
           One == {k}
<1>1. k \in K /\ n \in Nat /\ Round \in [K -> K] /\ \A i \in K : Round[i] \in K
  BY SkipType
<1>2. k <= Len(s) /\ s[k] # Space => Round[k] = k
  BY SkipType
<1>3. k \in One /\ One \in SUBSET K
  BY <1>1
<1> HIDE DEF K, Round, n
<1>4. Loop(Round, k, n) \in K
  BY <1>1, LoopKeeps
<1>5. ASSUME Round[k] = k PROVE Loop(Round, k, n) = k
  <2>1. \A i \in One : Round[i] \in One
    BY <1>5
  <2> HIDE DEF One
  <2>2. Loop(Round, k, n) \in One
    BY <1>1, <1>3, <2>1, LoopKeeps
  <2> QED BY <2>2 DEF One
<1> QED BY <1>2, <1>4, <1>5 DEF K, Round, n

\* parsenum finds 0x at k
Prefixed(s, k) == k < Len(s) /\ s[k] = Zero /\ s[k + 1] \in {88, 120}

(* parsenum, where no space is in front of the number.                      *)
LEMMA parsenumIs ==
  ASSUME NEW s \in Seq(Chars), NEW k \in 1..(Len(s) + 1)
  PROVE  /\ parsenum(s, k) \in Readings(s)
         /\ k <= Len(s) /\ s[k] # Space =>
              parsenum(s, k) = IF Prefixed(s, k) THEN dstrtoul(s, k + 2, 16) ELSE dstrtoul(s, k, 10)
<1> DEFINE n == Loop(SkipSpace(s), k, Len(s))
<1>1. n \in 1..(Len(s) + 1) /\ (k <= Len(s) /\ s[k] # Space => n = k)
  BY SkipEnd
<1>2. parsenum(s, k) = IF Prefixed(s, n) THEN dstrtoul(s, n + 2, 16) ELSE dstrtoul(s, n, 10)
  BY DEF parsenum, Prefixed
<1> HIDE DEF n
<1>3. dstrtoul(s, n, 10) \in Readings(s)
  BY <1>1, dstrtoulType
<1>4. Prefixed(s, n) => dstrtoul(s, n + 2, 16) \in Readings(s)
  <2>1. Prefixed(s, n) => n + 2 \in 1..(Len(s) + 1)
    BY <1>1 DEF Prefixed
  <2> QED BY <2>1, dstrtoulType
<1> QED BY <1>1, <1>2, <1>3, <1>4

-----------------------------------------------------------------------------
(* Printing.                                                                *)

\* the digits p, read from q on, give g[1], g[2] and in the end v
Reading(p, q, v, g) ==
    /\ p \in Seq(Chars) /\ g \in [0..Len(p) -> Value] /\ g[0] = q /\ g[Len(p)] = v
    /\ \A i \in 1..Len(p) : IsDigit(p[i]) /\ g[i] = g[i - 1] * 16 + DigitOf(p[i])

Reads(p, q, v) == \E g : Reading(p, q, v, g)

(* No digits at all read as the number they are read onto.                 *)
LEMMA NothingReads ==
  ASSUME NEW v \in Value
  PROVE  Reads(<<>>, v, v)
<1> DEFINE g == [i \in 0..0 |-> v]
<1>1. Reading(<<>>, v, v, g)
  BY DEF Reading
<1> QED BY <1>1 DEF Reads

(* A digit more in front.                                                   *)
LEMMA FrontReads ==
  ASSUME NEW p, NEW q \in Nat, NEW v, Reads(p, q, v), NEW c \in Chars, IsDigit(c), NEW r \in Value,
         q = r * 16 + DigitOf(c)
  PROVE  Reads(<<c>> \o p, r, v)
<1>1. PICK g : Reading(p, q, v, g)
  BY DEF Reads
<1> DEFINE t == <<c>> \o p
           h == [i \in 0..Len(t) |-> IF i = 0 THEN r ELSE g[i - 1]]
<1>2. p \in Seq(Chars) /\ g \in [0..Len(p) -> Value] /\ g[0] = q /\ g[Len(p)] = v
  BY <1>1 DEF Reading
<1>3. t \in Seq(Chars) /\ Len(t) = Len(p) + 1 /\ t[1] = c /\ Len(p) \in Nat
      /\ \A i \in 2..Len(t) : t[i] = p[i - 1]
  BY <1>2
<1> HIDE DEF t
<1>4. h \in [0..Len(t) -> Value] /\ h[0] = r /\ h[Len(t)] = v
  <2>1. \A i \in 0..Len(t) : i # 0 => i - 1 \in 0..Len(p)
    BY <1>3
  <2>2. Len(t) \in 0..Len(t) /\ Len(t) # 0 /\ Len(t) - 1 = Len(p) /\ 0 \in 0..Len(t)
    BY <1>3
  <2> QED BY <1>2, <2>1, <2>2
<1>5. ASSUME NEW i \in 1..Len(t)
      PROVE  IsDigit(t[i]) /\ h[i] = h[i - 1] * 16 + DigitOf(t[i])
  <2>1. i \in 0..Len(t) /\ i - 1 \in 0..Len(t) /\ i # 0
    BY <1>3
  <2>2. h[i] = g[i - 1] /\ h[i - 1] = IF i - 1 = 0 THEN r ELSE g[(i - 1) - 1]
    BY <2>1
  <2> HIDE DEF h
  <2>3. CASE i = 1
    <3>1. h[i] = q /\ h[i - 1] = r /\ t[i] = c
      BY <1>2, <1>3, <2>2, <2>3
    <3> QED BY <3>1
  <2>4. CASE i # 1
    <3>1. i - 1 \in 1..Len(p) /\ i \in 2..Len(t) /\ i - 1 # 0
      BY <1>3, <2>4
    <3>2. IsDigit(p[i - 1]) /\ g[i - 1] = g[(i - 1) - 1] * 16 + DigitOf(p[i - 1])
      BY <1>1, <3>1 DEF Reading
    <3>3. t[i] = p[i - 1]
      BY <1>3, <3>1
    <3> QED BY <2>2, <3>1, <3>2, <3>3
  <2> QED BY <2>3, <2>4
<1> HIDE DEF h
<1>6. Reading(t, r, v, h)
  BY <1>3, <1>4, <1>5 DEF Reading
<1> QED BY <1>6 DEF Reads, t

(* What ufmt divides a number into.                                         *)
LEMMA LastDigit ==
  \A q \in Nat : /\ q % 16 \in 0..15 /\ q \div 16 \in Nat
                 /\ q = (q \div 16) * 16 + (q % 16) /\ q \div 16 <= q
OBVIOUS

(* A digit that ufmt writes is one that dstrtoul reads, with its value.     *)
LEMMA DigitIsDigit ==
  \A r \in 0..15 : Digit(r) \in Chars /\ IsDigit(Digit(r)) /\ DigitOf(Digit(r)) = r
BY DEF Digit, Chars, IsDigit, DigitOf, Ordinary, Zero

(* So is the zero nprint fills up with.                                     *)
LEMMA ZeroIsDigit == Zero \in Chars /\ IsDigit(Zero) /\ DigitOf(Zero) = 0
BY DEF Chars, IsDigit, DigitOf, Ordinary, Zero

\* where ufmt is after i rounds, on the way to v
Printing(at, v, i) ==
    /\ at \in [q : Nat, p : Seq(Nat)] /\ at.q \in Value /\ Reads(at.p, at.q, v) /\ Len(at.p) <= WordDigits
    /\ \/ at.q = 0 /\ at.p # <<>>
       \/ i < WordDigits /\ Len(at.p) = i /\ at.q < Power(WordDigits - i)

(* A round of ufmt's loop keeps the number that the digits so far and what  *)
(* is left of it make up.                                                   *)
LEMMA DivideIs ==
  ASSUME NEW v \in Value, NEW i \in Nat, NEW at, Printing(at, v, i)
  PROVE  Printing(Divide(16)[at], v, i + 1)
<1>1. at \in [q : Nat, p : Seq(Nat)] /\ at.q \in Value /\ Reads(at.p, at.q, v) /\ WordDigits \in Nat \ {0}
      /\ Len(at.p) <= WordDigits
  BY MonitorAssumption DEF Printing
<1>2. CASE at.q = 0 /\ at.p # <<>>
  <2>1. Divide(16)[at] = at
    BY <1>1, <1>2 DEF Divide
  <2> QED BY <1>1, <1>2, <2>1 DEF Printing
<1>3. CASE ~(at.q = 0 /\ at.p # <<>>)
  <2> DEFINE d == at.q % 16
             r == at.q \div 16
             p == <<Digit(d)>> \o at.p
             next == [q |-> r, p |-> p]
  <2>1. Divide(16)[at] = next
    BY <1>1, <1>3 DEF Divide
  <2>2. i < WordDigits /\ Len(at.p) = i /\ at.q < Power(WordDigits - i)
    BY <1>3 DEF Printing
  <2>3. at.q \in Nat /\ d \in 0..15 /\ r \in Nat /\ at.q = r * 16 + d /\ r <= at.q
    <3>1. at.q \in Nat
      BY <1>1
    <3> QED BY <3>1, LastDigit
  <2> HIDE DEF d, r
  <2>4. r \in Value
    BY <1>1, <2>3, WordType DEF Value
  <2>5. Reads(p, r, v)
    <3> DEFINE c == Digit(d)
               q == at.q
    <3>1. c \in Chars /\ IsDigit(c) /\ DigitOf(c) = d
      BY <2>3, DigitIsDigit
    <3>2. q = r * 16 + DigitOf(c) /\ q \in Nat /\ Reads(at.p, q, v)
      BY <1>1, <2>3, <3>1
    <3> HIDE DEF c, q
    <3>3. Reads(<<c>> \o at.p, r, v)
      BY <2>4, <3>1, <3>2, FrontReads
    <3> QED BY <3>3 DEF c
  <2>6. at.p \in Seq(Nat) /\ Digit(d) \in Nat
    BY <1>1, <2>3, DigitIsDigit, CharType
  <2>7. p \in Seq(Nat) /\ Len(p) = i + 1 /\ p # <<>> /\ i + 1 <= WordDigits
    BY <1>1, <2>2, <2>6
  <2>8. next.q = r /\ next.p = p /\ next \in [q : Nat, p : Seq(Nat)]
    BY <2>3, <2>7
  <2>9. r < Power(WordDigits - (i + 1))
    <3>1. WordDigits - (i + 1) \in Nat /\ (WordDigits - (i + 1)) + 1 = WordDigits - i
      BY <1>1, <2>2
    <3>2. Power(WordDigits - i) = 16 * Power(WordDigits - (i + 1))
          /\ Power(WordDigits - (i + 1)) \in Nat
      BY <3>1, Powers
    <3> QED BY <2>2, <2>3, <3>2
  <2>10. CASE i + 1 < WordDigits
    BY <2>1, <2>4, <2>5, <2>7, <2>8, <2>9, <2>10 DEF Printing
  <2>11. CASE ~(i + 1 < WordDigits)
    <3>1. WordDigits - (i + 1) = 0
      BY <1>1, <2>2, <2>11
    <3>2. r = 0
      BY <2>3, <2>9, <3>1, Powers
    <3> QED BY <2>1, <2>4, <2>5, <2>7, <2>8, <3>2 DEF Printing
  <2> QED BY <2>10, <2>11
<1> QED BY <1>2, <1>3

(* ufmt writes the digits of an unsigned int.                               *)
LEMMA ufmtIs ==
  ASSUME NEW v \in Value
  PROVE  LET s == ufmt(v, 16)
         IN  Reads(s, 0, v) /\ s \in Seq(Nat) /\ Len(s) <= WordDigits
<1> DEFINE States == [q : Nat, p : Seq(Nat)]
           Round == Divide(16)
           x == [q |-> v, p |-> <<>>]
           g(i) == Loop(Round, x, i)
<1>1. WordDigits \in Nat \ {0} /\ v \in Nat /\ v < Word32 /\ Word32 \in Nat
  BY MonitorAssumption, WordType DEF Value
<1>2. Round \in [States -> States]
  <2>1. ASSUME NEW q \in Nat, NEW p \in Seq(Nat)
        PROVE  q \div 16 \in Nat /\ <<Digit(q % 16)>> \o p \in Seq(Nat)
    <3>1. q \div 16 \in Nat /\ q % 16 \in 0..15
      BY LastDigit
    <3>2. Digit(q % 16) \in Nat
      BY <3>1, DigitIsDigit, CharType
    <3> QED BY <3>1, <3>2
  <2>2. ASSUME NEW at \in States
        PROVE  (IF at.q = 0 /\ at.p # <<>> THEN at
                ELSE [q |-> at.q \div 16, p |-> <<Digit(at.q % 16)>> \o at.p]) \in States
    <3>1. at.q \in Nat /\ at.p \in Seq(Nat)
      OBVIOUS
    <3>2. at.q \div 16 \in Nat /\ <<Digit(at.q % 16)>> \o at.p \in Seq(Nat)
      BY <3>1, <2>1
    <3> QED BY <3>2
  <2> QED BY <2>2 DEF Divide
<1>3. x \in States /\ x.q = v /\ x.p = <<>>
  BY <1>1
<1> HIDE DEF x, Round, States
<1>4. g(0) = x /\ \A i \in Nat : g(i + 1) = Round[g(i)]
  BY <1>2, <1>3, LoopSteps
<1> HIDE DEF g
<1> DEFINE A == {i \in Nat : Printing(g(i), v, i)}
<1>5. 0 \in A
  <2>1. Reads(x.p, x.q, v)
    BY <1>3, NothingReads
  <2>2. x.q < Power(WordDigits - 0) /\ Len(x.p) = 0 /\ 0 < WordDigits
    <3>1. WordDigits - 0 = WordDigits
      BY <1>1
    <3> QED BY <1>1, <1>3, <3>1, Powers
  <2>3. Printing(x, v, 0)
    BY <1>1, <1>3, <2>1, <2>2 DEF Printing, States
  <2> QED BY <1>4, <2>3
<1>6. ASSUME NEW i \in Nat, i \in A PROVE i + 1 \in A
  <2>1. Printing(Round[g(i)], v, i + 1)
    BY <1>6, DivideIs DEF Round
  <2> QED BY <1>4, <2>1
<1>7. Nat \subseteq A
  <2> HIDE DEF A
  <2> QED BY <1>5, <1>6, SetInduction
<1> DEFINE n == 4 * WordDigits
<1>8. n \in Nat /\ ~(n < WordDigits)
  BY <1>1
<1>9. Printing(g(n), v, n)
  BY <1>7, <1>8
<1>10. ufmt(v, 16) = g(n).p
  BY DEF ufmt, g, Round, x
<1> HIDE DEF n, A
<1>11. g(n).q = 0 /\ Reads(g(n).p, g(n).q, v) /\ g(n) \in [q : Nat, p : Seq(Nat)] /\ Len(g(n).p) <= WordDigits
  BY <1>8, <1>9 DEF Printing
<1> QED BY <1>10, <1>11

(* Zeros in front change nothing.                                           *)
LEMMA PaddedReads ==
  ASSUME NEW v, NEW p \in Seq(Nat), Reads(p, 0, v), NEW n \in Nat
  PROVE  /\ Reads([i \in 1..n |-> Zero] \o p, 0, v)
         /\ Len([i \in 1..n |-> Zero] \o p) = n + Len(p)
<1> DEFINE z(i) == [j \in 1..i |-> Zero]
           zero == 0
           A == {i \in Nat : Reads(z(i) \o p, zero, v)}
<1>0. Reads(p, zero, v) /\ zero = 0
  OBVIOUS
<1>1. \A i \in Nat : z(i) \in Seq(Nat) /\ Len(z(i)) = i /\ z(i + 1) = <<Zero>> \o z(i)
  <2> SUFFICES ASSUME NEW i \in Nat
               PROVE  z(i) \in Seq(Nat) /\ Len(z(i)) = i /\ z(i + 1) = <<Zero>> \o z(i)
    OBVIOUS
  <2>1. Zero \in Nat
    BY DEF Zero
  <2>2. z(i) \in Seq(Nat) /\ Len(z(i)) = i /\ z(i + 1) \in Seq(Nat) /\ Len(z(i + 1)) = i + 1
    BY <2>1
  <2>3. \A j \in 1..i : z(i)[j] = Zero
    OBVIOUS
  <2>4. \A j \in 1..(i + 1) : z(i + 1)[j] = Zero
    OBVIOUS
  <2> HIDE DEF z
  <2> DEFINE u == <<Zero>> \o z(i)
             y == z(i + 1)
  <2>5. u \in Seq(Nat) /\ Len(u) = i + 1 /\ \A j \in 1..(i + 1) : u[j] = Zero
    BY <2>1, <2>2, <2>3
  <2>6. y \in Seq(Nat) /\ Len(u) = Len(y) /\ \A j \in 1..Len(u) : u[j] = y[j]
    BY <2>2, <2>4, <2>5
  <2> HIDE DEF u, y
  <2>7. u = y
    BY <2>5, <2>6, SeqEqual
  <2> QED BY <2>2, <2>7 DEF u, y
<1>2. z(0) \o p = p
  <2>1. z(0) = <<>>
    OBVIOUS
  <2> QED BY <2>1
<1> HIDE DEF z, zero
<1>3. 0 \in A
  BY <1>0, <1>2
<1>4. ASSUME NEW i \in Nat, i \in A PROVE i + 1 \in A
  <2> DEFINE t == z(i) \o p
  <2>1. Reads(t, zero, v)
    BY <1>4
  <2>2. zero = zero * 16 + DigitOf(Zero) /\ zero \in Nat /\ zero \in Value /\ Zero \in Chars /\ IsDigit(Zero)
    BY <1>0, ZeroIsDigit, WordType
  <2>3. <<Zero>> \o t = z(i + 1) \o p
    <3> DEFINE Nats == Nat
               c == <<Zero>>
               y == z(i)
    <3>1. y \in Seq(Nats) /\ p \in Seq(Nats) /\ c \in Seq(Nats)
      BY <1>1 DEF Zero
    <3> HIDE DEF Nats, c, y
    <3>2. (c \o y) \o p = c \o (y \o p)
      BY <3>1, ConcatAssociative
    <3> QED BY <1>1, <3>2 DEF c, y
  <2> HIDE DEF t
  <2>4. Reads(<<Zero>> \o t, zero, v)
    BY <2>1, <2>2, FrontReads
  <2>5. Reads(z(i + 1) \o p, zero, v)
    <3> DEFINE y == z(i + 1) \o p
               w == <<Zero>> \o t
    <3>1. w = y /\ Reads(w, zero, v)
      BY <2>3, <2>4
    <3> HIDE DEF y, w
    <3>2. Reads(y, zero, v)
      BY <3>1
    <3> QED BY <3>2 DEF y
  <2> QED BY <2>5
<1>5. Nat \subseteq A
  <2> HIDE DEF A
  <2> QED BY <1>3, <1>4, SetInduction
<1>6. Reads(z(n) \o p, zero, v) /\ Len(z(n) \o p) = n + Len(p)
  <2>1. n \in A
    BY <1>5
  <2>2. z(n) \in Seq(Nat) /\ Len(z(n)) = n
    BY <1>1
  <2> HIDE DEF A
  <2>3. Len(z(n) \o p) = n + Len(p)
    BY <2>2
  <2> QED BY <2>1, <2>3 DEF A
<1> QED BY <1>6 DEF z, zero

(* An address as it is shown, read back.                                    *)
LEMMA ShownIsRead ==
  ASSUME NEW v \in Value
  PROVE  LET t == <<Zero, 120>> \o uprint(v, 16, WordDigits, Zero)
         IN  parsenum(t, 1).value = v /\ Len(t) = 2 + WordDigits /\ t # <<>>
<1> DEFINE s == ufmt(v, 16)
           n == IF WordDigits > Len(s) THEN WordDigits - Len(s) ELSE 0
           u == [i \in 1..n |-> Zero] \o s
           w == uprint(v, 16, WordDigits, Zero)
           t == <<Zero, 120>> \o w
<1>1. s \in Seq(Nat) /\ Reads(s, 0, v) /\ Len(s) <= WordDigits /\ WordDigits \in Nat \ {0}
  BY ufmtIs, MonitorAssumption
<1>2. w = u
  BY DEF uprint
<1> HIDE DEF s, w
<1>3. n \in Nat /\ n + Len(s) = WordDigits
  BY <1>1
<1> HIDE DEF n
<1>4. Reads(w, 0, v) /\ Len(w) = WordDigits
  <2>1. Reads(u, 0, v) /\ Len(u) = n + Len(s)
    BY <1>1, <1>3, PaddedReads
  <2> QED BY <1>2, <1>3, <2>1
<1> HIDE DEF u
<1>5. PICK g : Reading(w, 0, v, g)
  BY <1>4 DEF Reads
<1>6. w \in Seq(Chars) /\ g \in [0..WordDigits -> Value] /\ g[0] = 0 /\ g[WordDigits] = v
  BY <1>4, <1>5 DEF Reading
<1>7. t \in Seq(Chars) /\ Len(t) = 2 + WordDigits /\ t[1] = Zero /\ t[2] = 120
      /\ \A i \in 1..WordDigits : t[2 + i] = w[i]
  <2>1. Zero \in Chars /\ 120 \in Chars
    BY DEF Zero, Chars
  <2>2. <<Zero, 120>> \in Seq(Chars)
    BY <2>1
  <2> QED BY <1>1, <1>4, <1>6, <2>2
<1> HIDE DEF t
<1> DEFINE three == 3
           sixteen == 16
<1>8. Numeral(t, three, sixteen, WordDigits, g)
  <2>1. ASSUME NEW i \in 1..WordDigits
        PROVE  /\ IsDigit(t[three + i - 1])
               /\ g[i] = Accumulated(g[i - 1], sixteen, DigitOf(t[three + i - 1]))
    <3>1. 3 + i - 1 = 2 + i /\ t[2 + i] = w[i]
      BY <1>1, <1>7
    <3>2. IsDigit(w[i]) /\ g[i] = g[i - 1] * 16 + DigitOf(w[i])
      BY <1>4, <1>5 DEF Reading
    <3>3. g[i] \in Value
      BY <1>1, <1>6
    <3>4. g[i] % Word32 = g[i]
      <4> DEFINE a == g[i]
                 zero == 0
      <4>1. a \in Int /\ a \in 0..(Word32 - 1) /\ a = zero * Word32 + a /\ zero \in Int
        BY <3>3, WordType DEF Value
      <4> HIDE DEF a, zero
      <4>2. a % Word32 = a
        BY <4>1, WordType, RemainderIs
      <4> QED BY <4>2 DEF a
    <3> QED BY <3>1, <3>2, <3>4 DEF Accumulated
  <2>2. /\ ~(three + WordDigits <= Len(t)) /\ three + WordDigits <= Len(t) + 1
        /\ WordDigits \in Nat /\ three \in Nat \ {0}
    BY <1>1, <1>7
  <2> HIDE DEF three, sixteen
  <2> QED BY <1>6, <2>1, <2>2 DEF Numeral
<1>9. dstrtoul(t, 3, 16).value = v
  <2>1. sixteen \in Nat
    OBVIOUS
  <2> HIDE DEF three, sixteen
  <2>2. dstrtoul(t, three, sixteen) = [next |-> three + WordDigits, value |-> g[WordDigits]]
    BY <1>7, <1>8, <2>1, dstrtoulIs
  <2>3. dstrtoul(t, three, sixteen).value = v
    BY <1>6, <2>2
  <2> QED BY <2>3 DEF three, sixteen
<1>10. parsenum(t, 1) = dstrtoul(t, 3, 16)
  <2> DEFINE one == 1
  <2>1. one \in 1..(Len(t) + 1) /\ one <= Len(t) /\ t[one] # Space /\ Prefixed(t, one) /\ one + 2 = 3
    BY <1>1, <1>7 DEF Prefixed, Space, Zero
  <2> HIDE DEF one
  <2>2. parsenum(t, one) = dstrtoul(t, one + 2, 16)
    BY <1>7, <2>1, parsenumIs
  <2> QED BY <2>1, <2>2 DEF one
<1>11. Len(t) # 0 => t # <<>>
  OBVIOUS
<1> QED BY <1>1, <1>7, <1>9, <1>10, <1>11 DEF t, w

\* the digits of s from 2 to k are a decimal number, and it ends there
Decimal(s, k) == /\ k \in 2..Len(s)
                 /\ \A j \in 2..k : s[j] \in Zero..57
                 /\ k = Len(s) \/ s[k + 1] = Space

(* What the numeral s[2], ..., s[k] means, digit by digit.                  *)
LEMMA MeaningIs ==
  ASSUME NEW s \in Seq(Chars), NEW k, Decimal(s, k), NEW n, n = k - 1
  PROVE  \E f \in [0..n -> Nat] :
            /\ f[0] = 0 /\ f[n] = Meaning(s, 2, k, 10)
            /\ \A i \in 1..n : f[i] = f[i - 1] * 10 + DigitOf(s[2 + i - 1])
<1>1. n \in Nat /\ k \in Nat /\ k \in 2..Len(s) /\ Len(s) \in Nat
  BY DEF Decimal
<1>2. \A i \in 1..n : DigitOf(s[2 + i - 1]) \in Nat
  <2> SUFFICES ASSUME NEW i \in 1..n PROVE DigitOf(s[2 + i - 1]) \in Nat
    OBVIOUS
  <2>1. 2 + i - 1 \in 2..k
    BY <1>1
  <2>2. s[2 + i - 1] \in Zero..57
    BY <2>1 DEF Decimal
  <2> DEFINE c == s[2 + i - 1]
  <2> HIDE DEF c
  <2>3. c \in 48..57
    BY <2>2 DEF c, Zero
  <2>4. DigitOf(c) \in Nat
    BY <2>3 DEF DigitOf, Ordinary, Zero
  <2> QED BY <2>4 DEF c
<1> DEFINE D == 0..n
           d(i) == DigitOf(s[2 + i - 1])
           R == [a \in (1..n) \X Nat |-> a[2] * 10 + d(a[1])]
           zero == 0
<1>3. R \in [(1..n) \X Nat -> Nat] /\ zero \in Nat /\ zero = 0
  <2> HIDE DEF d
  <2>1. \A i \in 1..n : d(i) \in Nat
    BY <1>2 DEF d
  <2> QED BY <2>1
<1>4. \A i \in 1..n, y \in Nat : R[<<i, y>>] = y * 10 + d(i)
  OBVIOUS
<1> HIDE DEF R, zero, d
<1>5. PICK f \in [0..n -> Nat] : f[0] = zero /\ \A i \in 1..n : f[i] = R[<<i, f[i - 1]>>]
  <2> DEFINE Nats == Nat
  <2>1. n \in Nat /\ Recursion(n, Nats, R) /\ zero \in Nats
    BY <1>1, <1>3 DEF Recursion
  <2> HIDE DEF Nats
  <2>2. \E f \in [0..n -> Nats] : Recursive(n, Nats, R, zero, f)
    BY ONLY <2>1, StepsExist
  <2> QED BY <2>2 DEF Nats, Recursive
<1> DEFINE Is(v) == v = [i \in 0..n |-> IF i = 0 THEN 0 ELSE v[i - 1] * 10 + DigitOf(s[2 + i - 1])]
<1>6. Is(f)
  <2>1. \A i \in 0..n : f[i] = IF i = 0 THEN 0 ELSE f[i - 1] * 10 + d(i)
    <3> SUFFICES ASSUME NEW i \in 0..n
                 PROVE  f[i] = IF i = 0 THEN 0 ELSE f[i - 1] * 10 + d(i)
      OBVIOUS
    <3>1. CASE i = 0
      BY <1>3, <1>5, <3>1
    <3>2. CASE i # 0
      <4>1. i \in 1..n /\ i - 1 \in 0..n
        BY <1>1, <3>2
      <4>2. f[i - 1] \in Nat /\ f[i] = R[<<i, f[i - 1]>>]
        BY <1>5, <4>1
      <4>3. R[<<i, f[i - 1]>>] = f[i - 1] * 10 + d(i)
        BY <1>4, <4>1, <4>2
      <4> QED BY <3>2, <4>2, <4>3
    <3> QED BY <3>1, <3>2
  <2> QED BY <2>1 DEF d
<1>7. ASSUME NEW v, Is(v) PROVE v = f
  <2>0. DOMAIN v = 0..n /\ v = [i \in 0..n |-> v[i]]
    BY <1>7 DEF d
  <2>1. \A i \in 0..n : v[i] = IF i = 0 THEN 0 ELSE v[i - 1] * 10 + d(i)
    BY <1>7 DEF d
  <2>2. \A i \in 0..n : f[i] = IF i = 0 THEN 0 ELSE f[i - 1] * 10 + d(i)
    BY <1>6 DEF d
  <2> HIDE DEF d, Is
  <2> DEFINE A == {i \in Nat : i <= n => v[i] = f[i]}
  <2>3. 0 \in A
    BY <1>1, <2>1, <2>2
  <2>4. ASSUME NEW i \in Nat, i \in A PROVE i + 1 \in A
    <3> SUFFICES ASSUME i + 1 <= n PROVE v[i + 1] = f[i + 1]
      OBVIOUS
    <3>1. v[i] = f[i]
      BY <1>1, <2>4
    <3>2. i + 1 \in 0..n /\ i + 1 # 0 /\ (i + 1) - 1 = i
      BY <1>1
    <3>3. v[i + 1] = v[(i + 1) - 1] * 10 + d(i + 1) /\ f[i + 1] = f[(i + 1) - 1] * 10 + d(i + 1)
      BY <2>1, <2>2, <3>2
    <3> QED BY <3>1, <3>2, <3>3
  <2>5. Nat \subseteq A
    <3> HIDE DEF A
    <3> QED BY <2>3, <2>4, SetInduction
  <2>6. \A i \in 0..n : v[i] = f[i]
    BY <2>5
  <2>7. f = [i \in 0..n |-> f[i]]
    OBVIOUS
  <2> QED BY <2>0, <2>6, <2>7
<1>8. Meaning(s, 2, k, 10) = (CHOOSE v : Is(v))[n]
  <2>1. k - 2 + 1 = n
    BY <1>1
  <2> QED BY <2>1 DEF Meaning
<1>9. (CHOOSE v : Is(v)) = f
  <2> HIDE DEF Is
  <2> QED BY <1>6, <1>7
<1>10. f[0] = 0 /\ \A i \in 1..n : f[i] = f[i - 1] * 10 + DigitOf(s[2 + i - 1])
  <2>1. \A i \in 0..n : f[i] = IF i = 0 THEN 0 ELSE f[i - 1] * 10 + DigitOf(s[2 + i - 1])
    BY <1>6
  <2>2. 0 \in 0..n /\ \A i \in 1..n : i \in 0..n /\ i # 0
    BY <1>1
  <2> HIDE DEF Is
  <2> QED BY <2>1, <2>2
<1> HIDE DEF Is
<1> QED BY <1>8, <1>9, <1>10

(* parsenum, on a decimal number.                                           *)
LEMMA DecimalIsRead ==
  ASSUME NEW s \in Seq(Chars), NEW k, Decimal(s, k)
  PROVE  parsenum(s, 2).value = Meaning(s, 2, k, 10) % Word32
<1> DEFINE n == k - 1
<1>1. n \in Nat /\ k \in Nat /\ k \in 2..Len(s) /\ Len(s) \in Nat /\ k = n + 1
  BY DEF Decimal
<1>2. PICK f \in [0..n -> Nat] :
            /\ f[0] = 0 /\ f[n] = Meaning(s, 2, k, 10)
            /\ \A i \in 1..n : f[i] = f[i - 1] * 10 + DigitOf(s[2 + i - 1])
  BY MeaningIs
<1> HIDE DEF n
<1> DEFINE g == [i \in 0..n |-> f[i] % Word32]
           two == 2
           ten == 10
<1>3. \A i \in 0..n : f[i] % Word32 \in Value
  <2> SUFFICES ASSUME NEW i \in 0..n PROVE f[i] % Word32 \in Value
    OBVIOUS
  <2> DEFINE a == f[i]
  <2>1. a \in Int
    OBVIOUS
  <2> HIDE DEF a
  <2>2. a % Word32 \in 0..(Word32 - 1)
    BY <2>1, WordType, Remainder
  <2> QED BY <2>2 DEF a, Value
<1>4. g \in [0..n -> Value] /\ \A i \in 0..n : g[i] = f[i] % Word32
  BY <1>3
<1> HIDE DEF g
<1>5. g[0] = 0
  <2> DEFINE zero == 0
  <2>1. zero \in Int /\ zero = zero * Word32 + zero /\ zero \in 0..(Word32 - 1)
    BY WordType
  <2>2. g[0] = zero % Word32
    BY <1>1, <1>2, <1>4
  <2> HIDE DEF zero
  <2>3. zero % Word32 = zero
    BY <2>1, WordType, RemainderIs
  <2> QED BY <2>2, <2>3 DEF zero
<1>6. ASSUME NEW i \in 1..n
      PROVE  /\ IsDigit(s[two + i - 1]) /\ s[two + i - 1] \in Zero..57
             /\ g[i] = Accumulated(g[i - 1], ten, DigitOf(s[two + i - 1]))
  <2> DEFINE c == s[2 + i - 1]
             d == DigitOf(c)
  <2>1. 2 + i - 1 \in 2..k /\ i \in 0..n /\ i - 1 \in 0..n
    BY <1>1
  <2>2. c \in Zero..57
    BY <2>1 DEF Decimal
  <2>3. f[i] = f[i - 1] * 10 + d
    BY <1>2
  <2> HIDE DEF c
  <2>4. IsDigit(c) /\ d \in Int
    BY <2>2 DEF IsDigit, DigitOf, Ordinary, Zero
  <2> HIDE DEF d
  <2> DEFINE v == f[i - 1]
  <2>5. v \in Int /\ g[i - 1] = v % Word32 /\ g[i] = (v * ten + d) % Word32 /\ ten \in Int
    BY <1>4, <2>1, <2>3
  <2> HIDE DEF v, ten
  <2>6. ((v % Word32) * ten + d) % Word32 = (v * ten + d) % Word32
    BY <2>4, <2>5, WordType, AccumulatedRemainder
  <2>7. g[i] = Accumulated(g[i - 1], ten, d)
    BY <2>5, <2>6 DEF Accumulated
  <2> QED BY <2>2, <2>4, <2>7 DEF c, d
<1>7. two + n <= Len(s) => ~IsDigit(s[two + n])
  <2>1. two + n = k + 1 /\ (two + n <= Len(s) => k # Len(s))
    BY <1>1
  <2>2. ~IsDigit(Space)
    BY DEF IsDigit, Space, Ordinary, Zero
  <2> QED BY <2>1, <2>2 DEF Decimal
<1>8. two \in Nat \ {0} /\ two + n <= Len(s) + 1 /\ ten \in Nat
  BY <1>1
<1>9. dstrtoul(s, 2, 10).value = g[n]
  <2> HIDE DEF two, ten
  <2>1. Numeral(s, two, ten, n, g)
    BY <1>1, <1>4, <1>5, <1>6, <1>7, <1>8 DEF Numeral
  <2>2. dstrtoul(s, two, ten) = [next |-> two + n, value |-> g[n]]
    BY <1>8, <2>1, dstrtoulIs
  <2>3. dstrtoul(s, two, ten).value = g[n]
    BY <2>2
  <2> QED BY <2>3 DEF two, ten
<1>10. g[n] = Meaning(s, 2, k, 10) % Word32
  BY <1>1, <1>2, <1>4
<1>11. s[2] \in Zero..57 /\ (2 < Len(s) => s[3] \in Zero..57 \/ s[3] = Space)
  <2>1. 2 \in 2..k
    BY <1>1
  <2>2. CASE k = 2
    BY <2>1, <2>2 DEF Decimal
  <2>3. CASE k # 2
    <3>1. 3 \in 2..k
      BY <1>1, <2>3
    <3> QED BY <2>1, <3>1 DEF Decimal
  <2> QED BY <2>2, <2>3
<1>12. parsenum(s, 2) = dstrtoul(s, 2, 10)
  <2>1. two \in 1..(Len(s) + 1) /\ two <= Len(s) /\ s[two] # Space /\ ~Prefixed(s, two)
    <3>1. s[2] # Space
      BY <1>11 DEF Space, Zero
    <3>2. 2 < Len(s) => s[2 + 1] \notin {88, 120}
      BY <1>11 DEF Space, Zero
    <3> QED BY <1>1, <3>1, <3>2 DEF Prefixed
  <2> HIDE DEF two, ten
  <2>2. parsenum(s, two) = dstrtoul(s, two, 10)
    BY <2>1, parsenumIs
  <2> QED BY <2>2 DEF two
<1> QED BY <1>9, <1>10, <1>12

-----------------------------------------------------------------------------
(* The lines that are typed, and what is shown.                             *)
MonitorSpec == MonitorInit /\ [][MonitorNext]_monitorVars

\* an address as it is shown
Shown(a) == <<Zero, 120>> \o uprint(a, 16, WordDigits, Zero)

\* the line typed, beside the line as the user corrected it
Corrected == /\ cmd \in Seq(Chars) /\ meant \in Seq(Chars) /\ Len(cmd) < LINE
             /\ cmd = meant \/ cmd = <<BS>> \o meant

\* the words shown, beside the command that asked for them
Dumped == /\ dump \in [addr : Value, mlen : Int, i : Nat,
                       text : {<<>>} \cup {Shown(a) : a \in Value}]
          /\ dump.text # <<>> =>
               \E a \in Value : dump.text = Shown(a) /\ dump.addr = (a + 32) % Word32
          /\ ~typing /\ dump.i = 0 /\ cmd # <<>> /\ cmd[1] = 109 =>
               dump.addr = parsenum(cmd, 2).value

MonitorInv == Corrected /\ Dumped

(* The monitor prompts for a first line with nothing shown.                 *)
LEMMA InitMonitored == MonitorInit => MonitorInv
<1> SUFFICES ASSUME MonitorInit PROVE MonitorInv
  OBVIOUS
<1>1. Corrected
  BY MonitorAssumption DEF MonitorInit, Corrected
<1>2. Dumped
  BY WordType DEF MonitorInit, Dumped
<1> QED BY <1>1, <1>2 DEF MonitorInv

(* A backspace takes a character from the line and from the corrected line, *)
(* except on a line of which nothing or only a backspace is left.           *)
LEMMA TypeCorrects ==
  ASSUME Corrected, NEW c \in Keys, Type(c) PROVE Corrected'
<1>1. c \in Chars /\ Len(cmd) \in Nat /\ Len(meant) \in Nat /\ BS \in Chars
  BY MonitorAssumption DEF Corrected, Chars, BS
<1>2. cmd \in Seq(Chars) /\ meant \in Seq(Chars) /\ Len(cmd) < LINE - 1 /\ LINE \in Nat
  BY MonitorAssumption DEF Corrected, Type
<1>3. CASE c # BS
  <2>1. cmd' = Append(cmd, c) /\ meant' = Append(meant, c)
    BY <1>3 DEF Type, Stored
  <2>2. cmd' \in Seq(Chars) /\ meant' \in Seq(Chars) /\ Len(cmd') = Len(cmd) + 1
    BY <1>1, <1>2, <2>1
  <2>3. cmd = <<BS>> \o meant => Append(cmd, c) = <<BS>> \o Append(meant, c)
    BY <1>1, <1>2
  <2> QED BY <1>1, <1>2, <2>1, <2>2, <2>3 DEF Corrected
<1>4. CASE c = BS
  <2>1. /\ cmd' = IF cmd = <<>> THEN <<BS>> ELSE Shorter(cmd)
        /\ meant' = IF meant = <<>> THEN <<>> ELSE Shorter(meant)
    <3>1. Type(c)
      OBVIOUS
    <3>2. cmd' = IF cmd # <<>> THEN Shorter(cmd) ELSE Append(cmd, c)
      BY <1>4, <3>1 DEF Type, Stored
    <3>3. meant' = IF meant = <<>> THEN <<>> ELSE Shorter(meant)
      BY <1>4, <3>1 DEF Type
    <3>4. cmd = <<>> => Append(cmd, c) = <<BS>>
      BY <1>1, <1>4
    <3> QED BY <3>2, <3>3, <3>4
  <2>2. ASSUME NEW s \in Seq(Chars), s # <<>>
        PROVE  /\ Shorter(s) \in Seq(Chars) /\ Len(Shorter(s)) = Len(s) - 1
               /\ \A i \in 1..(Len(s) - 1) : Shorter(s)[i] = s[i]
    <3> DEFINE n == Len(s) - 1
    <3>1. n \in Nat /\ n <= Len(s) /\ Len(s) \in Nat
      BY <2>2
    <3>2. Shorter(s) = [i \in 1..n |-> s[i]]
      BY <3>1 DEF Shorter
    <3>3. \A i \in 1..n : s[i] \in Chars
      BY <3>1
    <3> HIDE DEF n
    <3>4. Shorter(s) \in Seq(Chars) /\ Len(Shorter(s)) = n
      BY <3>1, <3>2, <3>3
    <3> QED BY <3>2, <3>4 DEF n
  <2>3. cmd' \in Seq(Chars) /\ Len(cmd') <= Len(cmd) + 1
    <3>1. CASE cmd = <<>>
      BY <1>1, <1>2, <2>1, <3>1
    <3>2. CASE cmd # <<>>
      BY <1>1, <1>2, <2>1, <2>2, <3>2
    <3> QED BY <3>1, <3>2
  <2>4. meant' \in Seq(Chars)
    BY <1>2, <2>1, <2>2
  <2>5. cmd' = meant' \/ cmd' = <<BS>> \o meant'
    <3>1. CASE cmd = meant
      <4>1. CASE cmd = <<>>
        BY <1>1, <2>1, <3>1, <4>1
      <4>2. CASE cmd # <<>>
        BY <2>1, <3>1, <4>2
      <4> QED BY <4>1, <4>2
    <3>2. CASE cmd = <<BS>> \o meant
      <4>1. cmd # <<>> /\ Len(cmd) = 1 + Len(meant)
            /\ \A i \in 1..Len(meant) : cmd[i + 1] = meant[i]
        BY <1>1, <1>2, <3>2
      <4>1a. cmd[1] = BS
        BY <1>1, <1>2, <3>2
      <4>2. CASE meant = <<>>
        <5>1. Shorter(cmd) = <<>>
          BY <1>1, <1>2, <2>2, <4>1, <4>2
        <5> QED BY <2>1, <4>1, <4>2, <5>1
      <4>3. CASE meant # <<>>
        <5> DEFINE t == Shorter(cmd)
                   u == Shorter(meant)
        <5>1. t \in Seq(Chars) /\ u \in Seq(Chars) /\ Len(t) = Len(meant) /\ Len(u) = Len(meant) - 1
          BY <1>1, <1>2, <2>2, <4>1, <4>3
        <5>2. Len(meant) >= 1
          BY <1>2, <4>3
        <5>3. t[1] = BS
          <6>1. 1 \in 1..(Len(cmd) - 1)
            BY <1>2, <4>1, <5>2
          <6>2. Shorter(cmd)[1] = cmd[1]
            BY <1>2, <2>2, <4>1, <6>1
          <6> QED BY <4>1a, <6>2
        <5>4. \A i \in 1..Len(u) : t[i + 1] = u[i]
          <6> SUFFICES ASSUME NEW i \in 1..Len(u) PROVE t[i + 1] = u[i]
            OBVIOUS
          <6>1. i + 1 \in 1..(Len(cmd) - 1) /\ i \in 1..(Len(meant) - 1) /\ i \in 1..Len(meant)
            BY <1>1, <4>1, <5>1
          <6>2. t[i + 1] = cmd[i + 1] /\ u[i] = meant[i]
            BY <1>2, <2>2, <4>1, <4>3, <6>1
          <6> QED BY <4>1, <6>1, <6>2
        <5> HIDE DEF t, u
        <5>5. t = <<BS>> \o u
          <6> DEFINE w == <<BS>> \o u
          <6>1. w \in Seq(Chars) /\ Len(w) = Len(t) /\ w[1] = BS
                /\ \A i \in 1..Len(u) : w[i + 1] = u[i]
            BY <1>1, <5>1
          <6>2. \A j \in 1..Len(t) : w[j] = t[j]
            <7> SUFFICES ASSUME NEW j \in 1..Len(t) PROVE w[j] = t[j]
              OBVIOUS
            <7> HIDE DEF w
            <7>1. CASE j = 1
              BY <5>3, <6>1, <7>1
            <7>2. CASE j # 1
              <8>1. j - 1 \in 1..Len(u) /\ (j - 1) + 1 = j
                BY <1>1, <5>1, <7>2
              <8> QED BY <5>4, <6>1, <8>1
            <7> QED BY <7>1, <7>2
          <6>3. Len(w) = Len(t) /\ t \in Seq(Chars) /\ w \in Seq(Chars)
            BY <5>1, <6>1
          <6> HIDE DEF w
          <6>4. w = t
            BY <6>2, <6>3, SeqEqual
          <6> QED BY <6>4 DEF w
        <5> QED BY <2>1, <4>1, <4>3, <5>5 DEF t, u
      <4> QED BY <4>2, <4>3
    <3> QED BY <3>1, <3>2 DEF Corrected
  <2> QED BY <1>1, <1>2, <2>3, <2>4, <2>5 DEF Corrected
<1> QED BY <1>3, <1>4

(* The line is read: its first number is the address of the first word.     *)
LEMMA EnterDumps ==
  ASSUME MonitorInv, Enter PROVE MonitorInv'
<1>1. Corrected'
  BY DEF MonitorInv, Corrected, Enter
<1>2. cmd \in Seq(Chars) /\ cmd' = cmd
  BY DEF MonitorInv, Corrected, Enter
<1> DEFINE first == parsenum(cmd, 2)
           second == parsenum(cmd, first.next)
<1>3. CASE cmd # <<>> /\ cmd[1] = 109
  <2>1. 2 \in 1..(Len(cmd) + 1)
    BY <1>2, <1>3
  <2>2. first \in Readings(cmd)
    <3> DEFINE two == 2
    <3>1. two \in 1..(Len(cmd) + 1)
      BY <2>1
    <3> HIDE DEF two
    <3>2. parsenum(cmd, two) \in Readings(cmd)
      BY <1>2, <3>1, parsenumIs
    <3> QED BY <3>2 DEF two
  <2>3. dump' = [addr |-> first.value, i |-> 0, text |-> <<>>, mlen |-> Signed(second.value)]
    BY <1>3 DEF Enter
  <2> HIDE DEF first
  <2>4. first.next \in 1..(Len(cmd) + 1) /\ first.value \in Value
    BY <2>2 DEF Readings
  <2>5. second \in Readings(cmd)
    BY <1>2, <2>4, parsenumIs
  <2> HIDE DEF second
  <2>6. second.value \in Value
    BY <2>5 DEF Readings
  <2>7. Signed(second.value) \in Int
    <3> DEFINE v == second.value
               h == Word32 \div 2
    <3>0. v \in Value
      BY <2>6
    <3>1. v \in Int /\ Word32 \in Int
      <4> HIDE DEF v, h
      <4> QED BY <3>0, WordType
    <3>2. \A x : Signed(x) = IF x >= h THEN x - Word32 ELSE x
      BY DEF Signed
    <3> HIDE DEF v, h
    <3>3. Signed(v) \in Int
      BY <3>1, <3>2
    <3> QED BY <3>3 DEF v
  <2> QED BY <1>1, <1>2, <2>3, <2>4, <2>7 DEF MonitorInv, Dumped, first
<1>4. CASE ~(cmd # <<>> /\ cmd[1] = 109)
  <2>1. dump' = [addr |-> 0, mlen |-> 0, i |-> 0, text |-> <<>>]
    BY <1>4 DEF Enter
  <2> QED BY <1>1, <1>2, <1>4, <2>1, WordType DEF MonitorInv, Dumped
<1> QED BY <1>3, <1>4

(* A line of memory is shown with its address.                              *)
LEMMA ShowLineDumps ==
  ASSUME MonitorInv, ShowLine PROVE MonitorInv'
<1>1. Corrected'
  BY DEF MonitorInv, Corrected, ShowLine
<1> DEFINE a == dump.addr
           b == (a + 32) % Word32
<1>2. a \in Value /\ dump.mlen \in Int /\ dump.i \in Nat
  BY DEF MonitorInv, Dumped
<1>3. b \in Value
  <2> DEFINE c == a + 32
  <2>1. c \in Int
    <3> HIDE DEF a
    <3>1. a \in Int
      BY <1>2, WordType
    <3> QED BY <3>1
  <2> HIDE DEF c
  <2>2. c % Word32 \in 0..(Word32 - 1)
    BY <2>1, WordType, Remainder
  <2> QED BY <2>2 DEF c, Value
<1>4. dump' = [addr |-> b, mlen |-> dump.mlen, i |-> dump.i + 8, text |-> Shown(a)]
  BY DEF MonitorInv, Dumped, ShowLine, Shown
<1>5. dump' \in [addr : Value, mlen : Int, i : Nat, text : {<<>>} \cup {Shown(x) : x \in Value}]
  <2> HIDE DEF b
  <2> QED BY <1>2, <1>3, <1>4
<1>6. dump'.text = Shown(a) /\ dump'.addr = b /\ dump'.i # 0
  <2> HIDE DEF b
  <2> QED BY <1>2, <1>4
<1>7. dump'.text # <<>> => \E x \in Value : dump'.text = Shown(x) /\ dump'.addr = (x + 32) % Word32
  BY <1>2, <1>6
<1> QED BY <1>1, <1>5, <1>6, <1>7 DEF MonitorInv, Dumped

(* Every step keeps the line and the dump as they are described.            *)
LEMMA NextMonitored == MonitorInv /\ [MonitorNext]_monitorVars => MonitorInv'
<1> SUFFICES ASSUME MonitorInv, [MonitorNext]_monitorVars PROVE MonitorInv'
  OBVIOUS
<1>1. ASSUME NEW c \in Keys, Type(c) PROVE MonitorInv'
  <2>1. Corrected'
    BY <1>1, TypeCorrects DEF MonitorInv
  <2>2. Dumped'
    BY <1>1 DEF MonitorInv, Dumped, Type
  <2> QED BY <2>1, <2>2 DEF MonitorInv
<1>2. CASE Enter
  BY <1>2, EnterDumps
<1>3. CASE ShowLine
  BY <1>3, ShowLineDumps
<1>4. CASE Prompt
  <2>1. Corrected'
    BY <1>4, MonitorAssumption DEF Prompt, Corrected
  <2>2. Dumped'
    BY <1>4, WordType DEF Prompt, Dumped
  <2> QED BY <2>1, <2>2 DEF MonitorInv
<1>5. CASE UNCHANGED monitorVars
  BY <1>5 DEF MonitorInv, Corrected, Dumped, monitorVars
<1> QED BY <1>1, <1>2, <1>3, <1>4, <1>5 DEF MonitorNext

(* With the address as it is shown and the line as it was corrected,        *)
(* numbers mean what they say.                                              *)
LEMMA MonitoredReads == MonitorInv => NumbersReadBack
<1> SUFFICES ASSUME MonitorInv PROVE NumbersReadBack
  OBVIOUS
<1>1. dump.text # <<>> => /\ (parsenum(dump.text, 1).value + 32) % Word32 = dump.addr
                          /\ Len(dump.text) = 2 + WordDigits
  <2> SUFFICES ASSUME dump.text # <<>>
               PROVE  /\ (parsenum(dump.text, 1).value + 32) % Word32 = dump.addr
                      /\ Len(dump.text) = 2 + WordDigits
    OBVIOUS
  <2>1. PICK a \in Value : dump.text = Shown(a) /\ dump.addr = (a + 32) % Word32
    BY DEF MonitorInv, Dumped
  <2>2. parsenum(Shown(a), 1).value = a /\ Len(Shown(a)) = 2 + WordDigits
    BY ShownIsRead DEF Shown
  <2> QED BY <2>1, <2>2
<1>2. Len(cmd) < LINE
  BY DEF MonitorInv, Corrected
<1>3. ASSUME ~typing, cmd = <<>> \/ cmd[1] # BS, dump.i = 0
      PROVE  /\ cmd = meant
             /\ \A k \in 2..Len(meant) :
                  /\ meant[1] = 109
                  /\ \A j \in 2..k : meant[j] \in Zero..57
                  /\ k = Len(meant) \/ meant[k + 1] = Space
                  => dump.addr = Meaning(meant, 2, k, 10) % Word32
  <2>1. cmd \in Seq(Chars) /\ meant \in Seq(Chars)
    BY DEF MonitorInv, Corrected
  <2>2. cmd # <<BS>> \o meant
    <3>1. BS \in Chars
      BY DEF BS, Chars
    <3> HIDE DEF BS
    <3>2. <<BS>> \o meant # <<>> /\ (<<BS>> \o meant)[1] = BS
      BY <2>1, <3>1
    <3> QED BY <1>3, <3>2
  <2>3. cmd = meant
    BY <2>2 DEF MonitorInv, Corrected
  <2>4. ASSUME NEW k \in 2..Len(meant), meant[1] = 109,
               \A j \in 2..k : meant[j] \in Zero..57,
               k = Len(meant) \/ meant[k + 1] = Space
        PROVE  dump.addr = Meaning(meant, 2, k, 10) % Word32
    <3>1. Decimal(meant, k)
      BY <2>4 DEF Decimal
    <3>2. parsenum(meant, 2).value = Meaning(meant, 2, k, 10) % Word32
      BY <2>1, <3>1, DecimalIsRead
    <3>3. cmd # <<>> /\ cmd[1] = 109
      BY <2>1, <2>3, <2>4
    <3>4. dump.addr = parsenum(cmd, 2).value
      BY <1>3, <3>3 DEF MonitorInv, Dumped
    <3> QED BY <2>3, <3>2, <3>4
  <2> QED BY <2>3, <2>4
<1> QED BY <1>1, <1>2, <1>3 DEF NumbersReadBack

(* lib/debugmon.c on lib/debug.c: an address that is shown reads back as    *)
(* itself, the command is the line as the user corrected it, and a decimal  *)
(* number in it means what its digits say, modulo the width of a word.      *)
THEOREM MonitorSound == MonitorSpec => []NumbersReadBack
<1> QED
  BY InitMonitored, NextMonitored, MonitoredReads, PTL DEF MonitorSpec

-----------------------------------------------------------------------------
(* Library runs each part as it is specified: what is proved of a part      *)
(* holds in the runs of Library, with the boxes and the memory only where   *)
(* they are used.                                                           *)
THEOREM PartsRun == LibSpec => /\ Spec /\ IrqSpec /\ DrawSpec /\ WaveSpec /\ MonitorSpec
                               /\ unit = "fills" => FillSpec
                               /\ unit = "memory_map" => MapSpec
                               /\ unit = "boot_map" => BootSpec
<1>1. LibInit => /\ Init /\ IrqInit /\ graphics_init /\ SweepInit /\ MonitorInit
                 /\ \E t \in Tones : NoteInit(t)
                 /\ unit = "fills" => \E b \in Boxes : FillInit(b)
                 /\ unit = "memory_map" => \E c \in Sdrc : MapInit(c)
                 /\ unit = "boot_map" => \E k \in Kernels : BootInit(k)
  <2>1. (CHOOSE x \in Tones : TRUE) \in Tones
    BY TonesAssumption
  <2>2. Inputs("note", Tones) \subseteq Tones
    BY <2>1 DEF Inputs
  <2>3. /\ unit = "fills" => Inputs("fills", Boxes) = Boxes
        /\ unit = "memory_map" => Inputs("memory_map", Sdrc) = Sdrc
        /\ unit = "boot_map" => Inputs("boot_map", Kernels) = Kernels
    BY DEF Inputs
  <2> QED
    BY <2>2, <2>3 DEF LibInit
<1>2. [LibNext]_libVars => [Next]_vars
  BY DEF LibNext, libVars, listVars, NotIrq, NotDraw, NotFills, NotWaves, NotMap, NotBoot,
         NotMonitor
<1>3. [LibNext]_libVars => [IrqNext]_irqVars
  BY DEF LibNext, libVars, NotLists, NotDraw, NotFills, NotWaves, NotMap, NotBoot, NotMonitor
<1>4. [LibNext]_libVars => [DrawNext]_drawVars
  BY DEF LibNext, libVars, NotLists, NotIrq, NotFills, NotWaves, NotMap, NotBoot, NotMonitor
<1>5. [LibNext]_libVars => [Sounds]_waveVars
  BY DEF LibNext, libVars, Sounds, NotLists, NotIrq, NotDraw, NotFills, NotMap, NotBoot, NotMonitor
<1>6. [LibNext]_libVars => [FillNext]_fillVars
  BY DEF LibNext, libVars, NotLists, NotIrq, NotDraw, NotWaves, NotMap, NotBoot, NotMonitor
<1>7. [LibNext]_libVars => [MapNext]_mapVars
  BY DEF LibNext, libVars, NotLists, NotIrq, NotDraw, NotFills, NotWaves, NotBoot, NotMonitor
<1>8. [LibNext]_libVars => [MapPage]_bootVars
  BY DEF LibNext, libVars, NotLists, NotIrq, NotDraw, NotFills, NotWaves, NotMap, NotMonitor
<1>9. [LibNext]_libVars => [MonitorNext]_monitorVars
  BY DEF LibNext, libVars, NotLists, NotIrq, NotDraw, NotFills, NotWaves, NotMap, NotBoot
<1> QED
  BY <1>1, <1>2, <1>3, <1>4, <1>5, <1>6, <1>7, <1>8, <1>9, PTL
     DEF LibSpec, Spec, IrqSpec, DrawSpec, WaveSpec, FillSpec, MapSpec, BootSpec, MonitorSpec
=============================================================================
