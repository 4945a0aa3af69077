------------------------- MODULE ArchiveItemsProofs -------------------------
(***************************************************************************)
(* What holds of indexes of any length: the blocks they take up, item by   *)
(* item.  Blocks is defined by recursion over the index.  Induction is     *)
(* over sets of natural numbers, by way of the least number of a set.      *)
(***************************************************************************)
EXTENDS ArchiveItems, WellFoundedInduction, TLAPS

-----------------------------------------------------------------------------
(* Induction.                                                              *)

\* Every set of natural numbers has a least one.
LEMMA LeastNat ==
    ASSUME NEW S \in SUBSET Nat, S # {}
    PROVE  \E m \in S : \A k \in S : m <= k
<1> DEFINE less == OpToRel(<, Nat)
<1>1. IsWellFoundedOn(less, Nat)
  BY NatLessThanWellFounded, Zenon
<1>2. \A x, y \in Nat : x < y => <<x, y>> \in less
  BY DEF OpToRel
<1> HIDE DEF less
<1>3. PICK m \in S : \A k \in S : ~(<<k, m>> \in less)
  BY <1>1, WFMin
<1>4. ASSUME NEW k \in S PROVE m <= k
  <2>1. m \in Nat /\ k \in Nat /\ ~(k < m)
    BY <1>2, <1>3
  <2>2. QED
    BY <2>1
<1>5. QED
  BY <1>4

\* Induction over the natural numbers, for a set.
LEMMA SetInduction ==
    ASSUME NEW S \in SUBSET Nat, 0 \in S, \A n \in Nat : n \in S => n + 1 \in S
    PROVE  S = Nat
<1> SUFFICES ASSUME Nat \ S # {} PROVE FALSE
  OBVIOUS
<1>1. PICK m \in Nat \ S : \A k \in Nat \ S : m <= k
  BY LeastNat
<1>2. m # 0
  OBVIOUS
<1>3. m - 1 \in Nat /\ ~(m <= m - 1)
  BY <1>2
<1>4. m - 1 \in S
  BY <1>1, <1>3
<1>5. QED
  BY <1>3, <1>4

-----------------------------------------------------------------------------
(* Sums of blocks.                                                         *)

\* Sizes rounded up to blocks are natural numbers, and no less than the sizes.
LEMMA BlockCeilBounds == \A s \in Nat : BlockCeil(s) \in Nat /\ BlockCeil(s) >= s
<1> SUFFICES ASSUME NEW s \in Nat PROVE BlockCeil(s) \in Nat /\ BlockCeil(s) >= s
  OBVIOUS
<1> DEFINE x == s + Block - 1
<1>1. Block \in Nat /\ Block > 0 /\ x \in Nat /\ x >= Block - 1
  BY BlockAssumption
<1>2. x % Block \in 0..(Block - 1)
  BY <1>1
<1>3. x - (x % Block) \in Nat /\ x - (x % Block) >= s
  BY <1>1, <1>2
<1>4. QED
  BY <1>3 DEF BlockCeil

\* The blocks of item n.
Term(lst, n) == IF lst[n].type = "dataObj" THEN BlockCeil(lst[n].size) ELSE 0

\* f[n] is the sum of the blocks of the first n items, for n up to m.
IsSum(f, lst, m) ==
    /\ f \in [0..m -> Nat]
    /\ f[0] = 0
    /\ \A n \in 1..m : f[n] = f[n - 1] + Term(lst, n)

\* Two indexes have the same first m items.
SameStart(lst, lst2, m) == \A k \in 1..m : lst[k] = lst2[k]

\* The blocks of an item are a number.
LEMMA TermNat ==
    ASSUME NEW lst \in Seq(Item), NEW n \in 1..Len(lst)
    PROVE  Term(lst, n) \in Nat
<1>1. lst[n] \in Item
  OBVIOUS
<1>2. lst[n].size \in Nat
  BY <1>1 DEF Item
<1>3. QED
  BY <1>2, BlockCeilBounds DEF Term

\* There are such sums.
LEMMA SumExists ==
    ASSUME NEW lst \in Seq(Item), NEW m \in 0..Len(lst)
    PROVE  \E f : IsSum(f, lst, m)
<1> DEFINE S == {k \in Nat : k <= Len(lst) => \E f : IsSum(f, lst, k)}
<1>1. Len(lst) \in Nat
  OBVIOUS
<1>2. 0 \in S
  <2>1. IsSum([j \in 0..0 |-> 0], lst, 0)
    BY DEF IsSum
  <2>2. QED
    BY <2>1
<1>3. ASSUME NEW k \in Nat, k \in S PROVE k + 1 \in S
  <2> SUFFICES ASSUME k + 1 <= Len(lst) PROVE \E f : IsSum(f, lst, k + 1)
    OBVIOUS
  <2>1. PICK f : IsSum(f, lst, k)
    BY <1>1, <1>3
  <2> DEFINE t == Term(lst, k + 1)
             g == [j \in 0..(k + 1) |-> IF j = k + 1 THEN f[k] + t ELSE f[j]]
  <2>2. t \in Nat
    BY <1>1, TermNat
  <2>3. f \in [0..k -> Nat] /\ f[0] = 0 /\ \A n \in 1..k : f[n] = f[n - 1] + Term(lst, n)
    BY <2>1 DEF IsSum
  <2>4. g \in [0..(k + 1) -> Nat] /\ g[0] = 0
    <3> HIDE DEF t
    <3>1. QED
      BY <2>2, <2>3
  <2>5. ASSUME NEW n \in 1..(k + 1) PROVE g[n] = g[n - 1] + Term(lst, n)
    <3>1. CASE n = k + 1
      BY <3>1, <2>3
    <3>2. CASE n # k + 1
      <4>1. n \in 1..k /\ n - 1 \in 0..(k + 1) /\ n - 1 # k + 1 /\ n \in 0..(k + 1)
        BY <3>2
      <4>2. QED
        BY <4>1, <3>2, <2>3
    <3>3. QED
      BY <3>1, <3>2
  <2>6. IsSum(g, lst, k + 1)
    BY <2>4, <2>5 DEF IsSum
  <2>7. QED
    BY <2>6
<1> HIDE DEF S
<1>4. S = Nat
  <2>1. S \in SUBSET Nat
    BY DEF S
  <2>2. QED
    BY <1>2, <1>3, <2>1, SetInduction
<1>5. QED
  BY <1>1, <1>4 DEF S

\* Sums over indexes that begin in the same way agree.
LEMMA SumsAgree ==
    ASSUME NEW lst, NEW lst2, NEW m \in Nat, NEW m2 \in Nat, NEW f, NEW g,
           IsSum(f, lst, m), IsSum(g, lst2, m2), m <= m2,
           SameStart(lst, lst2, m)
    PROVE  \A k \in 0..m : f[k] = g[k]
<1> DEFINE S == {k \in Nat : k <= m => f[k] = g[k]}
<1>1. 0 \in S
  BY DEF IsSum
<1>2. ASSUME NEW k \in Nat, k \in S PROVE k + 1 \in S
  <2> SUFFICES ASSUME k + 1 <= m PROVE f[k + 1] = g[k + 1]
    OBVIOUS
  <2>1. f[k] = g[k]
    BY <1>2
  <2>2. k + 1 \in 1..m /\ k + 1 \in 1..m2 /\ (k + 1) - 1 = k
    OBVIOUS
  <2>3. f[k + 1] = f[k] + Term(lst, k + 1) /\ g[k + 1] = g[k] + Term(lst2, k + 1)
    BY <2>2 DEF IsSum
  <2>4. Term(lst, k + 1) = Term(lst2, k + 1)
    BY <2>2 DEF Term, SameStart
  <2>5. QED
    BY <2>1, <2>3, <2>4
<1> HIDE DEF S
<1>3. S = Nat
  <2>1. S \in SUBSET Nat
    BY DEF S
  <2>2. QED
    BY <1>1, <1>2, <2>1, SetInduction
<1>4. QED
  BY <1>3 DEF S

\* A function that satisfies the recursion of Blocks is a sum.
LEMMA RecursionIsSum ==
    ASSUME NEW lst \in Seq(Item), NEW f,
           f = [n \in 0..Len(lst) |-> IF n = 0 THEN 0 ELSE f[n - 1] + Term(lst, n)]
    PROVE  IsSum(f, lst, Len(lst))
<1> DEFINE N == Len(lst)
           S == {k \in Nat : k <= N => f[k] \in Nat}
<1>1. N \in Nat
  OBVIOUS
<1>2. /\ \A n \in 0..N : f[n] = IF n = 0 THEN 0 ELSE f[n - 1] + Term(lst, n)
      /\ DOMAIN f = 0..N /\ f = [n \in 0..N |-> f[n]]
  BY Zenon
<1>3. f[0] = 0
  BY <1>1, <1>2
<1>4. \A n \in 1..N : f[n] = f[n - 1] + Term(lst, n)
  <2> SUFFICES ASSUME NEW n \in 1..N PROVE f[n] = f[n - 1] + Term(lst, n)
    OBVIOUS
  <2>1. n \in 0..N /\ n # 0
    BY <1>1
  <2> HIDE DEF N
  <2>2. QED
    BY <1>2, <2>1
<1> HIDE DEF N
<1>5. 0 \in S
  BY <1>3
<1>6. ASSUME NEW k \in Nat, k \in S PROVE k + 1 \in S
  <2> SUFFICES ASSUME k + 1 <= N PROVE f[k + 1] \in Nat
    OBVIOUS
  <2>1. f[k] \in Nat
    BY <1>1, <1>6
  <2>2. k + 1 \in 1..N /\ (k + 1) - 1 = k
    BY <1>1
  <2>3. Term(lst, k + 1) \in Nat
    BY <2>2, TermNat DEF N
  <2>4. f[k + 1] = f[k] + Term(lst, k + 1)
    BY <1>4, <2>2
  <2>5. QED
    BY <2>1, <2>3, <2>4
<1> HIDE DEF S
<1>7. S = Nat
  <2>1. S \in SUBSET Nat
    BY DEF S
  <2>2. QED
    BY <1>5, <1>6, <2>1, SetInduction
<1>8. ASSUME NEW n \in 0..N PROVE f[n] \in Nat
  <2>1. n \in Nat /\ n <= N
    BY <1>1
  <2>2. n \in S
    BY <1>7, <2>1
  <2>3. QED
    BY <2>1, <2>2 DEF S
<1>9. f \in [0..N -> Nat]
  BY <1>2, <1>8
<1>10. QED
  BY <1>3, <1>4, <1>9 DEF IsSum, N

\* Blocks adds up the blocks of all items.
LEMMA BlocksOfSum ==
    ASSUME NEW lst \in Seq(Item), NEW f, IsSum(f, lst, Len(lst))
    PROVE  Blocks(lst) = f[Len(lst)]
<1> DEFINE N == Len(lst)
           Rec(h) == h = [n \in 0..N |-> IF n = 0 THEN 0 ELSE h[n - 1] + Term(lst, n)]
           sum == CHOOSE h : Rec(h)
<1>1. N \in Nat
  OBVIOUS
<1>2. Rec(f)
  <2>1. \A n \in 0..N : f[n] = IF n = 0 THEN 0 ELSE f[n - 1] + Term(lst, n)
    BY <1>1 DEF IsSum
  <2>2. f = [n \in 0..N |-> f[n]]
    BY DEF IsSum
  <2> HIDE DEF N
  <2>3. QED
    BY <2>1, <2>2, Zenon
<1>3. Rec(sum)
  BY <1>2, Zenon
<1>4. Blocks(lst) = sum[N]
  BY DEF Blocks, Term
<1>5. IsSum(sum, lst, N)
  BY <1>3, RecursionIsSum
<1>6. \A k \in 0..N : f[k] = sum[k]
  BY <1>1, <1>5, SumsAgree DEF SameStart
<1>7. QED
  BY <1>1, <1>4, <1>6

\* An index takes up a number of blocks, and no first part of it takes up more.
LEMMA BlocksOfPart ==
    ASSUME NEW lst \in Seq(Item), NEW n \in 0..Len(lst)
    PROVE  /\ Blocks(lst) \in Nat
           /\ Blocks(SubSeq(lst, 1, n)) <= Blocks(lst)
<1> DEFINE part == SubSeq(lst, 1, n)
<1>1. Len(lst) \in Nat /\ n \in Nat /\ n <= Len(lst)
  OBVIOUS
<1>2. /\ part \in Seq(Item) /\ Len(part) = n
      /\ \A k \in 1..n : part[k] = lst[k]
  BY <1>1
<1>3. PICK f : IsSum(f, lst, Len(lst))
  BY <1>1, SumExists
<1> HIDE DEF part
<1>4. PICK g : IsSum(g, part, n)
  <2>1. n \in 0..Len(part)
    BY <1>1, <1>2
  <2>2. QED
    BY <1>2, <2>1, SumExists
<1>5. Blocks(lst) = f[Len(lst)] /\ Blocks(part) = g[n]
  BY <1>2, <1>3, <1>4, BlocksOfSum
<1>6. g[n] = f[n]
  <2>1. SameStart(part, lst, n)
    BY <1>2 DEF SameStart
  <2>2. QED
    BY <1>1, <1>3, <1>4, <2>1, SumsAgree
<1>7. f[n] <= f[Len(lst)]
  <2> DEFINE S == {k \in Nat : n + k <= Len(lst) => f[n] <= f[n + k]}
  <2>1. 0 \in S
    BY <1>1, <1>3 DEF IsSum
  <2>2. ASSUME NEW k \in Nat, k \in S PROVE k + 1 \in S
    <3> SUFFICES ASSUME n + (k + 1) <= Len(lst) PROVE f[n] <= f[n + (k + 1)]
      OBVIOUS
    <3> DEFINE j == n + k
    <3>1. j \in Nat /\ j + 1 \in 1..Len(lst) /\ (j + 1) - 1 = j /\ j \in 0..Len(lst) /\ n \in 0..Len(lst)
      BY <1>1
    <3>2. f[n] <= f[j]
      BY <1>1, <2>2
    <3>3. Term(lst, j + 1) \in Nat
      BY <3>1, TermNat
    <3>4. f[j + 1] = f[j] + Term(lst, j + 1) /\ f[j] \in Nat /\ f[n] \in Nat
      BY <1>3, <3>1 DEF IsSum
    <3>5. f[n] <= f[j + 1]
      BY <3>2, <3>3, <3>4
    <3>6. n + (k + 1) = j + 1
      BY <1>1
    <3>7. QED
      BY <3>5, <3>6
  <2> HIDE DEF S
  <2>3. S = Nat
    <3>1. S \in SUBSET Nat
      BY DEF S
    <3>2. QED
      BY <2>1, <2>2, <3>1, SetInduction
  <2>4. Len(lst) - n \in Nat /\ n + (Len(lst) - n) = Len(lst)
    BY <1>1
  <2>5. Len(lst) - n \in S
    BY <2>3, <2>4
  <2>6. QED
    BY <1>1, <2>4, <2>5 DEF S
<1>8. f[Len(lst)] \in Nat
  BY <1>1, <1>3 DEF IsSum
<1>9. QED
  BY <1>5, <1>6, <1>7, <1>8 DEF part

\* An index without items takes up nothing.
LEMMA BlocksOfEmpty == Blocks(<<>>) = 0
<1>1. <<>> \in Seq(Item) /\ Len(<<>>) = 0
  OBVIOUS
<1>2. IsSum([j \in 0..0 |-> 0], <<>>, 0)
  BY DEF IsSum
<1>3. QED
  BY <1>1, <1>2, BlocksOfSum

\* What addColl and addDataObj add to dataSize is what their items take up.
LEMMA BlocksOfAppend ==
    ASSUME NEW lst \in Seq(Item), NEW e \in Item
    PROVE  Blocks(Append(lst, e)) =
              Blocks(lst) + (IF e.type = "dataObj" THEN BlockCeil(e.size) ELSE 0)
<1> DEFINE new == Append(lst, e)
           N == Len(lst)
<1>1. /\ N \in Nat /\ new \in Seq(Item) /\ Len(new) = N + 1 /\ new[N + 1] = e
      /\ \A k \in 1..N : lst[k] = new[k]
  OBVIOUS
<1>2. PICK f : IsSum(f, lst, N)
  BY <1>1, SumExists
<1> HIDE DEF new
<1>3. PICK g : IsSum(g, new, N + 1)
  <2>1. N + 1 \in 0..Len(new)
    BY <1>1
  <2>2. QED
    BY <1>1, <2>1, SumExists
<1>4. Blocks(lst) = f[N] /\ Blocks(new) = g[N + 1]
  BY <1>1, <1>2, <1>3, BlocksOfSum
<1>5. f[N] = g[N]
  <2> DEFINE M == N + 1
  <2>1. N \in Nat /\ M \in Nat /\ N <= M /\ N \in 0..N
    BY <1>1
  <2>2. IsSum(g, new, M) /\ SameStart(lst, new, N)
    BY <1>1, <1>3 DEF SameStart
  <2> HIDE DEF N, M
  <2>3. \A k \in 0..N : f[k] = g[k]
    BY <1>2, <2>1, <2>2, SumsAgree
  <2>4. QED
    BY <2>1, <2>3
<1>6. N + 1 \in 1..(N + 1) /\ (N + 1) - 1 = N
  BY <1>1
<1>7. g[N + 1] = g[N] + Term(new, N + 1)
  BY <1>3, <1>6 DEF IsSum
<1>8. Term(new, N + 1) = IF e.type = "dataObj" THEN BlockCeil(e.size) ELSE 0
  BY <1>1 DEF Term
<1>9. QED
  BY <1>4, <1>5, <1>7, <1>8 DEF new
=============================================================================
