--------------------------- MODULE JsonOpsProofs ---------------------------
(***************************************************************************)
(* Proofs about msi_json_arrayops and msi_json_objops, for documents,      *)
(* texts and pairs of any kind and number.                                 *)
(***************************************************************************)
EXTENDS JsonOps, SequenceTheorems, WellFoundedInduction, TLAPS

-----------------------------------------------------------------------------
(* Sequences.                                                              *)

\* Every set of natural numbers has a least one.
LEMMA LeastNat ==
    ASSUME NEW S \in SUBSET Nat, S # {}
    PROVE  \E m \in S : \A k \in S : m <= k
<1> DEFINE less == OpToRel(<, Nat)
<1>1. IsWellFoundedOn(less, Nat)
  BY NatLessThanWellFounded, Zenon
<1>2. \A x, y \in Nat : x < y => <<x, y>> \in less
  BY DEF OpToRel
<1> HIDE DEF less
<1>3. PICK m \in S : \A k \in S : ~(<<k, m>> \in less)
  BY <1>1, WFMin
<1>4. ASSUME NEW k \in S PROVE m <= k
  <2>1. m \in Nat /\ k \in Nat /\ ~(k < m)
    BY <1>2, <1>3
  <2>2. QED
    BY <2>1
<1>5. QED
  BY <1>4

\* Induction over the natural numbers, for a set.
LEMMA SetInduction ==
    ASSUME NEW S \in SUBSET Nat, 0 \in S, \A n \in Nat : n \in S => n + 1 \in S
    PROVE  S = Nat
<1> SUFFICES ASSUME Nat \ S # {} PROVE FALSE
  OBVIOUS
<1>1. PICK m \in Nat \ S : \A k \in Nat \ S : m <= k
  BY LeastNat
<1>2. m # 0
  OBVIOUS
<1>3. m - 1 \in Nat /\ ~(m <= m - 1)
  BY <1>2
<1>4. m - 1 \in S
  BY <1>1, <1>3
<1>5. QED
  BY <1>3, <1>4

IsSeq(s) == s \in Seq(ToSet(s))

\* A sequence has a length, and its domain goes up to it.
LEMMA SeqFacts ==
    ASSUME NEW s, IsSeq(s)
    PROVE  Len(s) \in Nat /\ DOMAIN s = 1..Len(s)
BY LenProperties DEF IsSeq

\* The empty one is a sequence, and so is one over any set.
LEMMA SeqIsSeq ==
    ASSUME NEW S, NEW s \in Seq(S)
    PROVE  IsSeq(s)
<1>1. Len(s) \in Nat /\ DOMAIN s = 1..Len(s) /\ s \in [1..Len(s) -> S]
  BY LenProperties
<1>2. s \in [1..Len(s) -> ToSet(s)]
  BY <1>1 DEF ToSet
<1>3. QED
  BY <1>1, <1>2 DEF IsSeq

\* FirstMatch gives the least index of an element, and the size for none.
LEMMA FirstMatchIs ==
    ASSUME NEW s, NEW v, IsSeq(s)
    PROVE  /\ FirstMatch(s, v) \in 0..Len(s)
           /\ FirstMatch(s, v) < Len(s) => s[FirstMatch(s, v) + 1] = v
           /\ \A i \in 1..Len(s) : s[i] = v => FirstMatch(s, v) <= i - 1
<1> DEFINE I == {i \in 1..Len(s) : s[i] = v}
           k == IF I # {} THEN Min(I) ELSE 0
<1>1. Len(s) \in Nat
  BY SeqFacts
<1>2. FirstMatch(s, v) = IF k = 0 THEN Len(s) ELSE k - 1
  BY DEF FirstMatch, SelectInSeq
<1>3. CASE I = {}
  BY <1>1, <1>2, <1>3
<1>4. CASE I # {}
  <2>1. \E m \in I : \A j \in I : m <= j
    <3>1. I \in SUBSET Nat
      BY <1>1
    <3> HIDE DEF I
    <3>2. QED
      BY <3>1, <1>4, LeastNat
  <2>2. Min(I) \in I /\ \A j \in I : Min(I) <= j
    <3> HIDE DEF I
    <3>1. QED
      BY <2>1 DEF Min
  <2>3. k \in I /\ \A j \in I : k <= j
    BY <2>2, <1>4
  <2>4. k \in 1..Len(s) /\ s[k] = v
    BY <2>3
  <2> HIDE DEF k
  <2>5. FirstMatch(s, v) = k - 1
    BY <1>1, <1>2, <2>4
  <2>6. FirstMatch(s, v) \in 0..Len(s) /\ FirstMatch(s, v) + 1 = k
    BY <1>1, <2>4, <2>5
  <2>7. ASSUME NEW i \in 1..Len(s), s[i] = v PROVE FirstMatch(s, v) <= i - 1
    <3>1. k <= i
      BY <2>3, <2>7
    <3>2. QED
      BY <1>1, <2>4, <2>5, <3>1
  <2>8. QED
    BY <2>4, <2>6, <2>7
<1>5. QED
  BY <1>3, <1>4

\* RemoveAt takes one element out and moves the later ones up.
LEMMA RemoveAtIs ==
    ASSUME NEW s, IsSeq(s), NEW k \in 1..Len(s)
    PROVE  /\ IsSeq(RemoveAt(s, k))
           /\ Len(RemoveAt(s, k)) = Len(s) - 1
           /\ \A i \in 1..(Len(s) - 1) :
                 RemoveAt(s, k)[i] = IF i < k THEN s[i] ELSE s[i + 1]
<1> DEFINE S == ToSet(s)
           a == SubSeq(s, 1, k - 1)
           b == SubSeq(s, k + 1, Len(s))
<1>1. Len(s) \in Nat /\ DOMAIN s = 1..Len(s) /\ k \in Int
  BY SeqFacts
<1>2. \A i \in 1..Len(s) : s[i] \in S
  BY <1>1 DEF ToSet
<1>3. /\ a \in Seq(S) /\ Len(a) = k - 1
      /\ \A i \in 1..(k - 1) : a[i] = s[i]
  <2>1. 1 \in Int /\ k - 1 \in Int /\ \A i \in 1..(k - 1) : s[i] \in S
    BY <1>1, <1>2
  <2>2. /\ a \in Seq(S)
        /\ Len(a) = IF 1 <= k - 1 THEN (k - 1) - 1 + 1 ELSE 0
        /\ \A i \in 1..((k - 1) - 1 + 1) : a[i] = s[1 + i - 1]
    <3> HIDE DEF S
    <3>1. QED
      BY <2>1, SubSeqProperties
  <2> HIDE DEF a
  <2>3. QED
    BY <1>1, <2>2
<1>4. /\ b \in Seq(S) /\ Len(b) = Len(s) - k
      /\ \A i \in 1..(Len(s) - k) : b[i] = s[k + i]
  <2>1. k + 1 \in Int /\ Len(s) \in Int /\ \A i \in (k + 1)..Len(s) : s[i] \in S
    BY <1>1, <1>2
  <2>2. /\ b \in Seq(S)
        /\ Len(b) = IF k + 1 <= Len(s) THEN Len(s) - (k + 1) + 1 ELSE 0
        /\ \A i \in 1..(Len(s) - (k + 1) + 1) : b[i] = s[(k + 1) + i - 1]
    <3> HIDE DEF S
    <3>1. QED
      BY <2>1, SubSeqProperties
  <2> HIDE DEF b
  <2>3. Len(b) = Len(s) - k
    <3>1. Len(b) = IF k + 1 <= Len(s) THEN Len(s) - (k + 1) + 1 ELSE 0
      BY <2>2
    <3>2. k <= Len(s) /\ Len(s) \in Int
      BY <1>1
    <3>3. \A x \in Int : k <= x =>
             (IF k + 1 <= x THEN x - (k + 1) + 1 ELSE 0) = x - k
      BY <1>1
    <3>4. QED
      BY <3>1, <3>2, <3>3
  <2>4. ASSUME NEW i \in 1..(Len(s) - k) PROVE b[i] = s[k + i]
    <3>1. i \in 1..(Len(s) - (k + 1) + 1) /\ (k + 1) + i - 1 = k + i
      BY <1>1
    <3>2. b[i] = s[(k + 1) + i - 1]
      BY <3>1, <2>2
    <3>3. QED
      BY <3>1, <3>2
  <2>5. QED
    BY <2>2, <2>3, <2>4
<1>5. RemoveAt(s, k) = a \o b
  BY DEF RemoveAt
<1> HIDE DEF a, b, S
<1>6. /\ a \o b \in Seq(S)
      /\ Len(a \o b) = Len(a) + Len(b)
      /\ \A i \in 1..(Len(a) + Len(b)) : (a \o b)[i] = IF i <= Len(a) THEN a[i] ELSE b[i - Len(a)]
  BY <1>3, <1>4, ConcatProperties
<1>7. IsSeq(a \o b)
  BY <1>6, SeqIsSeq
<1>8. ASSUME NEW i \in 1..(Len(s) - 1)
      PROVE  (a \o b)[i] = IF i < k THEN s[i] ELSE s[i + 1]
  <2>1. i \in 1..(Len(a) + Len(b))
    BY <1>1, <1>3, <1>4
  <2>2. (a \o b)[i] = IF i <= Len(a) THEN a[i] ELSE b[i - Len(a)]
    BY <2>1, <1>6
  <2>3. CASE i < k
    <3>1. i <= Len(a) /\ i \in 1..(k - 1)
      BY <1>1, <1>3, <2>3
    <3>2. QED
      BY <1>3, <2>2, <2>3, <3>1
  <2>4. CASE ~(i < k)
    <3>1. ~(i <= Len(a)) /\ i - Len(a) \in 1..(Len(s) - k) /\ k + (i - Len(a)) = i + 1
      BY <1>1, <1>3, <2>4
    <3>2. QED
      BY <1>4, <2>2, <2>4, <3>1
  <2>5. QED
    BY <2>3, <2>4
<1>9. QED
  BY <1>1, <1>3, <1>4, <1>5, <1>6, <1>7, <1>8

\* Removed takes out one element at most, and leaves no repetition behind.
LEMMA RemovedIs ==
    ASSUME NEW s, NEW v, IsSeq(s)
    PROVE  /\ IsSeq(Removed(s, v))
           /\ \A i \in DOMAIN Removed(s, v) : \E j \in DOMAIN s : Removed(s, v)[i] = s[j]
           /\ NoRepeats(s) => NoRepeats(Removed(s, v))
           /\ (\E i \in DOMAIN s : s[i] = v) => Len(Removed(s, v)) = Len(s) - 1
<1> DEFINE m == FirstMatch(s, v)
<1>1. Len(s) \in Nat /\ DOMAIN s = 1..Len(s)
  BY SeqFacts
<1>2. m \in 0..Len(s) /\ \A i \in 1..Len(s) : s[i] = v => m <= i - 1
  BY FirstMatchIs
<1>3. CASE ~(m < Len(s))
  <2>1. Removed(s, v) = s
    BY <1>3 DEF Removed
  <2>2. \A i \in 1..Len(s) : s[i] # v
    <3> HIDE DEF m
    <3>1. QED
      BY <1>1, <1>2, <1>3
  <2>3. QED
    BY <1>1, <2>1, <2>2
<1>4. CASE m < Len(s)
  <2> DEFINE r == RemoveAt(s, m + 1)
             Up(i) == IF i < m + 1 THEN i ELSE i + 1
  <2>1. Removed(s, v) = r
    BY <1>4 DEF Removed
  <2> HIDE DEF m
  <2>2. m + 1 \in 1..Len(s)
    BY <1>1, <1>2, <1>4
  <2>3. /\ IsSeq(r) /\ Len(r) = Len(s) - 1
        /\ \A i \in 1..(Len(s) - 1) : r[i] = IF i < m + 1 THEN s[i] ELSE s[i + 1]
    BY <2>2, RemoveAtIs
  <2> HIDE DEF r
  <2>4. DOMAIN r = 1..(Len(s) - 1)
    BY <2>3, SeqFacts
  <2>5. \A i \in DOMAIN r : Up(i) \in DOMAIN s /\ r[i] = s[Up(i)]
    BY <1>1, <1>2, <2>3, <2>4
  <2>6. \A i, j \in DOMAIN r : Up(i) = Up(j) => i = j
    BY <1>1, <1>2, <2>4
  <2> HIDE DEF Up
  <2>7. \A i \in DOMAIN r : \E j \in DOMAIN s : r[i] = s[j]
    BY <2>5
  <2>8. NoRepeats(s) => NoRepeats(r)
    BY <2>5, <2>6 DEF NoRepeats
  <2>9. QED
    BY <2>1, <2>3, <2>7, <2>8
<1>5. QED
  BY <1>3, <1>4

\* Added puts one element at the end at most, and repeats only true and false.
LEMMA AddedIs ==
    ASSUME NEW s, NEW v, IsSeq(s)
    PROVE  /\ IsSeq(Added(s, v))
           /\ \A i \in DOMAIN Added(s, v) :
                 Added(s, v)[i] = v \/ \E j \in DOMAIN s : Added(s, v)[i] = s[j]
           /\ NoRepeats(s) => NoRepeats(Added(s, v))
           /\ (\E i \in DOMAIN s : s[i] = v) /\ ~IsBoolean(v) => Added(s, v) = s
<1> DEFINE m == FirstMatch(s, v)
           r == Append(s, v)
<1>1. Len(s) \in Nat /\ DOMAIN s = 1..Len(s)
  BY SeqFacts
<1>2. m \in 0..Len(s) /\ \A i \in 1..Len(s) : s[i] = v => m <= i - 1
  BY FirstMatchIs
<1> HIDE DEF m
<1>3. m = Len(s) => \A i \in 1..Len(s) : s[i] # v
  BY <1>1, <1>2
<1>4. (\E i \in DOMAIN s : s[i] = v) => m # Len(s)
  BY <1>1, <1>3
<1>5. CASE IsBoolean(v) \/ m = Len(s)
  <2>1. Added(s, v) = r
    BY <1>5 DEF Added, m
  <2>2. s \in Seq(ToSet(s) \cup {v})
    BY DEF IsSeq
  <2>3. /\ r \in Seq(ToSet(s) \cup {v})
        /\ Len(r) = Len(s) + 1
        /\ \A i \in 1..Len(s) : r[i] = s[i]
        /\ r[Len(s) + 1] = v
    BY <2>2, AppendProperties
  <2> HIDE DEF r
  <2>4. IsSeq(r)
    BY <2>3, SeqIsSeq
  <2>5. DOMAIN r = 1..(Len(s) + 1)
    BY <2>3, <2>4, SeqFacts
  <2>6. \A i \in DOMAIN r : (i \in DOMAIN s /\ r[i] = s[i]) \/ (i = Len(s) + 1 /\ r[i] = v)
    BY <1>1, <2>3, <2>5
  <2>7. ASSUME NoRepeats(s) PROVE NoRepeats(r)
    <3> SUFFICES ASSUME NEW i \in DOMAIN r, NEW j \in DOMAIN r, r[i] = r[j]
                 PROVE  i = j \/ IsBoolean(r[i])
      BY DEF NoRepeats
    <3>1. CASE i \in DOMAIN s /\ j \in DOMAIN s
      BY <2>3, <1>1, <2>7, <3>1 DEF NoRepeats
    <3>2. CASE ~(i \in DOMAIN s /\ j \in DOMAIN s)
      <4>1. r[i] = v /\ r[j] = v
        BY <2>6, <3>2
      <4>2. CASE IsBoolean(v)
        BY <4>1, <4>2
      <4>3. CASE m = Len(s)
        BY <1>1, <1>3, <2>6, <4>1, <4>3
      <4>4. QED
        BY <1>5, <4>2, <4>3
    <3>3. QED
      BY <3>1, <3>2
  <2>8. QED
    BY <1>4, <1>5, <2>1, <2>4, <2>6, <2>7
<1>6. CASE ~(IsBoolean(v) \/ m = Len(s))
  <2>1. Added(s, v) = s
    BY <1>6 DEF Added, m
  <2>2. QED
    BY <2>1
<1>7. QED
  BY <1>5, <1>6

-----------------------------------------------------------------------------
(* Values.                                                                 *)

\* What a text stands for in an array is a value.
LEMMA ElementShaped ==
    ASSUME NEW text, text # NULL
    PROVE  Shaped(Element(text))
BY DEF Shaped, Element, String, IsDocument, IsArray, IsObject, Loads

\* What a text stands for in an object is a value too, and there.
LEMMA MemberShaped ==
    ASSUME NEW text, text # NULL
    PROVE  Shaped(Member(text)) /\ Member(text) # Missing
BY DEF Shaped, Member, String, IsDocument, IsArray, IsObject, Loads, Missing, Null

\* A value that "get" gives for an element stands for that element.
LEMMA GivenBack ==
    ASSUME NEW v, Shaped(v), IsBoolean(v) \/ IsArray(v) \/ IsObject(v) \/ IsPlain(v)
    PROVE  Element(Given(v)) = v
<1>1. CASE IsBoolean(v)
  <2>1. Given(v) = Spelling(v)
    BY <1>1 DEF Given, IsString, IsBoolean, True, False
  <2>2. ~IsDocument(Spelling(True)) /\ ~IsDocument(Spelling(False))
    BY DEF IsDocument, Spelling, IsArray, IsObject, True, False
  <2>3. Spelling(True) # Spelling(False)
    BY DEF Spelling, True, False
  <2>4. Element(Spelling(True)) = True /\ Element(Spelling(False)) = False
    BY <2>2, <2>3 DEF Element
  <2>5. QED
    BY <1>1, <2>1, <2>4 DEF IsBoolean
<1>3. CASE IsArray(v) \/ IsObject(v)
  <2>1. Given(v) = Spelling(v)
    BY <1>3 DEF Given, IsString, IsArray, IsObject
  <2>2. Spelling(v) # Spelling(True) /\ Spelling(v) # Spelling(False)
    BY <1>3 DEF Spelling, True, False, IsArray, IsObject
  <2>3. IsDocument(Spelling(v)) /\ Loads(Spelling(v)) = v
    BY <1>3 DEF IsDocument, Loads, Spelling
  <2>4. QED
    BY <2>1, <2>2, <2>3 DEF Element
<1>4. CASE IsPlain(v)
  <2>1. Given(v) = v[2] /\ v[2][1] # "spells"
    BY <1>4 DEF Given, IsPlain
  <2>2. v[2] # Spelling(True) /\ v[2] # Spelling(False) /\ ~IsDocument(v[2])
    BY <2>1 DEF Spelling, IsDocument
  <2>3. v = String(v[2])
    BY <1>4 DEF Shaped, IsPlain, IsString, Null, True, False
  <2>4. QED
    BY <2>1, <2>2, <2>3 DEF Element
<1>5. QED
  BY <1>1, <1>3, <1>4

\* The value that "get" gives for a key stands for the value of the key.
LEMMA GotBack ==
    ASSUME NEW v, NEW key, Shaped(v), v = Null \/ IsArray(v) \/ IsObject(v) \/ IsPlain(v)
    PROVE  Member(Got([key |-> key, value |-> EmptyText, shared |-> FALSE], v).value) = v
<1> DEFINE pair == [key |-> key, value |-> EmptyText, shared |-> FALSE]
           val1 == CASE v = Null \/ IsBoolean(v)  -> Spelling(v)
                     [] IsString(v)               -> v[2]
                     [] IsArray(v) \/ IsObject(v) -> Spelling(v)
                     [] OTHER                     -> NULL
<1>1. Got(pair, v).value = val1
  BY DEF Got
<1>2. CASE v = Null
  <2>0. ~IsString(v) /\ ~IsArray(v) /\ ~IsObject(v)
    BY <1>2 DEF Null, IsString, IsArray, IsObject
  <2>1. val1 = Spelling(Null)
    BY <1>2, <2>0
  <2>2. ~IsDocument(Spelling(Null))
    BY DEF IsDocument, Spelling, IsArray, IsObject, Null
  <2>3. QED
    BY <1>1, <1>2, <2>1, <2>2 DEF Member
<1>3. CASE IsArray(v) \/ IsObject(v)
  <2>1. v # Null /\ ~IsString(v) /\ ~IsBoolean(v)
    BY <1>3 DEF Null, IsString, IsArray, IsObject, IsBoolean, True, False
  <2>2. val1 = Spelling(v)
    BY <1>3, <2>1
  <2>3. Spelling(v) # Spelling(Null)
    BY <2>1 DEF Spelling
  <2>4. IsDocument(Spelling(v)) /\ Loads(Spelling(v)) = v
    BY <1>3 DEF IsDocument, Loads, Spelling
  <2>5. QED
    BY <1>1, <2>2, <2>3, <2>4 DEF Member
<1>4. CASE IsPlain(v)
  <2>0. IsString(v) /\ v # Null /\ ~IsBoolean(v) /\ ~IsArray(v) /\ ~IsObject(v)
    BY <1>4 DEF IsPlain, IsString, IsArray, IsObject, IsBoolean, Null, True, False
  <2>1. v = String(v[2])
    BY <1>4 DEF Shaped, IsPlain, IsString, Null, True, False
  <2>2. val1 = v[2]
    BY <2>0
  <2>3. v[2] # Spelling(Null) /\ ~IsDocument(v[2])
    BY <1>4 DEF Spelling, IsDocument, IsPlain
  <2>4. QED
    BY <1>1, <2>1, <2>2, <2>3 DEF Member
<1>5. QED
  BY <1>2, <1>3, <1>4

-----------------------------------------------------------------------------
(* The pairs of a call, one after the other.                               *)

\* What the pair makes of a root.
Step(op, root, pair) == WithKey(op, root, pair.key, Member(pair.value))

\* f[n] is the root after the first n pairs, for n up to m.
Roots(f, op, root, pairs, m) ==
    /\ f = [n \in 0..m |-> f[n]]
    /\ f[0] = root
    /\ \A n \in 1..m : f[n] = Step(op, f[n - 1], pairs[n])

\* There are such roots.
LEMMA RootsExist ==
    ASSUME NEW op, NEW root, NEW pairs, NEW m \in Nat
    PROVE  \E f : Roots(f, op, root, pairs, m)
<1> DEFINE S == {k \in Nat : \E f : Roots(f, op, root, pairs, k)}
<1>1. 0 \in S
  <2> DEFINE f0 == [j \in 0..0 |-> root]
  <2>1. f0 = [j \in 0..0 |-> f0[j]] /\ f0[0] = root
    OBVIOUS
  <2>2. Roots(f0, op, root, pairs, 0)
    BY <2>1 DEF Roots
  <2>3. QED
    BY <2>2
<1>2. ASSUME NEW k \in Nat, k \in S PROVE k + 1 \in S
  <2>1. PICK f : Roots(f, op, root, pairs, k)
    BY <1>2
  <2> DEFINE t == Step(op, f[k], pairs[k + 1])
             g == [j \in 0..(k + 1) |-> IF j = k + 1 THEN t ELSE f[j]]
  <2>2. f[0] = root /\ \A n \in 1..k : f[n] = Step(op, f[n - 1], pairs[n])
    BY <2>1 DEF Roots
  <2>3. g = [j \in 0..(k + 1) |-> g[j]] /\ g[0] = root
    <3> HIDE DEF t
    <3>1. QED
      BY <2>2
  <2>4. ASSUME NEW n \in 1..(k + 1) PROVE g[n] = Step(op, g[n - 1], pairs[n])
    <3>1. n \in 0..(k + 1) /\ n - 1 \in 0..(k + 1) /\ n - 1 # k + 1
      OBVIOUS
    <3>2. g[n - 1] = f[n - 1]
      BY <3>1
    <3>3. CASE n = k + 1
      <4>1. n - 1 = k /\ g[n] = t
        BY <3>1, <3>3
      <4>2. QED
        BY <3>2, <3>3, <4>1
    <3>4. CASE n # k + 1
      <4>1. n \in 1..k /\ g[n] = f[n]
        BY <3>1, <3>4
      <4>2. QED
        BY <2>2, <3>2, <4>1
    <3>5. QED
      BY <3>3, <3>4
  <2>5. Roots(g, op, root, pairs, k + 1)
    <3> HIDE DEF g
    <3>1. QED
      BY <2>3, <2>4 DEF Roots
  <2>6. QED
    BY <2>5
<1> HIDE DEF S
<1>3. S = Nat
  <2>1. S \in SUBSET Nat
    BY DEF S
  <2>2. QED
    BY <1>1, <1>2, <2>1, SetInduction
<1>4. QED
  BY <1>3 DEF S

\* AllKeys gives the last of them.
LEMMA AllKeysIsLast ==
    ASSUME NEW op, NEW root, NEW pairs, IsSeq(pairs)
    PROVE  \E f : /\ Roots(f, op, root, pairs, Len(pairs))
                  /\ AllKeys(op, root, pairs) = f[Len(pairs)]
<1> DEFINE N == Len(pairs)
           Rec(h) == h = [n \in 0..N |-> IF n = 0 THEN root ELSE Step(op, h[n - 1], pairs[n])]
           last == CHOOSE h : Rec(h)
<1>1. N \in Nat
  BY SeqFacts
<1>2. PICK f : Roots(f, op, root, pairs, N)
  BY <1>1, RootsExist
<1>3. Rec(f)
  <2>1. \A n \in 0..N : f[n] = IF n = 0 THEN root ELSE Step(op, f[n - 1], pairs[n])
    BY <1>1, <1>2 DEF Roots
  <2>2. f = [n \in 0..N |-> f[n]]
    BY <1>2 DEF Roots
  <2> HIDE DEF N
  <2>3. QED
    BY <2>1, <2>2, Zenon
<1>4. Rec(last)
  BY <1>3, Zenon
<1>5. AllKeys(op, root, pairs) = last[N]
  BY DEF AllKeys, Step
<1> HIDE DEF last
<1>6. Roots(last, op, root, pairs, N)
  <2>1. /\ \A n \in 0..N : last[n] = IF n = 0 THEN root ELSE Step(op, last[n - 1], pairs[n])
        /\ last = [n \in 0..N |-> last[n]]
    BY <1>4, Zenon
  <2>2. last[0] = root /\ \A n \in 1..N : last[n] = Step(op, last[n - 1], pairs[n])
    <3> HIDE DEF N
    <3>1. \A n \in 1..N : n \in 0..N /\ n # 0
      BY <1>1
    <3>2. 0 \in 0..N
      BY <1>1
    <3>3. QED
      BY <2>1, <3>1, <3>2
  <2>3. QED
    BY <2>1, <2>2 DEF Roots
<1>7. QED
  BY <1>5, <1>6

\* An object made of a function of values is a root.
LEMMA ObjectShaped ==
    ASSUME NEW f, f = [m \in DOMAIN f |-> f[m]], \A m \in DOMAIN f : Shaped(f[m])
    PROVE  ShapedRoot(Object(f)) /\ IsObject(Object(f)) /\ Object(f)[2] = f
<1>1. Object(f)[2] = f /\ IsObject(Object(f))
  BY DEF Object, IsObject
<1>2. QED
  BY <1>1 DEF ShapedRoot

\* An array made of a sequence of values is a root.
LEMMA ArrayShaped ==
    ASSUME NEW s, IsSeq(s), \A m \in DOMAIN s : Shaped(s[m])
    PROVE  ShapedRoot(Array(s)) /\ IsArray(Array(s)) /\ ~IsObject(Array(s)) /\ Array(s)[2] = s
<1>1. Array(s)[2] = s /\ IsArray(Array(s)) /\ ~IsObject(Array(s))
  BY DEF Array, IsArray, IsObject
<1>2. QED
  BY <1>1 DEF ShapedRoot, IsSeq

\* Setting a key of an object to a value, and deleting it, leave an object.
LEMMA SetShaped ==
    ASSUME NEW root, NEW key, NEW v, ShapedRoot(root), IsObject(root), Shaped(v)
    PROVE  /\ ShapedRoot(Set(root, key, v)) /\ IsObject(Set(root, key, v))
           /\ ShapedRoot(Del(root, key)) /\ IsObject(Del(root, key))
<1> DEFINE f == root[2]
           g == [m \in DOMAIN f \cup {key} |-> IF m = key THEN v ELSE f[m]]
           h == [m \in DOMAIN f \ {key} |-> f[m]]
<1>1. \A m \in DOMAIN f : Shaped(f[m])
  BY DEF ShapedRoot
<1>2. Set(root, key, v) = Object(g) /\ Del(root, key) = Object(h)
  BY DEF Set, Del
<1>3. g = [m \in DOMAIN g |-> g[m]] /\ h = [m \in DOMAIN h |-> h[m]]
  OBVIOUS
<1>4. \A m \in DOMAIN g : Shaped(g[m])
  BY <1>1
<1>5. \A m \in DOMAIN h : Shaped(h[m])
  BY <1>1
<1> HIDE DEF g, h
<1>6. QED
  BY <1>2, <1>3, <1>4, <1>5, ObjectShaped

\* One pair: an array is left as it is, an object stays one.
LEMMA StepShaped ==
    ASSUME NEW op, NEW root, NEW pair, ShapedRoot(root), pair.value # NULL
    PROVE  /\ ShapedRoot(Step(op, root, pair))
           /\ ~IsObject(root) => Step(op, root, pair) = root
           /\ IsObject(root) => IsObject(Step(op, root, pair))
<1> DEFINE key == pair.key
           v == Member(pair.value)
           data == Data(root, key)
           r == WithKey(op, root, key, v)
<1>1. Shaped(v) /\ v # Missing
  BY MemberShaped
<1>2. Step(op, root, pair) = r
  BY DEF Step
<1> HIDE DEF v
<1>3. CASE ~IsObject(root)
  <2>1. data = Missing
    BY <1>3 DEF Data
  <2>2. ~IsArray(data) /\ data # v
    BY <1>1, <2>1 DEF Missing, IsArray
  <2>3. \A x : Set(root, key, x) = root
    BY <1>3 DEF Set
  <2>4. r = root
    <3>1. CASE op = "add"
      BY <2>2, <2>3, <3>1 DEF WithKey
    <3>2. CASE op = "set"
      BY <2>3, <3>2 DEF WithKey
    <3>3. CASE op = "rm"
      BY <2>2, <2>3, <3>3 DEF WithKey
    <3>4. CASE op \notin {"add", "set", "rm"}
      BY <3>4 DEF WithKey
    <3>5. QED
      BY <3>1, <3>2, <3>3, <3>4
  <2>5. QED
    BY <1>2, <1>3, <2>4
<1>4. CASE IsObject(root)
  <2>1. \A x : Shaped(Array(x))
    BY DEF Shaped, Array
  <2>2. \A x : Shaped(x) => ShapedRoot(Set(root, key, x)) /\ IsObject(Set(root, key, x))
    BY <1>4, SetShaped
  <2>3. ShapedRoot(Del(root, key)) /\ IsObject(Del(root, key))
    BY <1>1, <1>4, SetShaped
  <2> HIDE DEF data, key
  <2>4. ShapedRoot(r) /\ IsObject(r)
    <3>1. CASE op = "add"
      <4>1. r = IF IsArray(data) THEN Set(root, key, Array(Append(data[2], v))) ELSE Set(root, key, v)
        BY <3>1 DEF WithKey, data
      <4>2. QED
        BY <1>1, <2>1, <2>2, <4>1
    <3>2. CASE op = "set"
      <4>1. r = Set(root, key, v)
        BY <3>2 DEF WithKey
      <4>2. QED
        BY <1>1, <2>2, <4>1
    <3>3. CASE op = "rm"
      <4>1. r = IF IsArray(data) THEN Set(root, key, Array(Removed(data[2], v)))
                ELSE IF data = v THEN Del(root, key) ELSE root
        BY <3>3 DEF WithKey, data
      <4>2. QED
        BY <1>4, <2>1, <2>2, <2>3, <4>1
    <3>4. CASE op \notin {"add", "set", "rm"}
      <4>1. r = root
        BY <3>4 DEF WithKey
      <4>2. QED
        BY <1>4, <4>1
    <3>5. QED
      BY <3>1, <3>2, <3>3, <3>4
  <2>5. QED
    BY <1>2, <1>4, <2>4
<1>5. QED
  BY <1>3, <1>4

\* All pairs: an array is left as it is, an object stays one.
LEMMA AllKeysShaped ==
    ASSUME NEW op, NEW root, NEW pairs, IsSeq(pairs), ShapedRoot(root), ~HasNULL(pairs)
    PROVE  /\ ShapedRoot(AllKeys(op, root, pairs))
           /\ ~IsObject(root) => AllKeys(op, root, pairs) = root
           /\ IsObject(root) => IsObject(AllKeys(op, root, pairs))
<1> DEFINE N == Len(pairs)
           Good(r) == /\ ShapedRoot(r)
                      /\ ~IsObject(root) => r = root
                      /\ IsObject(root) => IsObject(r)
<1>1. N \in Nat /\ DOMAIN pairs = 1..N
  BY SeqFacts
<1>2. PICK f : Roots(f, op, root, pairs, N) /\ AllKeys(op, root, pairs) = f[N]
  BY AllKeysIsLast
<1> DEFINE S == {k \in Nat : k <= N => Good(f[k])}
<1>3. 0 \in S
  BY <1>2 DEF Roots
<1>4. ASSUME NEW k \in Nat, k \in S PROVE k + 1 \in S
  <2> SUFFICES ASSUME k + 1 <= N PROVE Good(f[k + 1])
    OBVIOUS
  <2>1. Good(f[k])
    BY <1>1, <1>4
  <2>2. k + 1 \in 1..N /\ (k + 1) - 1 = k
    BY <1>1
  <2>3. f[k + 1] = Step(op, f[k], pairs[k + 1])
    BY <1>2, <2>2 DEF Roots
  <2>4. pairs[k + 1].value # NULL
    BY <1>1, <2>2 DEF HasNULL
  <2>5. QED
    BY <2>1, <2>3, <2>4, StepShaped
<1> HIDE DEF S
<1>5. S = Nat
  <2>1. S \in SUBSET Nat
    BY DEF S
  <2>2. QED
    BY <1>3, <1>4, <2>1, SetInduction
<1>6. Good(f[N])
  BY <1>1, <1>5 DEF S
<1>7. QED
  BY <1>2, <1>6

-----------------------------------------------------------------------------
(* The invariant.                                                          *)

\* A list of pairs, each with its three parts.
Pairs(pairs) ==
    /\ IsSeq(pairs)
    /\ \A i \in DOMAIN pairs :
          pairs[i] = [key |-> pairs[i].key, value |-> pairs[i].value, shared |-> pairs[i].shared]

\* The document is one that jansson can hold, and a careful rule has no pairs
\* that msi_json_objops or clearKeyVal would stumble over.
JsonInv ==
    /\ IsDocument(json_str) => ShapedRoot(Loads(json_str))
    /\ Pairs(kvp)
    /\ careful => ~lost /\ ~HasNULL(kvp) /\ ~HasShared(kvp)

\* Pairs that a rule makes are fit.
LEMMA RulePairsFit ==
    ASSUME NEW pairs \in KVPs
    PROVE  Pairs(pairs) /\ ~HasNULL(pairs) /\ ~HasShared(pairs)
<1>1. IsSeq(pairs) /\ \A i \in DOMAIN pairs : RulePair(pairs[i])
  BY JsonAssumption DEF IsSeq
<1>2. ASSUME NEW i \in DOMAIN pairs
      PROVE  /\ pairs[i].value # NULL /\ pairs[i].shared = FALSE
             /\ pairs[i] = [key |-> pairs[i].key, value |-> pairs[i].value, shared |-> pairs[i].shared]
  <2> DEFINE pair == pairs[i]
  <2>1. pair = [key |-> pair.key, value |-> pair.value, shared |-> FALSE] /\ pair.value # NULL
    BY <1>1 DEF RulePair
  <2> HIDE DEF pair
  <2>2. pair.shared = FALSE
    BY <2>1
  <2>3. QED
    BY <2>1, <2>2 DEF pair
<1>3. QED
  BY <1>1, <1>2 DEF Pairs, HasNULL, HasShared

\* The document as msi_json_arrayops takes it.
LEMMA InArrayShaped ==
    ASSUME JsonInv, IsDocument(InArray), IsArray(Loads(InArray))
    PROVE  IsSeq(Items) /\ \A i \in DOMAIN Items : Shaped(Items[i])
<1>1. CASE json_str = EmptyText
  <2>1. InArray = Spelling(Array(<<>>))
    BY <1>1 DEF InArray
  <2>2. Items = <<>>
    BY <2>1 DEF Items, Loads, Spelling, Array
  <2>3. <<>> \in Seq({})
    OBVIOUS
  <2>4. IsSeq(<<>>)
    BY <2>3, SeqIsSeq
  <2>5. QED
    BY <2>2, <2>4
<1>2. CASE json_str # EmptyText
  <2> DEFINE root == Loads(InArray)
  <2>1. InArray = json_str
    BY <1>2 DEF InArray
  <2>2. ShapedRoot(root)
    BY <2>1 DEF JsonInv
  <2>3. Items = root[2] /\ IsArray(root)
    BY DEF Items
  <2> HIDE DEF root
  <2>4. ~(root = Object(root[2]))
    BY <2>3 DEF IsArray, Object
  <2>5. IsSeq(root[2]) /\ \A i \in DOMAIN root[2] : Shaped(root[2][i])
    BY <2>2, <2>4 DEF ShapedRoot, IsSeq
  <2>6. QED
    BY <2>3, <2>5
<1>3. QED
  BY <1>1, <1>2

\* The document as msi_json_objops takes it.
LEMMA InObjectShaped ==
    ASSUME JsonInv, IsDocument(InObject)
    PROVE  ShapedRoot(Loads(InObject))
<1>1. CASE json_str = EmptyText
  <2> DEFINE e == <<>>
  <2>1. InObject = Spelling(Object(e))
    BY <1>1 DEF InObject
  <2>2. Loads(InObject) = Object(e)
    BY <2>1 DEF Loads, Spelling
  <2>3. e = [m \in DOMAIN e |-> e[m]] /\ DOMAIN e = {}
    OBVIOUS
  <2> HIDE DEF e
  <2>4. QED
    BY <2>2, <2>3, ObjectShaped
<1>2. CASE json_str # EmptyText
  BY <1>2 DEF InObject, JsonInv
<1>3. QED
  BY <1>1, <1>2

\* A document that holds an array without repetitions.
LEMMA ArrayClean ==
    ASSUME NEW s, json_str' = Spelling(Array(s)), NoRepeats(s)
    PROVE  NoDuplicates'
<1>1. json_str' # EmptyText
  BY DEF Spelling, EmptyText
<1>2. InArray' = Spelling(Array(s))
  BY <1>1 DEF InArray
<1>3. Items' = s
  BY <1>2 DEF Items, Loads, Spelling, Array
<1>4. QED
  BY <1>3 DEF NoDuplicates

\* A call of msi_json_arrayops leaves an array of values.
LEMMA ArrayOpsInv ==
    ASSUME NEW op, NEW text, NEW s, NEW out,
           JsonInv, ArrayOps(op, text, s, out), IsSeq(s), \A m \in DOMAIN s : Shaped(s[m])
    PROVE  JsonInv' /\ (NoRepeats(s) => NoDuplicates')
<1>1. json_str' = Spelling(Array(s)) /\ UNCHANGED <<kvp, careful, lost>>
  BY DEF ArrayOps
<1>2. ShapedRoot(Array(s))
  BY ArrayShaped
<1>3. ShapedRoot(Loads(json_str'))
  BY <1>1, <1>2 DEF Loads, Spelling
<1>4. kvp' = kvp /\ careful' = careful /\ lost' = lost
  BY <1>1
<1>5. JsonInv'
  BY <1>3, <1>4 DEF JsonInv
<1>6. QED
  BY <1>1, <1>5, ArrayClean

\* Whatever msi_json_arrayops is asked to do.
LEMMA ArrayStep ==
    ASSUME JsonInv, msi_json_arrayops
    PROVE  JsonInv' /\ (NoDuplicates => NoDuplicates')
<1> PICK text \in Texts \cup {val} :
        \/ ArrayAdd(text) \/ ArrayFind(text) \/ ArrayRm(text) \/ ArraySize(text)
        \/ \E i \in Indexes : ArrayGet(text, i)
        \/ ArrayRefuses
  BY DEF msi_json_arrayops
<1>1. ASSUME ArrayReady(text)
      PROVE  /\ IsSeq(Items) /\ \A i \in DOMAIN Items : Shaped(Items[i])
             /\ Shaped(Element(text))
             /\ NoDuplicates => NoRepeats(Items)
  <2>1. IsDocument(InArray) /\ IsArray(Loads(InArray)) /\ text # NULL
    BY <1>1 DEF ArrayReady, IsText
  <2>2. QED
    BY <2>1, InArrayShaped, ElementShaped DEF NoDuplicates
<1>2. CASE ArrayAdd(text)
  <2> DEFINE s == Added(Items, Element(text))
  <2>1. ArrayReady(text) /\ ArrayOps("add", text, s, Len(s))
    BY <1>2 DEF ArrayAdd
  <2>2. /\ IsSeq(s) /\ \A m \in DOMAIN s : Shaped(s[m])
        /\ NoDuplicates => NoRepeats(s)
    BY <1>1, <2>1, AddedIs
  <2> HIDE DEF s
  <2>3. QED
    BY <2>1, <2>2, ArrayOpsInv
<1>3. CASE ArrayRm(text)
  <2> DEFINE s == Removed(Items, Element(text))
  <2>1. ArrayReady(text) /\ ArrayOps("rm", text, s, Len(s))
    BY <1>3 DEF ArrayRm
  <2>2. /\ IsSeq(s) /\ \A m \in DOMAIN s : Shaped(s[m])
        /\ NoDuplicates => NoRepeats(s)
    BY <1>1, <2>1, RemovedIs
  <2> HIDE DEF s
  <2>3. QED
    BY <2>1, <2>2, ArrayOpsInv
<1>4. CASE ArrayFind(text) \/ ArraySize(text) \/ \E i \in Indexes : ArrayGet(text, i)
  <2>1. PICK op, out : ArrayOps(op, text, Items, out)
    BY <1>4 DEF ArrayFind, ArraySize, ArrayGet
  <2>2. ArrayReady(text)
    BY <2>1 DEF ArrayOps
  <2>3. QED
    BY <1>1, <2>1, <2>2, ArrayOpsInv
<1>5. CASE ArrayRefuses
  <2>1. json_str' = json_str /\ kvp' = kvp /\ careful' = careful /\ lost' = lost
    BY <1>5 DEF ArrayRefuses, Fails, ruleVars
  <2>2. QED
    BY <2>1 DEF JsonInv, NoDuplicates, InArray, Items
<1>6. QED
  BY <1>2, <1>3, <1>4, <1>5

\* "get" with keys that can be got safely gives back pairs that are fit.
LEMMA GotFit ==
    ASSUME NEW root, NEW pairs, ShapedRoot(root), Pairs(pairs)
    PROVE  LET got == [i \in DOMAIN pairs |-> Got(pairs[i], Data(root, pairs[i].key))]
           IN  Pairs(got) /\ (Gettable(root, pairs) => ~HasNULL(got) /\ ~HasShared(got))
<1> DEFINE D(i) == Data(root, pairs[i].key)
           Special(v) == v = Null \/ IsBoolean(v)
           Value(v) == CASE Special(v)                  -> Spelling(v)
                         [] IsString(v)                 -> v[2]
                         [] IsArray(v) \/ IsObject(v)   -> Spelling(v)
                         [] OTHER                       -> NULL
           got == [i \in DOMAIN pairs |-> Got(pairs[i], D(i))]
<1>1. IsSeq(pairs) /\ Len(pairs) \in Nat /\ DOMAIN pairs = 1..Len(pairs)
  BY SeqFacts DEF Pairs
<1>2. ASSUME NEW i \in DOMAIN pairs
      PROVE  got[i] = [key |-> pairs[i].key, value |-> Value(D(i)), shared |-> Special(D(i))]
  <2> DEFINE pair == pairs[i]
             v == D(i)
  <2>1. pair = [key |-> pair.key, value |-> pair.value, shared |-> pair.shared]
    BY DEF Pairs
  <2>2. got[i] = [pair EXCEPT !.shared = Special(v), !.value = Value(v)]
    BY DEF Got
  <2> HIDE DEF pair, v, Value, Special
  <2>3. [pair EXCEPT !.shared = Special(v), !.value = Value(v)]
         = [key |-> pair.key, value |-> Value(v), shared |-> Special(v)]
    <3> DEFINE a == pair.key
               b == pair.value
               c == pair.shared
               x == Special(v)
               y == Value(v)
    <3>1. pair = [key |-> a, value |-> b, shared |-> c]
      BY <2>1
    <3> HIDE DEF a, b, c, x, y
    <3> DEFINE e == [pair EXCEPT !.shared = x, !.value = y]
               R == [key : {a}, value : {b, y}, shared : {c, x}]
    <3>2. e \in R
      BY <3>1
    <3>3. e.key = a /\ e.value = y /\ e.shared = x
      BY <3>1
    <3> HIDE DEF e
    <3>4. e = [key |-> e.key, value |-> e.value, shared |-> e.shared]
      BY <3>2
    <3>5. QED
      BY <3>3, <3>4, Zenon DEF e, a, x, y
  <2>4. QED
    BY <2>2, <2>3 DEF pair, v
<1>3. DOMAIN got = DOMAIN pairs
  OBVIOUS
<1>4. IsSeq(got)
  <2>1. got \in [1..Len(pairs) -> ToSet(got)]
    BY <1>1 DEF ToSet
  <2> HIDE DEF got
  <2>2. QED
    BY <1>1, <2>1 DEF IsSeq
<1>5. /\ \A i \in DOMAIN got : /\ got[i].key = pairs[i].key
                               /\ got[i].value = Value(D(i))
                               /\ got[i].shared = Special(D(i))
      /\ Pairs(got)
  <2> HIDE DEF got, Value, Special
  <2>1. QED
    BY <1>2, <1>3, <1>4 DEF Pairs
<1>6. ASSUME Gettable(root, pairs) PROVE ~HasNULL(got) /\ ~HasShared(got)
  <2>1. ASSUME NEW i \in DOMAIN pairs PROVE Value(D(i)) # NULL
    <3> DEFINE v == D(i)
    <3>1. v # Missing /\ v[1] # "number"
      BY <1>6 DEF Gettable
    <3>2. Shaped(v)
      BY <3>1 DEF ShapedRoot, Data
    <3> HIDE DEF v
    <3>3. CASE Special(v) \/ IsArray(v) \/ IsObject(v)
      <4>1. Value(v) = Spelling(v)
        <5>1. ~IsString(v)
          BY <3>3 DEF IsString, IsBoolean, Null, True, False, IsArray, IsObject
        <5>2. QED
          BY <3>3, <5>1
      <4>2. QED
        BY <4>1 DEF Spelling, NULL, v
    <3>4. CASE ~(Special(v) \/ IsArray(v) \/ IsObject(v))
      <4>1. v = String(v[2]) /\ v[2] # NULL
        BY <3>1, <3>2, <3>4 DEF Shaped, IsBoolean, IsArray, IsObject
      <4>2. IsString(v)
        BY <4>1 DEF IsString, String
      <4>3. Value(v) = v[2]
        BY <3>4, <4>2
      <4>4. QED
        BY <4>1, <4>3 DEF v
    <3>5. QED
      BY <3>3, <3>4
  <2>2. ASSUME NEW i \in DOMAIN pairs, NEW j \in DOMAIN pairs, i # j,
               Special(D(i)), Special(D(j)), Value(D(i)) = Value(D(j))
        PROVE  FALSE
    <3>1. \A v : Special(v) => ~IsString(v) /\ ~IsArray(v) /\ ~IsObject(v)
      BY DEF IsString, IsBoolean, Null, True, False, IsArray, IsObject
    <3>2. \A v : Special(v) => Value(v) = Spelling(v)
      BY <3>1
    <3>3. D(i) = D(j)
      <4> HIDE DEF Value, Special
      <4>1. Spelling(D(i)) = Spelling(D(j))
        BY <2>2, <3>2
      <4>2. QED
        BY <4>1 DEF Spelling
    <3>4. QED
      BY <1>6, <2>2, <3>3 DEF Gettable
  <2> HIDE DEF got, Value, Special, D
  <2>3. QED
    BY <1>3, <1>5, <2>1, <2>2 DEF HasNULL, HasShared
<1>7. QED
  BY <1>5, <1>6

\* Whatever msi_json_objops is asked to do.
LEMMA ObjStep ==
    ASSUME JsonInv, ~lost, msi_json_objops
    PROVE  JsonInv' /\ (NoDuplicates => NoDuplicates')
<1> PICK pairs \in IF kvp = <<>> THEN KVPs ELSE {kvp} :
        \/ ObjGet(pairs)
        \/ \E op \in {"add", "set", "rm", "other"} : ObjChange(op, pairs)
        \/ ObjCrashes(pairs)
        \/ ObjRefuses
  BY DEF msi_json_objops
<1>1. Pairs(pairs) /\ (careful => ~HasNULL(pairs) /\ ~HasShared(pairs))
  <2>1. CASE kvp = <<>>
    BY <2>1, RulePairsFit
  <2>2. CASE kvp # <<>>
    BY <2>2 DEF JsonInv
  <2>3. QED
    BY <2>1, <2>2
<1>2. CASE ObjGet(pairs)
  <2> DEFINE root == Loads(InObject)
             got == [i \in DOMAIN pairs |-> Got(pairs[i], Data(root, pairs[i].key))]
  <2>1. /\ ObjReady(pairs) /\ kvp' = got /\ json_str' = InObject
        /\ careful' = (careful /\ Gettable(root, pairs)) /\ lost' = lost
    BY <1>2 DEF ObjGet
  <2>2. IsDocument(InObject) /\ ShapedRoot(root)
    BY <2>1, InObjectShaped DEF ObjReady
  <2>3. Pairs(got) /\ (Gettable(root, pairs) => ~HasNULL(got) /\ ~HasShared(got))
    BY <1>1, <2>2, GotFit
  <2>4. IsDocument(json_str') => ShapedRoot(Loads(json_str'))
    BY <2>1, <2>2
  <2> HIDE DEF got, root
  <2>5. JsonInv'
    BY <2>1, <2>3, <2>4 DEF JsonInv
  <2>6. ASSUME NoDuplicates PROVE NoDuplicates'
    <3>1. CASE json_str = EmptyText
      <4>1. json_str' = Spelling(Object(<<>>))
        BY <2>1, <3>1 DEF InObject
      <4>2. json_str' # EmptyText /\ ~IsArray(Loads(json_str'))
        BY <4>1 DEF Spelling, EmptyText, Object, Loads, IsArray
      <4>3. QED
        BY <4>2 DEF NoDuplicates, InArray
    <3>2. CASE json_str # EmptyText
      <4>1. json_str' = json_str
        BY <2>1, <3>2 DEF InObject
      <4>2. QED
        BY <4>1, <2>6 DEF NoDuplicates, InArray, Items
    <3>3. QED
      BY <3>1, <3>2
  <2>7. QED
    BY <2>5, <2>6
<1>3. CASE \E op \in {"add", "set", "rm", "other"} : ObjChange(op, pairs)
  <2> PICK op \in {"add", "set", "rm", "other"} : ObjChange(op, pairs)
    BY <1>3
  <2> DEFINE root == Loads(InObject)
             last == AllKeys(op, root, pairs)
  <2>1. /\ ObjReady(pairs) /\ kvp' = pairs /\ json_str' = Spelling(last)
        /\ careful' = careful /\ lost' = lost
    BY DEF ObjChange
  <2>2. IsDocument(InObject) /\ ShapedRoot(root) /\ ~HasNULL(pairs)
    BY <2>1, InObjectShaped DEF ObjReady
  <2>3. /\ ShapedRoot(last)
        /\ ~IsObject(root) => last = root
        /\ IsObject(root) => IsObject(last)
    <3> HIDE DEF root
    <3>1. QED
      BY <1>1, <2>2, AllKeysShaped DEF Pairs
  <2> HIDE DEF last
  <2>4. Loads(json_str') = last /\ json_str' # EmptyText
    BY <2>1 DEF Loads, Spelling, EmptyText
  <2>5. JsonInv'
    BY <1>1, <2>1, <2>3, <2>4 DEF JsonInv
  <2>6. ASSUME NoDuplicates PROVE NoDuplicates'
    <3>1. CASE IsObject(root)
      <4>1. ~IsArray(Loads(json_str'))
        BY <2>3, <2>4, <3>1 DEF IsArray, IsObject
      <4>2. QED
        BY <2>4, <4>1 DEF NoDuplicates, InArray
    <3>2. CASE ~IsObject(root)
      <4>1. IsArray(root) /\ last = root
        BY <2>2, <2>3, <3>2 DEF IsDocument, Loads
      <4>2. json_str # EmptyText
        BY <3>2 DEF InObject, Loads, Spelling, Object, IsObject
      <4>3. InObject = json_str /\ InArray = json_str
        BY <4>2 DEF InObject, InArray
      <4>4. NoRepeats(root[2])
        BY <2>2, <2>6, <4>1, <4>3 DEF NoDuplicates, Items
      <4>5. InArray' = json_str' /\ Items' = root[2]
        BY <2>4, <4>1 DEF InArray, Items
      <4>6. QED
        BY <4>4, <4>5 DEF NoDuplicates
    <3>3. QED
      BY <3>1, <3>2
  <2>7. QED
    BY <2>5, <2>6
<1>4. CASE ObjCrashes(pairs)
  <2>1. ~careful /\ json_str' = json_str /\ kvp' = kvp /\ careful' = careful
    BY <1>1, <1>4 DEF ObjCrashes, ruleVars
  <2>2. QED
    BY <2>1 DEF JsonInv, NoDuplicates, InArray, Items
<1>5. CASE ObjRefuses
  <2>1. json_str' = json_str /\ kvp' = kvp /\ careful' = careful /\ lost' = lost
    BY <1>5 DEF ObjRefuses, Fails, ruleVars
  <2>2. QED
    BY <2>1 DEF JsonInv, NoDuplicates, InArray, Items
<1>6. QED
  BY <1>2, <1>3, <1>4, <1>5

\* The server frees the pairs.
LEMMA NewKVPStep ==
    ASSUME JsonInv, NewKVP
    PROVE  JsonInv' /\ (NoDuplicates => NoDuplicates')
<1>1. /\ lost' = HasShared(kvp) /\ kvp' = <<>>
      /\ json_str' = json_str /\ careful' = careful
  BY DEF NewKVP
<1>2. Pairs(<<>>) /\ ~HasNULL(<<>>) /\ ~HasShared(<<>>)
  <2>1. <<>> \in Seq({}) /\ DOMAIN <<>> = {}
    OBVIOUS
  <2>2. IsSeq(<<>>)
    BY <2>1, SeqIsSeq
  <2>3. QED
    BY <2>1, <2>2 DEF Pairs, HasNULL, HasShared
<1>3. JsonInv'
  BY <1>1, <1>2 DEF JsonInv
<1>4. QED
  BY <1>1, <1>3 DEF NoDuplicates, InArray, Items

\* Documents, pairs and rule are sound at first.
LEMMA JsonInit == Init => JsonInv
<1> SUFFICES ASSUME Init PROVE JsonInv
  OBVIOUS
<1>1. /\ json_str \in Documents /\ kvp = <<>> /\ lost = FALSE
  BY DEF Init
<1>2. IsDocument(json_str) => ShapedRoot(Loads(json_str))
  BY <1>1, JsonAssumption
<1>3. <<>> \in Seq({}) /\ DOMAIN <<>> = {}
  OBVIOUS
<1>4. IsSeq(<<>>)
  BY <1>3, SeqIsSeq
<1>5. QED
  BY <1>1, <1>2, <1>3, <1>4 DEF JsonInv, Pairs, HasNULL, HasShared

\* Every call of the rule preserves both.
LEMMA JsonNext ==
    JsonInv /\ [Next]_jsonVars => JsonInv' /\ (NoDuplicates => NoDuplicates')
<1> SUFFICES ASSUME JsonInv, [Next]_jsonVars
             PROVE  JsonInv' /\ (NoDuplicates => NoDuplicates')
  OBVIOUS
<1>1. CASE ~lost /\ msi_json_arrayops
  BY <1>1, ArrayStep
<1>2. CASE ~lost /\ msi_json_objops
  BY <1>2, ObjStep
<1>3. CASE ~lost /\ NewKVP
  BY <1>3, NewKVPStep
<1>4. CASE UNCHANGED jsonVars
  <2>1. json_str' = json_str /\ kvp' = kvp /\ careful' = careful /\ lost' = lost
    BY <1>4 DEF jsonVars, ruleVars
  <2>2. QED
    BY <2>1 DEF JsonInv, NoDuplicates, InArray, Items
<1>5. QED
  BY <1>1, <1>2, <1>3, <1>4 DEF Next

-----------------------------------------------------------------------------
(* Theorems.                                                               *)

\* The document stays one that jansson can hold, and the pairs stay fit.
THEOREM JsonInvariance == Spec => []JsonInv
BY JsonInit, JsonNext, PTL DEF Spec

\* A careful rule never crashes the agent: no NULL value is compared with
\* "null", and no buffer is freed twice.
THEOREM CarefulRulesAreSafe == Spec => []CarefulRuleSafe
<1>1. JsonInv => CarefulRuleSafe
  BY DEF JsonInv, CarefulRuleSafe
<1>2. QED
  BY <1>1, JsonInvariance, PTL

\* From an empty document, or any other without repetitions, no sequence of
\* calls makes an array that repeats more than true and false.
THEOREM ArraysStayClean == Spec /\ NoDuplicates => []NoDuplicates
BY JsonInit, JsonNext, PTL DEF Spec

\* "get" and then "find", "rm" or "add" is about the element that was got.
THEOREM ElementsAreFoundAgain == Spec => []FoundAgain
<1>1. JsonInv => FoundAgain
  <2> SUFFICES ASSUME JsonInv, IsDocument(InArray), IsArray(Loads(InArray)),
                      NEW i \in DOMAIN Items,
                      \/ IsBoolean(Items[i]) \/ IsArray(Items[i])
                      \/ IsObject(Items[i]) \/ IsPlain(Items[i])
               PROVE  LET e == Element(Given(Items[i]))
                      IN  /\ Find(Items, e) \in 0..(i - 1)
                          /\ Items[Find(Items, e) + 1] = Items[i]
                          /\ Len(Removed(Items, e)) = Len(Items) - 1
                          /\ ~IsBoolean(Items[i]) => Added(Items, e) = Items
    BY DEF FoundAgain
  <2> DEFINE s == Items
             v == Items[i]
             m == FirstMatch(s, v)
  <2>1. IsSeq(s) /\ Shaped(v)
    BY InArrayShaped
  <2>2. Element(Given(v)) = v
    BY <2>1, GivenBack
  <2>3. Len(s) \in Nat /\ DOMAIN s = 1..Len(s)
    BY <2>1, SeqFacts
  <2>4. i \in 1..Len(s) /\ s[i] = v
    BY <2>3
  <2> HIDE DEF s, v
  <2>5. /\ m \in 0..Len(s)
        /\ m < Len(s) => s[m + 1] = v
        /\ m <= i - 1
    BY <2>1, <2>4, FirstMatchIs
  <2>6. /\ Len(Removed(s, v)) = Len(s) - 1
        /\ ~IsBoolean(v) => Added(s, v) = s
    BY <2>1, <2>3, <2>4, RemovedIs, AddedIs
  <2>7. m < Len(s)
    <3> HIDE DEF m
    <3>1. QED
      BY <2>3, <2>4, <2>5
  <2>8. Find(s, v) = m
    BY <2>7 DEF Find
  <2> HIDE DEF m
  <2>9. m \in 0..(i - 1) /\ s[m + 1] = v
    BY <2>3, <2>4, <2>5, <2>7
  <2>10. QED
    BY <2>2, <2>6, <2>8, <2>9 DEF s, v
<1>2. QED
  BY <1>1, JsonInvariance, PTL

\* "get" and then "set" leaves the object as it was, and "rm" takes out the key.
THEOREM GettingAndSettingAgree == Spec => []GetSetIdentity
<1>1. JsonInv => GetSetIdentity
  <2> SUFFICES ASSUME JsonInv, IsDocument(InObject), IsObject(Loads(InObject)),
                      NEW key \in DOMAIN Loads(InObject)[2],
                      LET v == Data(Loads(InObject), key)
                      IN  v = Null \/ IsArray(v) \/ IsObject(v) \/ IsPlain(v)
               PROVE  LET root == Loads(InObject)
                          v    == Data(root, key)
                          got  == Got([key |-> key, value |-> EmptyText, shared |-> FALSE], v)
                      IN  /\ AllKeys("set", root, <<got>>) = root
                          /\ ~IsArray(v) => AllKeys("rm", root, <<got>>) = Del(root, key)
    BY DEF GetSetIdentity
  <2> DEFINE root == Loads(InObject)
             f    == root[2]
             v    == Data(root, key)
             got  == Got([key |-> key, value |-> EmptyText, shared |-> FALSE], v)
  <2>1. ShapedRoot(root)
    BY InObjectShaped
  <2>2. ~(root = Array(f))
    BY DEF IsObject, Array
  <2>3. root = Object(f) /\ f = [m \in DOMAIN f |-> f[m]] /\ \A m \in DOMAIN f : Shaped(f[m])
    BY <2>1, <2>2 DEF ShapedRoot
  <2>4. v = f[key] /\ Shaped(v)
    BY <2>3 DEF Data
  <2>5. Member(got.value) = v /\ got.key = key
    <3>1. Member(got.value) = v
      BY <2>4, GotBack
    <3>2. got.key = key
      BY DEF Got
    <3>3. QED
      BY <3>1, <3>2
  <2>6. IsObject(root) /\ key \in DOMAIN f
    OBVIOUS
  <2> HIDE DEF got
  <2>7. ASSUME NEW op PROVE AllKeys(op, root, <<got>>) = WithKey(op, root, key, v)
    <3> DEFINE pairs == <<got>>
    <3>1. pairs \in Seq({got}) /\ Len(pairs) = 1 /\ pairs[1] = got
      OBVIOUS
    <3> HIDE DEF pairs
    <3>2. IsSeq(pairs)
      BY <3>1, SeqIsSeq
    <3>3. PICK g : Roots(g, op, root, pairs, Len(pairs)) /\ AllKeys(op, root, pairs) = g[Len(pairs)]
      BY <3>2, AllKeysIsLast
    <3>4. g[0] = root /\ g[1] = Step(op, g[0], pairs[1])
      BY <3>1, <3>3 DEF Roots
    <3>5. g[1] = WithKey(op, root, key, v)
      BY <2>5, <3>1, <3>4 DEF Step
    <3>6. QED
      BY <3>1, <3>3, <3>5 DEF pairs
  <2> HIDE DEF root, v
  <2>8. Set(root, key, v) = root
    <3>1. [m \in DOMAIN f \cup {key} |-> IF m = key THEN v ELSE f[m]] = [m \in DOMAIN f |-> f[m]]
      BY <2>4, <2>6
    <3> HIDE DEF f
    <3>2. Set(root, key, v) = Object([m \in DOMAIN f \cup {key} |-> IF m = key THEN v ELSE f[m]])
      BY <2>6 DEF Set, f
    <3>3. QED
      BY <2>3, <3>1, <3>2
  <2>9. AllKeys("set", root, <<got>>) = root
    BY <2>7, <2>8 DEF WithKey
  <2>10. ASSUME ~IsArray(v) PROVE AllKeys("rm", root, <<got>>) = Del(root, key)
    <3>1. WithKey("rm", root, key, v) = Del(root, key)
      BY <2>10 DEF WithKey, v
    <3>2. QED
      BY <2>7, <3>1
  <2>11. QED
    BY <2>9, <2>10 DEF root, v, got
<1>2. QED
  BY <1>1, JsonInvariance, PTL
=============================================================================
