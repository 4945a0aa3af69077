-------------------------- MODULE VaultFilesProofs --------------------------
(***************************************************************************)
(* Proofs about msiStatVault, msiFileChecksum and msiDirList, for paths of *)
(* any length, any disks and any number of changes by others.              *)
(***************************************************************************)
EXTENDS VaultFiles, SequenceTheorems, FunctionTheorems, FiniteSetTheorems,
        WellFoundedInduction, TLAPS

-----------------------------------------------------------------------------
(* Induction, and sequences.                                               *)

\* Every set of natural numbers has a least one.
LEMMA LeastNat ==
    ASSUME NEW S \in SUBSET Nat, S # {}
    PROVE  \E m \in S : \A k \in S : m <= k
<1> DEFINE less == OpToRel(<, Nat)
<1>1. IsWellFoundedOn(less, Nat)
  BY NatLessThanWellFounded, Zenon
<1>2. \A x, y \in Nat : x < y => <<x, y>> \in less
  BY DEF OpToRel
<1> HIDE DEF less
<1>3. PICK m \in S : \A k \in S : ~(<<k, m>> \in less)
  BY <1>1, WFMin
<1>4. ASSUME NEW k \in S PROVE m <= k
  <2>1. m \in Nat /\ k \in Nat /\ ~(k < m)
    BY <1>2, <1>3
  <2>2. QED
    BY <2>1
<1>5. QED
  BY <1>4

\* Induction over the natural numbers, for a set.
LEMMA SetInduction ==
    ASSUME NEW S \in SUBSET Nat, 0 \in S, \A n \in Nat : n \in S => n + 1 \in S
    PROVE  S = Nat
<1> SUFFICES ASSUME Nat \ S # {} PROVE FALSE
  OBVIOUS
<1>1. PICK m \in Nat \ S : \A k \in Nat \ S : m <= k
  BY LeastNat
<1>2. m # 0
  OBVIOUS
<1>3. m - 1 \in Nat /\ ~(m <= m - 1)
  BY <1>2
<1>4. m - 1 \in S
  BY <1>1, <1>3
<1>5. QED
  BY <1>3, <1>4

\* A sequence has a length, and its domain goes up to it.
LEMMA SeqFacts ==
    ASSUME NEW s, IsSeq(s)
    PROVE  Len(s) \in Nat /\ DOMAIN s = 1..Len(s) /\ \A i \in 1..Len(s) : s[i] \in ToSet(s)
BY LenProperties DEF IsSeq, ToSet

\* What is left of a sequence without its last element.
LEMMA FrontIs ==
    ASSUME NEW S, NEW s \in Seq(S)
    PROVE  /\ Front(s) \in Seq(S)
           /\ s # <<>> => /\ Len(Front(s)) = Len(s) - 1
                          /\ \A i \in 1..(Len(s) - 1) : Front(s)[i] = s[i]
                          /\ Last(s) = s[Len(s)] /\ Len(s) > 0
<1>1. Len(s) \in Nat /\ \A i \in 1..Len(s) : s[i] \in S
  BY LenProperties
<1>2. 1 \in Int /\ Len(s) - 1 \in Int /\ \A i \in 1..(Len(s) - 1) : s[i] \in S
  BY <1>1
<1>3. /\ Front(s) \in Seq(S)
      /\ Len(Front(s)) = IF 1 <= Len(s) - 1 THEN (Len(s) - 1) - 1 + 1 ELSE 0
      /\ \A i \in 1..((Len(s) - 1) - 1 + 1) : Front(s)[i] = s[1 + i - 1]
  BY <1>2, SubSeqProperties DEF Front
<1>4. ASSUME s # <<>> PROVE Len(s) > 0
  BY <1>1, <1>4, EmptySeq
<1>5. ASSUME s # <<>> PROVE Len(Front(s)) = Len(s) - 1
  <2> DEFINE n == Len(s)
  <2>1. n \in Nat /\ n > 0
    BY <1>1, <1>4, <1>5
  <2>2. Len(Front(s)) = IF 1 <= n - 1 THEN (n - 1) - 1 + 1 ELSE 0
    BY <1>3
  <2> HIDE DEF n
  <2>3. (IF 1 <= n - 1 THEN (n - 1) - 1 + 1 ELSE 0) = n - 1
    BY <2>1
  <2>4. QED
    BY <2>2, <2>3 DEF n
<1>6. ASSUME NEW i \in 1..(Len(s) - 1) PROVE Front(s)[i] = s[i]
  <2>1. i \in 1..((Len(s) - 1) - 1 + 1) /\ 1 + i - 1 = i
    BY <1>1
  <2>2. Front(s)[i] = s[1 + i - 1]
    BY <1>3, <2>1
  <2>3. QED
    BY <2>1, <2>2
<1>7. QED
  BY <1>3, <1>4, <1>5, <1>6 DEF Last

\* A sequence over any set is a sequence.
LEMMA SeqIsSeq ==
    ASSUME NEW S, NEW s \in Seq(S)
    PROVE  IsSeq(s)
<1>1. Len(s) \in Nat /\ DOMAIN s = 1..Len(s) /\ s \in [1..Len(s) -> S]
  BY LenProperties
<1>2. s \in [1..Len(s) -> ToSet(s)]
  BY <1>1 DEF ToSet
<1>3. QED
  BY <1>1, <1>2 DEF IsSeq

\* The first n elements of a sequence.
LEMMA PrefixIs ==
    ASSUME NEW S, NEW s \in Seq(S), NEW n \in 0..Len(s)
    PROVE  /\ SubSeq(s, 1, n) \in Seq(S)
           /\ Len(SubSeq(s, 1, n)) = n
           /\ \A i \in 1..n : SubSeq(s, 1, n)[i] = s[i]
<1>1. Len(s) \in Nat /\ \A i \in 1..Len(s) : s[i] \in S
  BY LenProperties
<1>2. 1 \in Int /\ n \in Int /\ n >= 0 /\ \A i \in 1..n : s[i] \in S
  BY <1>1
<1>3. /\ SubSeq(s, 1, n) \in Seq(S)
      /\ Len(SubSeq(s, 1, n)) = IF 1 <= n THEN n - 1 + 1 ELSE 0
      /\ \A i \in 1..(n - 1 + 1) : SubSeq(s, 1, n)[i] = s[1 + i - 1]
  BY <1>2, SubSeqProperties
<1>4. (IF 1 <= n THEN n - 1 + 1 ELSE 0) = n
  BY <1>2
<1>5. ASSUME NEW i \in 1..n PROVE SubSeq(s, 1, n)[i] = s[i]
  <2>1. i \in 1..(n - 1 + 1) /\ 1 + i - 1 = i
    BY <1>2
  <2>2. SubSeq(s, 1, n)[i] = s[1 + i - 1]
    BY <1>3, <2>1
  <2>3. QED
    BY <2>1, <2>2
<1>6. QED
  BY <1>3, <1>4, <1>5

-----------------------------------------------------------------------------
(* Paths, name by name.                                                    *)

\* The next name, for lexically_normal or for the file system.
Follow(how, acc, name, last) ==
    IF how = "normal" THEN AddNormal(acc, name, last) ELSE GoTo(acc, name)

\* f[i] is what the first i names of a path come to, for i up to m.
Follows(f, how, path, m) ==
    /\ f = [i \in 0..m |-> f[i]]
    /\ f[0] = <<>>
    /\ \A i \in 1..m : f[i] = Follow(how, f[i - 1], path[i], i = Len(path))

\* There is such a function.
LEMMA FollowsExists ==
    ASSUME NEW how, NEW path, NEW m \in Nat
    PROVE  \E f : Follows(f, how, path, m)
<1> DEFINE S == {k \in Nat : \E f : Follows(f, how, path, k)}
<1>1. 0 \in S
  <2> DEFINE f0 == [j \in 0..0 |-> <<>>]
  <2>1. f0 = [j \in 0..0 |-> f0[j]] /\ f0[0] = <<>>
    OBVIOUS
  <2>2. Follows(f0, how, path, 0)
    BY <2>1 DEF Follows
  <2>3. QED
    BY <2>2
<1>2. ASSUME NEW k \in Nat, k \in S PROVE k + 1 \in S
  <2>1. PICK f : Follows(f, how, path, k)
    BY <1>2
  <2> DEFINE t == Follow(how, f[k], path[k + 1], k + 1 = Len(path))
             g == [j \in 0..(k + 1) |-> IF j = k + 1 THEN t ELSE f[j]]
  <2>2. /\ f[0] = <<>>
        /\ \A n \in 1..k : f[n] = Follow(how, f[n - 1], path[n], n = Len(path))
    BY <2>1 DEF Follows
  <2>3. g = [j \in 0..(k + 1) |-> g[j]] /\ g[0] = <<>>
    <3> HIDE DEF t
    <3>1. QED
      BY <2>2
  <2>4. ASSUME NEW n \in 1..(k + 1)
        PROVE  g[n] = Follow(how, g[n - 1], path[n], n = Len(path))
    <3>1. n \in 0..(k + 1) /\ n - 1 \in 0..(k + 1) /\ n - 1 # k + 1
      OBVIOUS
    <3>2. g[n - 1] = f[n - 1]
      BY <3>1
    <3>3. CASE n = k + 1
      <4>1. n - 1 = k /\ g[n] = t
        BY <3>1, <3>3
      <4>2. QED
        BY <3>2, <3>3, <4>1
    <3>4. CASE n # k + 1
      <4>1. n \in 1..k /\ g[n] = f[n]
        BY <3>1, <3>4
      <4>2. QED
        BY <2>2, <3>2, <4>1
    <3>5. QED
      BY <3>3, <3>4
  <2>5. Follows(g, how, path, k + 1)
    <3> HIDE DEF g
    <3>1. QED
      BY <2>3, <2>4 DEF Follows
  <2>6. QED
    BY <2>5
<1> HIDE DEF S
<1>3. S = Nat
  <2>1. S \in SUBSET Nat
    BY DEF S
  <2>2. QED
    BY <1>1, <1>2, <2>1, SetInduction
<1>4. QED
  BY <1>3 DEF S

\* Normal gives the last value of one.
LEMMA NormalIsLast ==
    ASSUME NEW path, IsSeq(path)
    PROVE  \E f : Follows(f, "normal", path, Len(path)) /\ Normal(path) = f[Len(path)]
<1> DEFINE N == Len(path)
           Rec(h) == h = [i \in 0..N |-> IF i = 0 THEN <<>>
                                         ELSE AddNormal(h[i - 1], path[i], i = N)]
           last == CHOOSE h : Rec(h)
<1>1. N \in Nat
  BY SeqFacts
<1>2. PICK f : Follows(f, "normal", path, N)
  BY <1>1, FollowsExists
<1>3. Rec(f)
  <2>1. \A i \in 0..N : f[i] = IF i = 0 THEN <<>> ELSE AddNormal(f[i - 1], path[i], i = N)
    <3>1. f[0] = <<>> /\ \A i \in 1..N : f[i] = AddNormal(f[i - 1], path[i], i = N)
      BY <1>2 DEF Follows, Follow
    <3> HIDE DEF N
    <3>2. \A i \in 0..N : i = 0 \/ (i # 0 /\ i \in 1..N)
      BY <1>1
    <3>3. QED
      BY <3>1, <3>2
  <2>2. f = [i \in 0..N |-> f[i]]
    BY <1>2 DEF Follows
  <2> HIDE DEF N
  <2>3. QED
    BY <2>1, <2>2, Zenon
<1>4. Rec(last)
  BY <1>3, Zenon
<1>5. Normal(path) = last[N]
  BY DEF Normal
<1> HIDE DEF last
<1>6. Follows(last, "normal", path, N)
  <2>1. /\ \A i \in 0..N : last[i] = IF i = 0 THEN <<>> ELSE AddNormal(last[i - 1], path[i], i = N)
        /\ last = [i \in 0..N |-> last[i]]
    BY <1>4, Zenon
  <2>2. last[0] = <<>> /\ \A i \in 1..N : last[i] = AddNormal(last[i - 1], path[i], i = N)
    <3> HIDE DEF N
    <3>1. 0 \in 0..N /\ \A i \in 1..N : i \in 0..N /\ i # 0
      BY <1>1
    <3>2. QED
      BY <2>1, <3>1
  <2>3. QED
    BY <2>1, <2>2 DEF Follows, Follow
<1>7. QED
  BY <1>5, <1>6

\* Place gives the last value of one.
LEMMA PlaceIsLast ==
    ASSUME NEW path, IsSeq(path)
    PROVE  \E f : Follows(f, "place", path, Len(path)) /\ Place(path) = f[Len(path)]
<1> DEFINE N == Len(path)
           Rec(h) == h = [i \in 0..N |-> IF i = 0 THEN <<>> ELSE GoTo(h[i - 1], path[i])]
           last == CHOOSE h : Rec(h)
<1>1. N \in Nat
  BY SeqFacts
<1>2. PICK f : Follows(f, "place", path, N)
  BY <1>1, FollowsExists
<1>3. Rec(f)
  <2>1. \A i \in 0..N : f[i] = IF i = 0 THEN <<>> ELSE GoTo(f[i - 1], path[i])
    <3>1. f[0] = <<>> /\ \A i \in 1..N : f[i] = GoTo(f[i - 1], path[i])
      BY <1>2 DEF Follows, Follow
    <3> HIDE DEF N
    <3>2. \A i \in 0..N : i = 0 \/ (i # 0 /\ i \in 1..N)
      BY <1>1
    <3>3. QED
      BY <3>1, <3>2
  <2>2. f = [i \in 0..N |-> f[i]]
    BY <1>2 DEF Follows
  <2> HIDE DEF N
  <2>3. QED
    BY <2>1, <2>2, Zenon
<1>4. Rec(last)
  BY <1>3, Zenon
<1>5. Place(path) = last[N]
  BY DEF Place
<1> HIDE DEF last
<1>6. Follows(last, "place", path, N)
  <2>1. /\ \A i \in 0..N : last[i] = IF i = 0 THEN <<>> ELSE GoTo(last[i - 1], path[i])
        /\ last = [i \in 0..N |-> last[i]]
    BY <1>4, Zenon
  <2>2. last[0] = <<>> /\ \A i \in 1..N : last[i] = GoTo(last[i - 1], path[i])
    <3> HIDE DEF N
    <3>1. 0 \in 0..N /\ \A i \in 1..N : i \in 0..N /\ i # 0
      BY <1>1
    <3>2. QED
      BY <2>1, <3>1
  <2>3. QED
    BY <2>1, <2>2 DEF Follows, Follow
<1>7. QED
  BY <1>5, <1>6

\* A path in which "." and ".." do not occur.
Clean(p) == IsSeq(p) /\ \A i \in 1..Len(p) : p[i] # "." /\ p[i] # ".."

\* The file system goes from place to place.
LEMMA GoToClean ==
    ASSUME NEW S, NEW acc \in Seq(S), NEW name \in S, Clean(acc)
    PROVE  GoTo(acc, name) \in Seq(S) /\ Clean(GoTo(acc, name))
<1>1. Len(acc) \in Nat
  BY LenProperties
<1>2. CASE name = "."
  <2>1. GoTo(acc, name) = acc
    BY <1>2 DEF GoTo
  <2>2. QED
    BY <2>1
<1>3. CASE name = ".."
  <2>1. GoTo(acc, name) = Front(acc)
    BY <1>3 DEF GoTo
  <2>2. Front(acc) \in Seq(S) /\ IsSeq(Front(acc))
    BY FrontIs, SeqIsSeq
  <2>3. CASE acc = <<>>
    <3>1. Front(acc) = <<>>
      BY <2>3 DEF Front
    <3>2. QED
      BY <2>1, <2>2, <2>3, <3>1
  <2>4. CASE acc # <<>>
    <3>1. /\ Len(Front(acc)) = Len(acc) - 1
          /\ \A i \in 1..(Len(acc) - 1) : Front(acc)[i] = acc[i]
      BY <2>4, FrontIs
    <3>2. \A i \in 1..(Len(acc) - 1) : i \in 1..Len(acc)
      BY <1>1
    <3>3. QED
      BY <2>1, <2>2, <3>1, <3>2 DEF Clean
  <2>5. QED
    BY <2>3, <2>4
<1>4. CASE name # "." /\ name # ".."
  <2> DEFINE r == Append(acc, name)
  <2>1. GoTo(acc, name) = r
    BY <1>4 DEF GoTo
  <2>2. /\ r \in Seq(S) /\ Len(r) = Len(acc) + 1
        /\ \A i \in 1..Len(acc) : r[i] = acc[i]
        /\ r[Len(acc) + 1] = name
    BY AppendProperties
  <2> HIDE DEF r
  <2>3. IsSeq(r)
    BY <2>2, SeqIsSeq
  <2>4. \A i \in 1..Len(r) : i \in 1..Len(acc) \/ i = Len(acc) + 1
    BY <1>1, <2>2
  <2>5. QED
    BY <1>4, <2>1, <2>2, <2>3, <2>4 DEF Clean
<1>5. QED
  BY <1>2, <1>3, <1>4

\* Every place along a path is clean.
LEMMA PlacesClean ==
    ASSUME NEW S, NEW path \in Seq(S), NEW f, Follows(f, "place", path, Len(path))
    PROVE  \A i \in 0..Len(path) : f[i] \in Seq(S) /\ Clean(f[i])
<1> DEFINE N == Len(path)
           T == {k \in Nat : k <= N => f[k] \in Seq(S) /\ Clean(f[k])}
<1>1. N \in Nat /\ \A i \in 1..N : path[i] \in S
  BY LenProperties
<1>2. f[0] = <<>> /\ \A i \in 1..N : f[i] = GoTo(f[i - 1], path[i])
  BY DEF Follows, Follow
<1>3. 0 \in T
  <2>1. <<>> \in Seq(S) /\ Len(<<>>) = 0
    OBVIOUS
  <2>2. Clean(<<>>)
    <3>1. IsSeq(<<>>)
      BY <2>1, SeqIsSeq
    <3>2. QED
      BY <2>1, <3>1 DEF Clean
  <2>3. QED
    BY <1>2, <2>1, <2>2
<1>4. ASSUME NEW k \in Nat, k \in T PROVE k + 1 \in T
  <2> SUFFICES ASSUME k + 1 <= N PROVE f[k + 1] \in Seq(S) /\ Clean(f[k + 1])
    OBVIOUS
  <2>1. f[k] \in Seq(S) /\ Clean(f[k])
    BY <1>1, <1>4
  <2>2. k + 1 \in 1..N /\ (k + 1) - 1 = k
    BY <1>1
  <2>3. f[k + 1] = GoTo(f[k], path[k + 1]) /\ path[k + 1] \in S
    BY <1>1, <1>2, <2>2
  <2>4. QED
    BY <2>1, <2>3, GoToClean
<1> HIDE DEF T
<1>5. T = Nat
  <2>1. T \in SUBSET Nat
    BY DEF T
  <2>2. QED
    BY <1>3, <1>4, <2>1, SetInduction
<1>6. QED
  <2>1. \A i \in 0..N : i \in Nat /\ i <= N
    BY <1>1
  <2>2. QED
    BY <1>5, <2>1 DEF T

\* Two paths have the same first m names.
SameNames(path, path2, m) == \A i \in 1..m : path[i] = path2[i]

\* Following a path and following a longer one agree on the names they share.
LEMMA FollowsAgree ==
    ASSUME NEW path, NEW path2, NEW m \in Nat, NEW m2 \in Nat, m <= m2, NEW f, NEW g,
           Follows(f, "place", path, m), Follows(g, "place", path2, m2),
           SameNames(path, path2, m)
    PROVE  \A i \in 0..m : f[i] = g[i]
<1> DEFINE T == {k \in Nat : k <= m => f[k] = g[k]}
<1>1. /\ f[0] = <<>> /\ \A i \in 1..m : f[i] = GoTo(f[i - 1], path[i])
      /\ g[0] = <<>> /\ \A i \in 1..m2 : g[i] = GoTo(g[i - 1], path2[i])
  BY DEF Follows, Follow
<1>2. 0 \in T
  BY <1>1
<1>3. ASSUME NEW k \in Nat, k \in T PROVE k + 1 \in T
  <2> SUFFICES ASSUME k + 1 <= m PROVE f[k + 1] = g[k + 1]
    OBVIOUS
  <2>1. f[k] = g[k]
    BY <1>3
  <2>2. k + 1 \in 1..m /\ k + 1 \in 1..m2 /\ (k + 1) - 1 = k
    OBVIOUS
  <2>3. f[k + 1] = GoTo(f[k], path[k + 1]) /\ g[k + 1] = GoTo(g[k], path2[k + 1])
    BY <1>1, <2>2
  <2>4. QED
    BY <2>1, <2>2, <2>3 DEF SameNames
<1> HIDE DEF T
<1>4. T = Nat
  <2>1. T \in SUBSET Nat
    BY DEF T
  <2>2. QED
    BY <1>2, <1>3, <2>1, SetInduction
<1>5. QED
  BY <1>4 DEF T

\* The first k names of a path lead to the place that following it comes by.
LEMMA PlaceOfPrefix ==
    ASSUME NEW S, NEW path \in Seq(S), NEW f, Follows(f, "place", path, Len(path)),
           NEW k \in 0..Len(path)
    PROVE  Place(SubSeq(path, 1, k)) = f[k]
<1> DEFINE pre == SubSeq(path, 1, k)
<1>1. Len(path) \in Nat /\ k \in Nat /\ k <= Len(path)
  BY LenProperties
<1>2. pre \in Seq(S) /\ Len(pre) = k /\ \A i \in 1..k : pre[i] = path[i]
  BY PrefixIs
<1> HIDE DEF pre
<1>3. PICK g : Follows(g, "place", pre, k) /\ Place(pre) = g[k]
  BY <1>2, SeqIsSeq, PlaceIsLast
<1>4. \A i \in 0..k : g[i] = f[i]
  <2>1. SameNames(pre, path, k)
    BY <1>2 DEF SameNames
  <2> DEFINE n == Len(path)
  <2>2. n \in Nat /\ k \in Nat /\ k <= n /\ Follows(f, "place", path, n) /\ Follows(g, "place", pre, k)
    BY <1>1, <1>3
  <2> HIDE DEF n
  <2>3. QED
    BY <2>1, <2>2, FollowsAgree
<1>5. QED
  BY <1>1, <1>3, <1>4 DEF pre

\* A path without "." and ".." is its place, and one with a "." behind it.
LEMMA PlaceOfClean ==
    ASSUME NEW p, Clean(p)
    PROVE  Place(p) = p /\ Place(Append(p, ".")) = p
<1> DEFINE S == ToSet(p) \cup {"."}
           q == Append(p, ".")
           N == Len(p)
<1>1. p \in Seq(S)
  BY DEF Clean, IsSeq
<1>2. /\ q \in Seq(S) /\ Len(q) = N + 1 /\ N \in Nat
      /\ \A i \in 1..N : q[i] = p[i] /\ p[i] \in S
      /\ q[N + 1] = "."
  <2>1. "." \in S
    OBVIOUS
  <2> HIDE DEF S
  <2>2. QED
    BY <1>1, <2>1, AppendProperties, LenProperties
<1> HIDE DEF S, q
<1>3. PICK f : Follows(f, "place", q, Len(q)) /\ Place(q) = f[Len(q)]
  BY <1>2, SeqIsSeq, PlaceIsLast
<1>4. PICK g : Follows(g, "place", p, N) /\ Place(p) = g[N]
  BY PlaceIsLast DEF Clean
<1>5. f[0] = <<>> /\ \A i \in 1..(N + 1) : f[i] = GoTo(f[i - 1], q[i])
  BY <1>2, <1>3 DEF Follows, Follow
<1> DEFINE T == {k \in Nat : k <= N => f[k] = SubSeq(p, 1, k)}
<1>6. 0 \in T
  <2>1. SubSeq(p, 1, 0) = <<>>
    BY SubSeqEmpty
  <2>2. QED
    BY <1>5, <2>1
<1>7. ASSUME NEW k \in Nat, k \in T PROVE k + 1 \in T
  <2> SUFFICES ASSUME k + 1 <= N PROVE f[k + 1] = SubSeq(p, 1, k + 1)
    OBVIOUS
  <2>1. f[k] = SubSeq(p, 1, k)
    BY <1>2, <1>7
  <2>2. k + 1 \in 1..N /\ k + 1 \in 1..(N + 1) /\ (k + 1) - 1 = k
        /\ k + 1 \in 0..N /\ k \in 0..N
    BY <1>2
  <2>3. f[k + 1] = GoTo(f[k], q[k + 1]) /\ q[k + 1] = p[k + 1] /\ p[k + 1] \in S
    BY <1>2, <1>5, <2>2
  <2>4. f[k + 1] = Append(SubSeq(p, 1, k), p[k + 1])
    BY <2>1, <2>2, <2>3 DEF GoTo, Clean
  <2>5. Append(SubSeq(p, 1, k), p[k + 1]) = SubSeq(p, 1, k + 1)
    <3> DEFINE a == SubSeq(p, 1, k)
               b == SubSeq(p, 1, k + 1)
               c == Append(a, p[k + 1])
    <3>1. a \in Seq(S) /\ Len(a) = k /\ \A i \in 1..k : a[i] = p[i]
      BY <1>1, <2>2, PrefixIs
    <3>2. b \in Seq(S) /\ Len(b) = k + 1 /\ \A i \in 1..(k + 1) : b[i] = p[i]
      BY <1>1, <2>2, PrefixIs
    <3> HIDE DEF a, b
    <3>3. /\ c \in Seq(S) /\ Len(c) = k + 1
          /\ \A i \in 1..k : c[i] = a[i]
          /\ c[k + 1] = p[k + 1]
      BY <2>3, <3>1, AppendProperties
    <3> HIDE DEF c
    <3>4. \A i \in 1..Len(c) : c[i] = b[i]
      <4>1. \A i \in 1..(k + 1) : i \in 1..k \/ i = k + 1
        OBVIOUS
      <4>2. QED
        BY <3>1, <3>2, <3>3, <4>1
    <3>5. c = b
      BY <3>2, <3>3, <3>4, SeqEqual
    <3>6. QED
      BY <3>5 DEF a, b, c
  <2>6. QED
    BY <2>4, <2>5
<1> HIDE DEF T
<1>8. T = Nat
  <2>1. T \in SUBSET Nat
    BY DEF T
  <2>2. QED
    BY <1>6, <1>7, <2>1, SetInduction
<1>9. f[N] = p
  <2>1. f[N] = SubSeq(p, 1, N)
    BY <1>2, <1>8 DEF T
  <2>2. SubSeq(p, 1, N) = p
    BY <1>1, SubSeqFull
  <2>3. QED
    BY <2>1, <2>2
<1>10. Place(p) = p
  <2>1. SameNames(p, q, N)
    BY <1>2 DEF SameNames
  <2>2. \A i \in 0..N : g[i] = f[i]
    <3>1. N + 1 \in Nat /\ N <= N + 1 /\ Follows(f, "place", q, N + 1)
      BY <1>2, <1>3
    <3>2. QED
      BY <1>2, <1>4, <2>1, <3>1, FollowsAgree
  <2>3. QED
    BY <1>2, <1>4, <1>9, <2>2
<1>11. Place(q) = p
  <2>1. N + 1 \in 1..(N + 1) /\ (N + 1) - 1 = N
    BY <1>2
  <2>2. f[N + 1] = GoTo(f[N], ".")
    BY <1>2, <1>5, <2>1
  <2>3. QED
    BY <1>2, <1>3, <1>9, <2>2 DEF GoTo
<1>12. QED
  BY <1>10, <1>11 DEF q

\* The first names of a clean path are a clean path.
LEMMA PrefixClean ==
    ASSUME NEW p, Clean(p), NEW n \in 0..Len(p)
    PROVE  Clean(SubSeq(p, 1, n)) /\ Len(SubSeq(p, 1, n)) = n
<1> DEFINE S == ToSet(p)
           q == SubSeq(p, 1, n)
<1>1. p \in Seq(S) /\ Len(p) \in Nat
  BY SeqFacts DEF Clean, IsSeq
<1> HIDE DEF S
<1>2. q \in Seq(S) /\ Len(q) = n /\ \A i \in 1..n : q[i] = p[i]
  BY <1>1, PrefixIs
<1> HIDE DEF q
<1>3. IsSeq(q) /\ \A i \in 1..n : i \in 1..Len(p)
  BY <1>1, <1>2, SeqIsSeq
<1>4. Clean(q) /\ Len(q) = n
  BY <1>2, <1>3 DEF Clean
<1>5. QED
  BY <1>4 DEF q

\* Whoever reaches a place has come by every directory above it.
LEMMA PrefixesPassed ==
    ASSUME NEW S, NEW path \in Seq(S), NEW f, Follows(f, "place", path, Len(path))
    PROVE  \A i \in 0..Len(path) : \A j \in 1..Len(f[i]) :
              \E k \in 1..i : SubSeq(f[i], 1, j) = f[k]
<1> DEFINE N == Len(path)
           Passed(i) == \A j \in 1..Len(f[i]) : \E k \in 1..i : SubSeq(f[i], 1, j) = f[k]
           T == {i \in Nat : i <= N => Passed(i)}
<1>1. N \in Nat /\ \A i \in 1..N : path[i] \in S
  BY LenProperties
<1>2. f[0] = <<>> /\ \A i \in 1..N : f[i] = GoTo(f[i - 1], path[i])
  BY DEF Follows, Follow
<1>3. \A i \in 0..N : f[i] \in Seq(S) /\ Len(f[i]) \in Nat
  BY PlacesClean, LenProperties
<1>4. 0 \in T
  <2>1. Len(f[0]) = 0
    BY <1>2
  <2>2. QED
    BY <2>1
<1>5. ASSUME NEW i \in Nat, i \in T PROVE i + 1 \in T
  <2> SUFFICES ASSUME i + 1 <= N PROVE Passed(i + 1)
    OBVIOUS
  <2> DEFINE a == f[i]
             b == f[i + 1]
             name == path[i + 1]
  <2>1. i + 1 \in 1..N /\ (i + 1) - 1 = i /\ i \in 0..N /\ i + 1 \in 0..N
    BY <1>1
  <2>2. b = GoTo(a, name) /\ name \in S
    BY <1>1, <1>2, <2>1
  <2>3. a \in Seq(S) /\ Len(a) \in Nat /\ b \in Seq(S) /\ Len(b) \in Nat
    BY <1>3, <2>1
  <2>4. \A j \in 1..Len(a) : \E k \in 1..(i + 1) : SubSeq(a, 1, j) = f[k]
    BY <1>5, <2>1
  <2> SUFFICES ASSUME NEW j \in 1..Len(b)
               PROVE  \E k \in 1..(i + 1) : SubSeq(b, 1, j) = f[k]
    OBVIOUS
  <2>5. CASE j = Len(b)
    <3>1. SubSeq(b, 1, j) = b
      BY <2>3, <2>5, SubSeqFull
    <3>2. i + 1 \in 1..(i + 1)
      OBVIOUS
    <3>3. QED
      BY <3>1, <3>2
  <2>6. CASE j # Len(b)
    <3>1. j \in 1..Len(a) /\ SubSeq(b, 1, j) = SubSeq(a, 1, j)
      <4>1. ASSUME \A m \in 1..(Len(b) - 1) : m \in 1..Len(a) /\ b[m] = a[m]
            PROVE  j \in 1..Len(a) /\ SubSeq(b, 1, j) = SubSeq(a, 1, j)
        <5>1. j \in 1..(Len(b) - 1) /\ j \in 0..Len(b)
          BY <2>3, <2>6
        <5>2. j \in 1..Len(a) /\ j \in 0..Len(a)
          BY <2>3, <4>1, <5>1
        <5> DEFINE u == SubSeq(a, 1, j)
                   v == SubSeq(b, 1, j)
        <5>3. u \in Seq(S) /\ Len(u) = j /\ \A m \in 1..j : u[m] = a[m]
          BY <2>3, <5>2, PrefixIs
        <5>4. v \in Seq(S) /\ Len(v) = j /\ \A m \in 1..j : v[m] = b[m]
          BY <2>3, <5>1, PrefixIs
        <5> HIDE DEF u, v
        <5>5. \A m \in 1..j : m \in 1..(Len(b) - 1)
          BY <2>3, <5>1
        <5>6. \A m \in 1..Len(v) : v[m] = u[m]
          BY <4>1, <5>3, <5>4, <5>5
        <5>7. v = u
          BY <5>3, <5>4, <5>6, SeqEqual
        <5>8. QED
          BY <5>2, <5>7 DEF u, v
      <4>2. CASE name = "."
        <5>1. b = a
          BY <2>2, <4>2 DEF GoTo
        <5>2. \A m \in 1..(Len(b) - 1) : m \in 1..Len(a) /\ b[m] = a[m]
          BY <2>3, <5>1
        <5>3. QED
          BY <4>1, <5>2
      <4>3. CASE name = ".."
        <5>1. b = Front(a)
          BY <2>2, <4>3 DEF GoTo
        <5>2. a # <<>>
          <6>1. Front(<<>>) = <<>>
            BY DEF Front
          <6>2. QED
            BY <2>3, <5>1, <6>1
        <5>3. Len(b) = Len(a) - 1 /\ \A m \in 1..(Len(a) - 1) : b[m] = a[m]
          BY <2>3, <5>1, <5>2, FrontIs
        <5>4. \A m \in 1..(Len(b) - 1) : m \in 1..Len(a) /\ b[m] = a[m]
          <6>1. \A m \in 1..(Len(b) - 1) : m \in 1..Len(a) /\ m \in 1..(Len(a) - 1)
            BY <2>3, <5>3
          <6>2. QED
            BY <5>3, <6>1
        <5>5. QED
          BY <4>1, <5>4
      <4>4. CASE name # "." /\ name # ".."
        <5>1. b = Append(a, name)
          BY <2>2, <4>4 DEF GoTo
        <5>2. Len(b) = Len(a) + 1 /\ \A m \in 1..Len(a) : b[m] = a[m]
          BY <2>2, <2>3, <5>1, AppendProperties
        <5>3. \A m \in 1..(Len(b) - 1) : m \in 1..Len(a) /\ b[m] = a[m]
          BY <2>3, <5>2
        <5>4. QED
          BY <4>1, <5>3
      <4>5. QED
        BY <4>2, <4>3, <4>4
    <3>2. QED
      BY <2>4, <3>1
  <2>7. QED
    BY <2>5, <2>6
<1> HIDE DEF T
<1>6. T = Nat
  <2>1. T \in SUBSET Nat
    BY DEF T
  <2>2. QED
    BY <1>4, <1>5, <2>1, SetInduction
<1>7. \A i \in 0..N : Passed(i)
  BY <1>1, <1>6 DEF T
<1>8. QED
  BY <1>7

\* lexically_normal keeps a ".." in front, for a path that goes up from the root.
Climbs(p) == p # <<>> /\ p[1] = ".."

\* lexically_normal takes the way of the file system, unless the path goes up
\* from the root: it makes the name of the place the path leads to, with a "."
\* behind it if the path has one.
LEMMA NormalAndPlace ==
    ASSUME NEW path, IsSeq(path)
    PROVE  /\ Clean(Place(path))
           /\ IsSeq(Normal(path))
           /\ \/ Climbs(Normal(path))
              \/ Normal(path) = Place(path)
              \/ /\ Normal(path) = Append(Place(path), ".")
                 /\ Len(path) > 0 /\ path[Len(path)] = "."
                 /\ Place(SubSeq(path, 1, Len(path) - 1)) = Place(path)
<1> DEFINE S == ToSet(path)
           N == Len(path)
<1>1. path \in Seq(S) /\ N \in Nat /\ \A i \in 1..N : path[i] \in S
  BY SeqFacts DEF IsSeq
<1> HIDE DEF S
<1>2. PICK f : Follows(f, "place", path, N) /\ Place(path) = f[N]
  BY PlaceIsLast
<1>3. PICK g : Follows(g, "normal", path, N) /\ Normal(path) = g[N]
  BY NormalIsLast
<1>4. /\ f[0] = <<>> /\ \A i \in 1..N : f[i] = GoTo(f[i - 1], path[i])
      /\ g[0] = <<>> /\ \A i \in 1..N : g[i] = AddNormal(g[i - 1], path[i], i = N)
  BY <1>2, <1>3 DEF Follows, Follow
<1>5. \A i \in 0..N : f[i] \in Seq(S) /\ Clean(f[i])
  BY <1>1, <1>2, PlacesClean
<1> DEFINE Same(i) == /\ g[i] \in Seq(S)
                      /\ \/ Climbs(g[i])
                         \/ g[i] = f[i]
                         \/ i = N /\ i > 0 /\ path[i] = "." /\ g[i] = Append(f[i], ".")
                                  /\ f[i] = f[i - 1]
           T == {i \in Nat : i <= N => Same(i)}
<1>6. 0 \in T
  <2>1. <<>> \in Seq(S)
    OBVIOUS
  <2>2. Same(0)
    BY <1>4, <2>1
  <2>3. QED
    BY <2>2
<1>7. ASSUME NEW i \in Nat, i \in T PROVE i + 1 \in T
  <2> SUFFICES ASSUME i + 1 <= N PROVE Same(i + 1)
    OBVIOUS
  <2> DEFINE a == g[i]
             b == g[i + 1]
             name == path[i + 1]
  <2>1. i + 1 \in 1..N /\ (i + 1) - 1 = i /\ i \in 0..N /\ i + 1 \in 0..N /\ i # N
    BY <1>1
  <2>2. b = AddNormal(a, name, i + 1 = N) /\ f[i + 1] = GoTo(f[i], name) /\ name \in S
    BY <1>1, <1>4, <2>1
  <2>3. a \in Seq(S) /\ (Climbs(a) \/ a = f[i])
    BY <1>1, <1>7, <2>1
  <2>4. f[i] \in Seq(S) /\ Clean(f[i])
    BY <1>5, <2>1
  <2> HIDE DEF a, b, name
  <2>5. Len(a) \in Nat /\ (a # <<>> => Len(a) > 0)
    BY <2>3, EmptySeq, LenProperties
  <2>6. CASE name = "." /\ i + 1 # N
    <3>1. b = a /\ f[i + 1] = f[i]
      BY <2>2, <2>6 DEF AddNormal, GoTo
    <3>2. QED
      BY <2>3, <3>1 DEF a, b
  <2>7. CASE name = ".." /\ a # <<>> /\ Last(a) # ".."
    <3>1. b = Front(a) /\ f[i + 1] = Front(f[i])
      BY <2>2, <2>7 DEF AddNormal, GoTo
    <3>2. b \in Seq(S)
      BY <2>3, <3>1, FrontIs
    <3>3. ASSUME Climbs(a) PROVE Climbs(b)
      <4>1. a[1] = ".." /\ Last(a) = a[Len(a)]
        BY <3>3 DEF Climbs, Last
      <4>2. Len(a) # 1
        BY <2>7, <4>1
      <4>3. /\ Len(b) = Len(a) - 1
            /\ \A m \in 1..(Len(a) - 1) : b[m] = a[m]
        BY <2>3, <2>7, <3>1, FrontIs
      <4>4. 1 \in 1..(Len(a) - 1)
        <5>1. Len(a) > 0
          BY <2>5, <2>7
        <5>2. \A n \in Nat : n > 0 /\ n # 1 => 1 \in 1..(n - 1)
          OBVIOUS
        <5>3. QED
          BY <2>5, <4>2, <5>1, <5>2
      <4>5. b[1] = ".." /\ Len(b) # 0
        BY <4>1, <4>3, <4>4
      <4>6. b # <<>>
        BY <4>5
      <4>7. QED
        BY <4>5, <4>6 DEF Climbs
    <3>4. QED
      BY <2>3, <3>1, <3>2, <3>3 DEF b
  <2>8. CASE ~(name = "." /\ i + 1 # N) /\ ~(name = ".." /\ a # <<>> /\ Last(a) # "..")
    <3>1. b = Append(a, name)
      BY <2>2, <2>8 DEF AddNormal
    <3>2. /\ b \in Seq(S) /\ b # <<>> /\ Len(b) = Len(a) + 1
          /\ \A m \in 1..Len(a) : b[m] = a[m]
          /\ b[Len(a) + 1] = name
      BY <2>2, <2>3, <3>1, AppendProperties
    <3>3. ASSUME Climbs(a) PROVE Climbs(b)
      <4>1. 1 \in 1..Len(a)
        BY <2>5, <3>3 DEF Climbs
      <4>2. QED
        BY <3>2, <3>3, <4>1 DEF Climbs
    <3>4. ASSUME a = f[i], ~Climbs(b)
          PROVE  b = f[i + 1] \/ (i + 1 = N /\ name = "." /\ b = Append(f[i + 1], ".") /\ f[i + 1] = f[i])
      <4>1. CASE name = "."
        <5>1. f[i + 1] = f[i] /\ i + 1 = N
          BY <2>2, <2>8, <4>1 DEF GoTo
        <5>2. QED
          BY <3>1, <3>4, <4>1, <5>1
      <4>2. CASE name = ".."
        <5>1. CASE a = <<>>
          <6>1. b[1] = ".."
            BY <3>2, <4>2, <5>1
          <6>2. QED
            BY <3>2, <3>4, <6>1 DEF Climbs
        <5>2. CASE a # <<>>
          <6>1. Last(a) = ".." /\ Last(a) = a[Len(a)] /\ Len(a) \in 1..Len(a)
            BY <2>5, <2>8, <4>2, <5>2 DEF Last
          <6>2. QED
            BY <2>4, <3>4, <6>1 DEF Clean
        <5>3. QED
          BY <5>1, <5>2
      <4>3. CASE name # "." /\ name # ".."
        <5>1. f[i + 1] = Append(f[i], name)
          BY <2>2, <4>3 DEF GoTo
        <5>2. QED
          BY <3>1, <3>4, <5>1
      <4>4. QED
        BY <4>1, <4>2, <4>3
    <3>5. CASE Climbs(b)
      BY <3>2, <3>5 DEF b
    <3>6. CASE ~Climbs(b)
      <4>1. a = f[i]
        BY <2>3, <3>3, <3>6
      <4>2. QED
        BY <2>1, <3>2, <3>4, <3>6, <4>1 DEF b, name
    <3>7. QED
      BY <3>5, <3>6
  <2>9. QED
    BY <2>6, <2>7, <2>8
<1> HIDE DEF T
<1>8. T = Nat
  <2>1. T \in SUBSET Nat
    BY DEF T
  <2>2. QED
    BY <1>6, <1>7, <2>1, SetInduction
<1>9. Same(N)
  BY <1>1, <1>8 DEF T
<1>10. N > 0 => Place(SubSeq(path, 1, N - 1)) = f[N - 1]
  <2>1. N > 0 => N - 1 \in 0..N
    BY <1>1
  <2>2. QED
    BY <1>1, <1>2, <2>1, PlaceOfPrefix
<1>11. IsSeq(g[N])
  BY <1>9, SeqIsSeq
<1>12. Clean(f[N])
  <2>1. N \in 0..N
    BY <1>1
  <2>2. QED
    BY <1>5, <2>1
<1>13. QED
  BY <1>2, <1>3, <1>9, <1>10, <1>11, <1>12

\* Then lexically_normal leads to the same place.
LEMMA NormalLeadsThere ==
    ASSUME NEW path, IsSeq(path), ~Climbs(Normal(path))
    PROVE  Place(Normal(path)) = Place(path)
BY NormalAndPlace, PlaceOfClean

\* A name behind a path leaves its first names alone.
LEMMA AppendPrefix ==
    ASSUME NEW S, NEW p \in Seq(S), NEW name, NEW n \in 0..Len(p)
    PROVE  SubSeq(Append(p, name), 1, n) = SubSeq(p, 1, n) /\ Len(Append(p, name)) = Len(p) + 1
<1> DEFINE R == S \cup {name}
           q == Append(p, name)
           a == SubSeq(q, 1, n)
           b == SubSeq(p, 1, n)
<1>1. p \in Seq(R) /\ Len(p) \in Nat /\ name \in R
  <2>1. \A i \in 1..Len(p) : p[i] \in R
    BY LenProperties
  <2>2. QED
    BY <2>1, LenProperties, IsASeq
<1> HIDE DEF R
<1>2. q \in Seq(R) /\ Len(q) = Len(p) + 1 /\ \A i \in 1..Len(p) : q[i] = p[i]
  BY <1>1, AppendProperties
<1> HIDE DEF q
<1>3. n \in 0..Len(q) /\ \A i \in 1..n : i \in 1..Len(p)
  BY <1>1, <1>2
<1>4. a \in Seq(R) /\ Len(a) = n /\ \A i \in 1..n : a[i] = q[i]
  BY <1>2, <1>3, PrefixIs
<1>5. b \in Seq(R) /\ Len(b) = n /\ \A i \in 1..n : b[i] = p[i]
  BY <1>1, PrefixIs
<1> HIDE DEF a, b
<1>6. \A i \in 1..Len(a) : a[i] = b[i]
  BY <1>2, <1>3, <1>4, <1>5
<1>7. a = b
  BY <1>4, <1>5, <1>6, SeqEqual
<1>8. QED
  BY <1>2, <1>7 DEF a, b, q

\* And by no directory that the path itself does not pass.
LEMMA NormalWay ==
    ASSUME NEW path, IsSeq(path), ~Climbs(Normal(path))
    PROVE  Way(Normal(path)) \subseteq Way(path)
<1> DEFINE S == ToSet(path)
           N == Len(path)
           P == Place(path)
           Q == Normal(path)
<1>1. path \in Seq(S) /\ N \in Nat
  BY SeqFacts DEF IsSeq
<1> HIDE DEF S
<1>2. PICK f : Follows(f, "place", path, N) /\ P = f[N]
  BY PlaceIsLast
<1>3. \A k \in 0..N : Place(SubSeq(path, 1, k)) = f[k]
  BY <1>1, <1>2, PlaceOfPrefix
<1>4. /\ Clean(P)
      /\ \/ Q = P
         \/ Q = Append(P, ".") /\ N > 0 /\ Place(SubSeq(path, 1, N - 1)) = P
  BY NormalAndPlace
<1>5. \A j \in 1..Len(P) : \E k \in 1..N : SubSeq(P, 1, j) = f[k]
  <2>1. N \in 0..N
    BY <1>1
  <2>2. QED
    BY <1>1, <1>2, <2>1, PrefixesPassed
<1> HIDE DEF P, Q
<1>6. Len(P) \in Nat
  BY <1>4, SeqFacts DEF Clean
<1>7. \A j \in 1..(Len(P) - 1) :
         SubSeq(P, 1, j) # <<>> => SubSeq(P, 1, j) \in Way(path)
  <2> SUFFICES ASSUME NEW j \in 1..(Len(P) - 1), SubSeq(P, 1, j) # <<>>
               PROVE  SubSeq(P, 1, j) \in Way(path)
    OBVIOUS
  <2>1. j \in 1..Len(P) /\ j \in 0..Len(P)
    BY <1>6
  <2>2. PICK k \in 1..N : SubSeq(P, 1, j) = f[k]
    BY <1>5, <2>1
  <2>3. k # N
    <3>1. Len(SubSeq(P, 1, j)) = j
      BY <1>4, <2>1, PrefixClean
    <3>2. QED
      BY <1>2, <1>6, <2>2, <3>1
  <2>4. k \in 1..(N - 1) /\ k \in 0..N
    BY <1>1, <2>3
  <2>5. Place(SubSeq(path, 1, k)) = SubSeq(P, 1, j)
    BY <1>3, <2>2, <2>4
  <2>6. QED
    BY <2>4, <2>5 DEF Way
<1>8. \A j \in 0..Len(P) : Place(SubSeq(P, 1, j)) = SubSeq(P, 1, j)
  BY <1>4, PrefixClean, PlaceOfClean
<1>9. CASE Q = P
  <2> SUFFICES ASSUME NEW j \in 1..(Len(P) - 1), Place(SubSeq(P, 1, j)) # <<>>
               PROVE  Place(SubSeq(P, 1, j)) \in Way(path)
    BY <1>9 DEF Way, Q
  <2>1. j \in 0..Len(P)
    BY <1>6
  <2>2. QED
    BY <1>7, <1>8, <2>1
<1>10. CASE Q = Append(P, ".") /\ N > 0 /\ Place(SubSeq(path, 1, N - 1)) = P
  <2> DEFINE R == ToSet(P) \cup {"."}
  <2>1. P \in Seq(R) /\ "." \in R
    BY <1>4 DEF Clean, IsSeq
  <2> HIDE DEF R
  <2>2. /\ Q \in Seq(R) /\ Len(Q) = Len(P) + 1
        /\ \A i \in 1..Len(P) : Q[i] = P[i]
    BY <1>10, <2>1, AppendProperties
  <2> SUFFICES ASSUME NEW j \in 1..(Len(Q) - 1), Place(SubSeq(Q, 1, j)) # <<>>
               PROVE  Place(SubSeq(Q, 1, j)) \in Way(path)
    BY DEF Way, Q
  <2>3. j \in 0..Len(P) /\ j \in 0..Len(Q) /\ j \in 1..Len(P)
    BY <1>6, <2>2
  <2>4. SubSeq(Q, 1, j) = SubSeq(P, 1, j)
    BY <1>10, <2>1, <2>3, AppendPrefix
  <2>5. Place(SubSeq(Q, 1, j)) = SubSeq(P, 1, j)
    BY <1>8, <2>3, <2>4
  <2>6. CASE j = Len(P)
    <3>1. SubSeq(P, 1, j) = P
      BY <2>1, <2>6, SubSeqFull
    <3>2. N - 1 \in 1..(N - 1)
      <4>1. N - 1 # 0
        <5>1. ASSUME N - 1 = 0 PROVE FALSE
          <6>1. N - 1 \in 0..N /\ f[0] = <<>>
            BY <1>1, <1>2, <1>10 DEF Follows
          <6>2. P = <<>>
            BY <1>3, <1>10, <5>1, <6>1
          <6>3. QED
            BY <2>5, <3>1, <6>2
        <5>2. QED
          BY <5>1
      <4>2. QED
        <5>1. N \in Nat /\ N # 1 /\ N # 0
          BY <1>1, <1>10, <4>1
        <5> HIDE DEF N
        <5>2. QED
          BY <5>1
    <3>3. QED
      BY <1>10, <2>5, <3>1, <3>2 DEF Way
  <2>7. CASE j # Len(P)
    <3>1. j \in 1..(Len(P) - 1)
      BY <1>6, <2>3, <2>7
    <3>2. QED
      BY <1>7, <2>5, <3>1
  <2>8. QED
    BY <2>6, <2>7
<1>11. QED
  BY <1>4, <1>9, <1>10 DEF Q

\* In a vault with a "." behind it, in the vault without, or the vault itself.
LEMMA InVaultAppend ==
    ASSUME NEW p, IsSeq(p), NEW vault, IsSeq(vault)
    PROVE  /\ InVault(p, vault) => InVault(Append(p, "."), vault)
           /\ InVault(Append(p, "."), vault) => Len(p) = Len(vault) \/ InVault(p, vault)
<1> DEFINE S == ToSet(p)
           q == Append(p, ".")
           m == Len(p)
           n == Len(vault)
<1>1. p \in Seq(S) /\ m \in Nat /\ n \in Nat
  BY SeqFacts DEF IsSeq
<1> HIDE DEF S
<1>2. m \in 0..m
  BY <1>1
<1>3. Len(q) = m + 1
  BY <1>1, <1>2, AppendPrefix
<1>4. \A i \in 0..m : SubSeq(q, 1, i) = SubSeq(p, 1, i)
  BY <1>1, AppendPrefix
<1> HIDE DEF q
<1>5. InVault(p, vault) <=> m > n /\ SubSeq(p, 1, n) = vault
  BY DEF InVault
<1>6. InVault(q, vault) <=> Len(q) > n /\ SubSeq(q, 1, n) = vault
  BY DEF InVault
<1> HIDE DEF m, n
<1>7. ASSUME m > n \/ Len(q) > n PROVE n \in 0..m
  BY <1>1, <1>3, <1>7
<1>8. m > n => Len(q) > n
  BY <1>1, <1>3
<1>9. Len(q) > n => m = n \/ m > n
  BY <1>1, <1>3
<1>10. InVault(p, vault) => InVault(q, vault)
  BY <1>4, <1>5, <1>6, <1>7, <1>8
<1>11. InVault(q, vault) => m = n \/ InVault(p, vault)
  BY <1>4, <1>5, <1>6, <1>7, <1>9
<1>12. QED
  BY <1>10, <1>11 DEF m, n, q

\* A vault: not the root, nor above it.
VaultPath(vault) == IsSeq(vault) /\ vault # <<>> /\ vault[1] # ".."

\* What is in a vault by lexically_normal is in it by the file system.
LEMMA InVaultPlace ==
    ASSUME NEW path, IsSeq(path), NEW vault, VaultPath(vault), InVault(Normal(path), vault)
    PROVE  ~Climbs(Normal(path)) /\ InVault(Append(Place(path), "."), vault)
<1> DEFINE Q == Normal(path)
           S == ToSet(Q)
           n == Len(vault)
<1>1. IsSeq(Q) /\ Clean(Place(path)) /\ IsSeq(Place(path))
  BY NormalAndPlace DEF Clean
<1>2. Q \in Seq(S) /\ Len(Q) \in Nat /\ n \in Nat /\ n > 0
  <2>1. vault \in Seq(ToSet(vault))
    BY DEF VaultPath, IsSeq
  <2>2. n \in Nat /\ n # 0
    BY <2>1, EmptySeq, LenProperties DEF VaultPath
  <2>3. QED
    BY <1>1, <2>2, SeqFacts DEF IsSeq
<1> HIDE DEF S
<1>3. Len(Q) > n /\ SubSeq(Q, 1, n) = vault
  BY DEF InVault
<1>4. ~Climbs(Q)
  <2> HIDE DEF Q, n
  <2>1. n \in 0..Len(Q) /\ 1 \in 1..n
    BY <1>2, <1>3
  <2>2. SubSeq(Q, 1, n)[1] = Q[1]
    BY <1>2, <2>1, PrefixIs
  <2>3. QED
    BY <1>3, <2>2 DEF Climbs, VaultPath
<1>5. Q = Place(path) \/ Q = Append(Place(path), ".")
  BY <1>4, NormalAndPlace
<1>6. IsSeq(vault)
  BY DEF VaultPath
<1>7. InVault(Append(Place(path), "."), vault)
  BY <1>1, <1>5, <1>6, InVaultAppend
<1>8. QED
  BY <1>4, <1>7

\* And the other way about.
LEMMA PlaceInVault ==
    ASSUME NEW path, IsSeq(path), NEW vault, VaultPath(vault),
           ~Climbs(Normal(path)), InVault(Place(path), vault)
    PROVE  InVault(Normal(path), vault)
<1>1. IsSeq(Place(path)) /\ IsSeq(vault)
  BY NormalAndPlace DEF Clean, VaultPath
<1>2. Normal(path) = Place(path) \/ Normal(path) = Append(Place(path), ".")
  BY NormalAndPlace
<1>3. QED
  BY <1>1, <1>2, InVaultAppend

\* stat says what is in the place a path leads to, or that there is no way.
LEMMA StatIs ==
    ASSUME NEW disk, NEW path
    PROVE  /\ \/ Stat(disk, path) = At(disk, Place(path))
              \/ Stat(disk, path) = Missing
              \/ Stat(disk, path) = Blocked
           /\ Stat(disk, path).kind \in {"file", "dir"} =>
                 /\ \A dir \in Way(path) : At(disk, dir).kind = "dir"
                 /\ Stat(disk, path) = At(disk, Place(path))
<1> DEFINE kinds == {At(disk, dir).kind : dir \in Way(path)}
<1>1. Stat(disk, path) = IF kinds \subseteq {"dir"} THEN At(disk, Place(path))
                         ELSE IF kinds \subseteq {"dir", "none", "link"} THEN Missing ELSE Blocked
  BY DEF Stat
<1>2. Missing.kind = "none" /\ Blocked.kind = "blocked"
  BY DEF Missing, Blocked
<1>3. kinds \subseteq {"dir"} => \A dir \in Way(path) : At(disk, dir).kind = "dir"
  OBVIOUS
<1> HIDE DEF kinds
<1>4. QED
  BY <1>1, <1>2, <1>3

\* Whoever gets to a file or directory gets to it by lexically_normal.
LEMMA StatNormal ==
    ASSUME NEW disk, NEW path, IsSeq(path), ~Climbs(Normal(path)),
           Stat(disk, path).kind \in {"file", "dir"}
    PROVE  Stat(disk, Normal(path)) = Stat(disk, path)
<1>1. \A dir \in Way(Normal(path)) : At(disk, dir).kind = "dir"
  BY NormalWay, StatIs
<1>2. {At(disk, dir).kind : dir \in Way(Normal(path))} \subseteq {"dir"}
  BY <1>1
<1>3. Stat(disk, Normal(path)) = At(disk, Place(Normal(path)))
  BY <1>2 DEF Stat
<1>4. QED
  BY <1>3, NormalLeadsThere, StatIs

\* A vault is a directory: a file that is in it by lexically_normal is below it.
LEMMA FileInVault ==
    ASSUME NEW disk, NEW path, IsSeq(path), NEW vault, VaultPath(vault),
           InVault(Normal(path), vault), Stat(disk, path).kind = "file"
    PROVE  InVault(Place(path), vault)
<1> DEFINE P == Place(path)
           N == Len(path)
<1>1. ~Climbs(Normal(path)) /\ InVault(Append(P, "."), vault)
  BY InVaultPlace
<1>2. CASE Normal(path) = P
  BY <1>2
<1>3. CASE N > 0 /\ Place(SubSeq(path, 1, N - 1)) = P
  <2>1. N \in Nat /\ IsSeq(P) /\ IsSeq(vault) /\ Len(vault) > 0
    <3>1. vault \in Seq(ToSet(vault))
      BY DEF VaultPath, IsSeq
    <3>2. Len(vault) \in Nat /\ Len(vault) # 0
      BY <3>1, EmptySeq, LenProperties DEF VaultPath
    <3>3. QED
      BY <3>2, SeqFacts, NormalAndPlace DEF Clean, VaultPath
  <2>2. P = <<>>
    <3> SUFFICES ASSUME P # <<>> PROVE FALSE
      OBVIOUS
    <3>1. N # 1
      <4> SUFFICES ASSUME N = 1 PROVE FALSE
        OBVIOUS
      <4>1. PICK f : Follows(f, "place", path, N)
        BY PlaceIsLast
      <4> DEFINE S == ToSet(path)
      <4>2. path \in Seq(S) /\ 0 \in 0..Len(path)
        BY <2>1 DEF IsSeq
      <4> HIDE DEF S
      <4>3. Place(SubSeq(path, 1, 0)) = f[0]
        BY <4>1, <4>2, PlaceOfPrefix
      <4>4. f[0] = <<>>
        BY <4>1 DEF Follows
      <4>5. QED
        BY <1>3, <4>3, <4>4
    <3>2. N - 1 \in 1..(N - 1)
      <4> HIDE DEF N
      <4>1. QED
        BY <1>3, <2>1, <3>1
    <3>3. P \in Way(path)
      BY <1>3, <3>2 DEF Way
    <3>4. QED
      BY <3>3, StatIs
  <2>3. Len(P) # Len(vault)
    BY <2>1, <2>2
  <2>4. QED
    BY <1>1, <2>1, <2>3, InVaultAppend
<1>4. QED
  BY <1>1, <1>2, <1>3, NormalAndPlace

-----------------------------------------------------------------------------
(* The invariant.                                                          *)

\* What the catalog and the disks can be like.
World == [row : Rows \cup {NoRow}, disk : [Hosts -> [Places -> Node]]]

\* The worlds of the call, up to the present one.
WorldsOK ==
    /\ worlds \subseteq World /\ world \in worlds
    /\ changes \in Nat /\ (changes = 0 => worlds = {world})
    /\ request \in Requests
    /\ pc # "done" => status = "ok" /\ out = Before

\* The catalog said r of the resource, and the path is in its vault.
Allowed(r) ==
    /\ r # NoRow /\ InVault(Normal(request.path), r.vault)
    /\ \E w \in worlds : w.row = r

\* msiStatVault.
StatOK ==
    request.op = "stat" =>
        /\ pc \in {"start", "stat", "done"}
        /\ pc = "stat" \/ (pc = "done" /\ status = "ok") =>
              Allowed(known) /\ known.type \in UnixFileSystem
        /\ pc = "done" /\ status = "ok" =>
              \E w \in worlds, host \in StatHosts :
                  LET node == Stat(w.disk[host], Normal(request.path))
                  IN  node # Blocked /\ out = Types(node)

\* msiFileChecksum.
SeenFile(content) ==
    \E w \in worlds : LET node == Stat(w.disk[Here], request.path)
                      IN  node.kind = "file" /\ content \in {Before, <<"digest", node.data>>}

ChecksumOK ==
    request.op = "checksum" =>
        /\ pc \in {"start", "query", "stat", "read", "done"}
        /\ pc \in {"query", "stat", "read"} \/ out # Before => SeenFile(out)
        /\ pc \in {"stat", "read"} \/ out # Before => Allowed(known)
        /\ pc = "read" \/ out # Before => known.loc = Here

\* msiDirList: what was in the directory at one time or other, and what not.
Met == {p \in Places : /\ p # <<>> /\ Front(p) = Directory
                       /\ \E w \in worlds : w.disk[Here][p].kind # "none"}
Unmet(p) == \E w \in worlds : w.disk[Here][p].kind = "none"

\* The entry in work.
InHand == IF pc \in {"size", "count", "time"} THEN {entry.name} ELSE {}

LinkTrue(e) ==
    e.type = "SYMLINK" => \E w \in worlds : w.disk[Here][e.name].kind = "link"

\* Whatever was in the directory all the time is counted, and nothing that
\* never was.
CountTrue(e) ==
    \E names \in SUBSET Ever(e.name) :
        Always(e.name) \subseteq names /\ e.count = Cardinality(names)

\* The same of a count that is not finished.
CountingOK ==
    /\ counting \subseteq Ever(entry.name) /\ counted \subseteq Ever(entry.name)
    /\ Always(entry.name) \subseteq counting \cup counted

DirSeen(name) == \E w \in worlds : w.disk[Here][name].kind = "dir"

\* What is said of an entry was so at one time.
EntryTrue(e) ==
    /\ e.name \in Met
    /\ e.type = "FILE" =>
          \E w \in worlds : /\ w.disk[Here][e.name].kind = "file"
                            /\ e.count = w.disk[Here][e.name].data
    /\ e.type = "DIR" => DirSeen(e.name) /\ CountTrue(e)
    /\ LinkTrue(e)

\* No name is twice in the listing, in work, and with the iterator.
NamesOnce ==
    /\ \A i, j \in DOMAIN listing : listing[i].name = listing[j].name => i = j
    /\ pending \cap Listed = {}
    /\ InHand \cap (pending \cup Listed) = {}

\* What there was, and is not in any of these, is gone or came later.
ListingOK ==
    /\ IsSeq(listing)
    /\ pending \subseteq Met
    /\ NamesOnce
    /\ \A i \in DOMAIN listing : EntryTrue(listing[i])
    /\ \A p \in Places \ (Listed \cup pending \cup InHand) :
          (p # <<>> /\ Front(p) = Directory) => Unmet(p)

ListOK ==
    request.op = "list" =>
        /\ pc \in {"start", "look", "vault", "loc", "open", "next", "size", "count", "time", "done"}
        /\ pc \in {"start", "look", "vault", "loc", "open"} => listing = <<>>
        /\ pc \in {"next", "size", "count", "time"} \/ (pc = "done" /\ status = "ok") => ListingOK
        /\ pc = "count" => entry.type = "DIR" /\ DirSeen(entry.name) /\ CountingOK
        /\ pc \in {"size", "count"} =>
              /\ entry.name \in Met /\ LinkTrue(entry)
              /\ entry = [name |-> entry.name, type |-> entry.type, count |-> entry.count]
        /\ pc = "time" => EntryTrue(entry)
        /\ pc = "done" /\ status = "ok" => pending = {} /\ out = <<"listing", listing>>

\* The circumstances in which a call is to succeed.
Fit ==
    /\ changes = 0 /\ ~faulty
    /\ status \notin {"SYS_INVALID_INPUT_PARAM", "SYS_USER_NO_PERMISSION"}
    /\ world.row.loc = Here /\ Has(world.row, Place(request.path))
    /\ Normal(request.path)[1] # ".."
    /\ request.op = "stat" => /\ world.row.type = "unixfilesystem"
                              /\ Stat(Local, Normal(request.path)) # Blocked
    /\ request.op = "checksum" => Stat(Local, request.path).kind = "file"
    /\ request.op = "list" => Stat(Local, request.path).kind = "dir"

\* A link that leads nowhere ends msiDirList.
EndsAt == request.op = "list" /\ Dangling

\* In these it gets on.
QuietOK ==
    Fit =>
        /\ pc = "done" => IF EndsAt THEN status = "SYS_INVALID_FILE_PATH" /\ out = Before
                          ELSE status = "ok" /\ out # Before
        /\ request.op = "checksum" /\ pc = "stat" => known = world.row
        /\ request.op = "list" /\ pc \in {"size", "count", "time"} =>
              /\ entry.name \in Children(Local, Directory)
              /\ pc = "size" => entry.type = EntryType(Local[entry.name])
        /\ request.op = "list" /\ pc \in {"next", "size", "count", "time"} =>
              \A p \in Listed : Local[p].kind # "link"

\* The inductive invariant.
VaultInv == WorldsOK /\ StatOK /\ ChecksumOK /\ ListOK /\ QuietOK
-----------------------------------------------------------------------------
(* What the invariant says of the values.                                  *)

\* Of the request, the worlds and the servers.
LEMMA ValuesFit ==
    ASSUME WorldsOK
    PROVE  /\ request.op \in {"stat", "checksum", "list"} /\ IsSeq(request.path)
           /\ \A w \in worlds :
                 /\ \A host \in Hosts : w.disk[host] \in [Places -> Node]
                 /\ w.row # NoRow => VaultPath(w.row.vault) /\ w.row.loc \in Hosts
           /\ StatHosts \subseteq Hosts
           /\ Here \in Hosts
<1>1. request.op \in {"stat", "checksum", "list"} /\ IsSeq(request.path) /\ Here \in Hosts
  BY VaultAssumption DEF WorldsOK
<1>2. ASSUME NEW w \in worlds
      PROVE  /\ \A host \in Hosts : w.disk[host] \in [Places -> Node]
             /\ w.row # NoRow => VaultPath(w.row.vault) /\ w.row.loc \in Hosts
  <2>1. w.row \in Rows \cup {NoRow} /\ w.disk \in [Hosts -> [Places -> Node]]
    BY DEF WorldsOK, World
  <2>2. ASSUME w.row # NoRow PROVE VaultPath(w.row.vault) /\ w.row.loc \in Hosts
    BY <2>1, <2>2, VaultAssumption DEF VaultPath
  <2>3. QED
    BY <2>1, <2>2
<1>3. StatHosts \subseteq Hosts
  BY <1>2 DEF StatHosts
<1>4. QED
  BY <1>1, <1>2, <1>3

\* What is in a place is a node.
LEMMA AtIsNode ==
    ASSUME NEW disk \in [Places -> Node], NEW place
    PROVE  At(disk, place) \in Node /\ At(disk, place).kind \in Kinds
<1>1. Missing \in Node
  BY DEF Missing, Node, Kinds
<1>2. At(disk, place) \in Node
  BY <1>1 DEF At
<1>3. QED
  BY <1>2 DEF Node

\* What msiStatVault makes of a node.
LEMMA TypesIs ==
    ASSUME NEW node
    PROVE  /\ Types(node) # Before
           /\ NotThere(node) => Types(node) = <<"NOTEXIST", 0>>
           /\ node.kind \in {"file", "socket"} => Types(node) = <<"FILE", node.data>>
           /\ node.kind \in {"dir", "block"} => Types(node) = <<"DIR", 0>>
           /\ node.kind = "other" => Types(node) = <<"OTHER", 0>>
<1>1. CASE NotThere(node)
  <2>1. Types(node) = <<"NOTEXIST", 0>>
    BY <1>1 DEF Types, NotThere
  <2>2. QED
    BY <1>1, <2>1 DEF NotThere, Before
<1>2. CASE node.kind \in {"file", "socket"}
  <2>1. Types(node) = <<"FILE", node.data>>
    BY <1>2 DEF Types, NotThere
  <2>2. QED
    BY <1>2, <2>1 DEF NotThere, Before
<1>3. CASE node.kind \in {"dir", "block"}
  <2>1. Types(node) = <<"DIR", 0>>
    BY <1>3 DEF Types, NotThere
  <2>2. QED
    BY <1>3, <2>1 DEF NotThere, Before
<1>4. CASE ~NotThere(node) /\ node.kind \notin {"file", "socket", "dir", "block"}
  <2>1. Types(node) = <<"OTHER", 0>>
    BY <1>4 DEF Types
  <2>2. QED
    BY <1>4, <2>1 DEF Before
<1>5. QED
  BY <1>1, <1>2, <1>3, <1>4

\* In fit circumstances there is one server and one row, and the path is in
\* the vault by lexically_normal.
LEMMA FitFacts ==
    ASSUME VaultInv, Fit
    PROVE  /\ worlds = {world} /\ StatHosts = {Here}
           /\ world.row # NoRow /\ world.row.loc = Here
           /\ InVault(Normal(request.path), world.row.vault)
           /\ ~Climbs(Normal(request.path))
<1>1. worlds = {world} /\ world.row # NoRow /\ world.row.loc = Here
  BY DEF VaultInv, WorldsOK, Fit, Has
<1>2. StatHosts = {Here}
  BY <1>1 DEF StatHosts
<1>3. ~Climbs(Normal(request.path)) /\ InVault(Place(request.path), world.row.vault)
  BY DEF Fit, Climbs, Has
<1>4. IsSeq(request.path) /\ VaultPath(world.row.vault)
  BY <1>1, ValuesFit DEF VaultInv, WorldsOK
<1>5. InVault(Normal(request.path), world.row.vault)
  BY <1>3, <1>4, PlaceInVault
<1>6. QED
  BY <1>1, <1>2, <1>3, <1>5

\* They were fit before the step if they are after it.
LEMMA FitBefore ==
    ASSUME VaultInv, pc # "done", UNCHANGED <<envVars, request, faulty>>, Fit'
    PROVE  Fit
<1>1. status = "ok"
  BY DEF VaultInv, WorldsOK
<1>2. world' = world /\ changes' = changes /\ request' = request /\ faulty' = faulty
  BY DEF envVars
<1>3. Local' = Local
  BY <1>2 DEF Local
<1>4. Directory' = Directory
  BY <1>2 DEF Directory
<1>5. QED
  BY <1>1, <1>2, <1>3, <1>4 DEF Fit

-----------------------------------------------------------------------------
(* Each step keeps the invariant.                                          *)

\* The initial states have it.
LEMMA VaultInit ==
    ASSUME Init
    PROVE  VaultInv
<1>1. WorldsOK
  <2>1. world \in World
    BY VaultAssumption DEF Init, World
  <2>2. QED
    BY <2>1 DEF Init, WorldsOK
<1>2. pc = "start" /\ listing = <<>> /\ out = Before
  BY DEF Init
<1>3. StatOK /\ ChecksumOK
  BY <1>2 DEF StatOK, ChecksumOK
<1>4. ListOK
  BY <1>2 DEF ListOK
<1>5. QuietOK
  BY <1>2 DEF QuietOK
<1>6. QED
  BY <1>1, <1>3, <1>4, <1>5 DEF VaultInv

\* A call ends without an output; in fit circumstances only at a link that leads
\* nowhere.
Failing ==
    /\ pc # "done" /\ pc' = "done"
    /\ status' = "ok" => request.op = "checksum"
    /\ Fit' => EndsAt' /\ status' = "SYS_INVALID_FILE_PATH"
    /\ UNCHANGED <<envVars, request, known, listVars, out>>

LEMMA FailingStep ==
    ASSUME VaultInv, Failing
    PROVE  VaultInv'
<1>1. /\ world' = world /\ worlds' = worlds /\ changes' = changes /\ request' = request
      /\ out' = out /\ pc' = "done" /\ out = Before
  BY DEF Failing, envVars, VaultInv, WorldsOK
<1>2. WorldsOK'
  BY <1>1 DEF VaultInv, WorldsOK
<1>3. StatOK' /\ ChecksumOK' /\ ListOK'
  BY <1>1 DEF Failing, StatOK, ChecksumOK, ListOK
<1>4. QuietOK'
  BY <1>1 DEF Failing, QuietOK, Before
<1>5. QED
  BY <1>2, <1>3, <1>4 DEF VaultInv

\* Fail is such a step, if the circumstances are not fit.
LEMMA FailFails ==
    ASSUME VaultInv, pc # "done", ~Fit,
           pc' = "done", status' = "ok" => request.op = "checksum",
           UNCHANGED <<envVars, request, known, listVars, out, faulty>>
    PROVE  VaultInv'
<1>1. ~Fit'
  BY FitBefore
<1>2. Failing
  BY <1>1 DEF Failing
<1>3. QED
  BY <1>2, FailingStep

\* Reject.
LEMMA RejectStep ==
    ASSUME VaultInv, Reject
    PROVE  VaultInv'
<1>1. ~Fit'
  BY DEF Reject, Fail, Return, Fit
<1>2. Failing
  BY <1>1 DEF Reject, Fail, Return, Failing
<1>3. QED
  BY <1>2, FailingStep

\* CallFails.
LEMMA CallFailsStep ==
    ASSUME VaultInv, CallFails
    PROVE  VaultInv'
<1>1. ~Fit'
  BY DEF CallFails, Fit
<1>2. Failing
  BY <1>1 DEF CallFails, Return, Failing
<1>3. QED
  BY <1>2, FailingStep

\* StatBlocked.
LEMMA StatBlockedStep ==
    ASSUME VaultInv, NEW op \in {"stat", "checksum"}, StatBlocked(op)
    PROVE  VaultInv'
<1>1. /\ request.op = op /\ pc = "stat" /\ pc' = "done" /\ status' # "ok"
      /\ UNCHANGED <<envVars, request, known, listVars, out, faulty>>
  BY DEF StatBlocked, Fail, Return
<1>2. ~Fit
  <2> SUFFICES ASSUME Fit PROVE FALSE
    OBVIOUS
  <2>1. Statted(Here) = Blocked
    BY FitFacts DEF StatBlocked
  <2>2. Stat(Local, Normal(request.path)) = Blocked
    BY <2>1 DEF Statted, Local
  <2>3. op # "stat"
    BY <1>1, <2>2 DEF Fit
  <2>4. Stat(Local, request.path).kind = "file"
    BY <1>1, <2>3 DEF Fit
  <2>5. Blocked.kind = "file"
    BY <2>2, <2>4, FitFacts, StatNormal, ValuesFit DEF VaultInv
  <2>6. QED
    BY <2>5 DEF Blocked
<1>3. QED
  BY <1>1, <1>2, FailFails

\* A query: no such resource, a path outside its vault, or a row that is known.
LEMMA QueryIs ==
    ASSUME VaultInv, pc # "done", NEW next, NEW STATE types, Query(types, next),
           Fit => world.row.type \in types
    PROVE  \/ VaultInv'
           \/ /\ world.row.type \in types
              /\ known' = world.row /\ Allowed(world.row) /\ pc' = next
              /\ UNCHANGED <<envVars, request, status, listVars, out, faulty>>
<1>1. CASE world.row = NoRow \/ world.row.type \notin types
  <2>1. Fail("CAT_UNKNOWN_RESOURCE")
    BY <1>1 DEF Query
  <2>2. ~Fit
    BY <1>1, FitFacts
  <2>3. QED
    BY <2>1, <2>2, FailFails DEF Fail, Return
<1>2. CASE /\ ~(world.row = NoRow \/ world.row.type \notin types)
           /\ ~InVault(Normal(request.path), world.row.vault)
  <2>1. Fail("SYS_INVALID_FILE_PATH")
    BY <1>2 DEF Query
  <2>2. ~Fit
    BY <1>2, FitFacts
  <2>3. QED
    BY <2>1, <2>2, FailFails DEF Fail, Return
<1>3. CASE /\ ~(world.row = NoRow \/ world.row.type \notin types)
           /\ InVault(Normal(request.path), world.row.vault)
  <2>1. known' = world.row /\ Go(next)
    BY <1>3 DEF Query
  <2>2. Allowed(world.row)
    BY <1>3 DEF Allowed, VaultInv, WorldsOK
  <2>3. QED
    BY <1>3, <2>1, <2>2 DEF Go
<1>4. QED
  BY <1>1, <1>2, <1>3

\* StatQuery.
LEMMA StatQueryStep ==
    ASSUME VaultInv, StatQuery
    PROVE  VaultInv'
<1>1. request.op = "stat" /\ pc = "start" /\ Query(UnixFileSystem, "stat")
  BY DEF StatQuery
<1>2. Fit => world.row.type \in UnixFileSystem
  BY <1>1 DEF Fit, UnixFileSystem
<1>3. CASE /\ world.row.type \in UnixFileSystem
           /\ known' = world.row /\ Allowed(world.row) /\ pc' = "stat"
           /\ UNCHANGED <<envVars, request, status, listVars, out, faulty>>
  <2>1. /\ world' = world /\ worlds' = worlds /\ changes' = changes /\ request' = request
        /\ out' = out /\ status' = status
    BY <1>3 DEF envVars
  <2>2. WorldsOK'
    BY <1>1, <2>1 DEF VaultInv, WorldsOK
  <2>3. Allowed(known)'
    BY <1>3, <2>1 DEF Allowed
  <2>4. StatOK'
    BY <1>3, <2>3 DEF StatOK
  <2>5. ChecksumOK' /\ ListOK' /\ QuietOK'
    BY <1>1, <1>3, <2>1 DEF ChecksumOK, ListOK, QuietOK
  <2>6. QED
    BY <2>2, <2>4, <2>5 DEF VaultInv
<1>4. QED
  <2>1. pc # "done"
    BY <1>1
  <2>2. QED
    BY <1>1, <1>2, <1>3, <2>1, QueryIs

\* StatFile.
LEMMA StatFileStep ==
    ASSUME VaultInv, StatFile
    PROVE  VaultInv'
<1>1. /\ request.op = "stat" /\ pc = "stat" /\ pc' = "done" /\ status' = "ok"
      /\ world' = world /\ worlds' = worlds /\ changes' = changes /\ request' = request
      /\ known' = known
  BY DEF StatFile, Return, envVars
<1>2. PICK host \in StatHosts : Statted(host) # Blocked /\ out' = Types(Statted(host))
  BY DEF StatFile
<1>3. WorldsOK'
  BY <1>1 DEF VaultInv, WorldsOK
<1>4. StatOK'
  <2>1. Allowed(known)' /\ known'.type \in UnixFileSystem
    BY <1>1 DEF VaultInv, StatOK, Allowed
  <2>2. world \in worlds /\ StatHosts' = StatHosts
    BY <1>1 DEF VaultInv, WorldsOK, StatHosts
  <2> DEFINE node == Stat(world.disk[host], Normal(request.path))
  <2>3. node # Blocked /\ out' = Types(node)
    BY <1>2 DEF Statted
  <2>4. \E w \in worlds', at \in StatHosts' :
           LET seen == Stat(w.disk[at], Normal(request'.path))
           IN  seen # Blocked /\ out' = Types(seen)
    <3> HIDE DEF node
    <3>1. node = Stat(world.disk[host], Normal(request'.path))
      BY <1>1 DEF node
    <3>2. QED
      BY <1>1, <2>2, <2>3, <3>1
  <2>5. QED
    BY <1>1, <2>1, <2>4 DEF StatOK
<1>5. ChecksumOK' /\ ListOK'
  BY <1>1 DEF ChecksumOK, ListOK
<1>6. QuietOK'
  <2>1. out' # Before
    BY <1>2, TypesIs
  <2>2. Before' = Before
    BY DEF Before
  <2>3. QED
    BY <1>1, <2>1, <2>2 DEF QuietOK, EndsAt
<1>7. QED
  BY <1>3, <1>4, <1>5, <1>6 DEF VaultInv

\* ChecksumLook.
LEMMA ChecksumLookStep ==
    ASSUME VaultInv, ChecksumLook
    PROVE  VaultInv'
<1>1. request.op = "checksum" /\ pc = "start"
  BY DEF ChecksumLook
<1>2. CASE Stat(Local, request.path).kind = "file"
  <2>1. /\ world' = world /\ worlds' = worlds /\ changes' = changes /\ request' = request
        /\ out' = out /\ status' = status /\ pc' = "query" /\ out = Before /\ world \in worlds
    BY <1>1, <1>2 DEF ChecksumLook, Go, envVars, VaultInv, WorldsOK
  <2>2. WorldsOK'
    BY <1>1, <2>1 DEF VaultInv, WorldsOK
  <2>3. SeenFile(out)'
    BY <1>2, <2>1 DEF SeenFile, Local
  <2>4. ChecksumOK'
    BY <2>1, <2>3 DEF ChecksumOK, Before
  <2>5. StatOK' /\ ListOK' /\ QuietOK'
    BY <1>1, <2>1 DEF StatOK, ListOK, QuietOK
  <2>6. QED
    BY <2>2, <2>4, <2>5 DEF VaultInv
<1>3. CASE Stat(Local, request.path).kind # "file"
  <2>1. ~Fit
    BY <1>1, <1>3 DEF Fit
  <2>2. Fail("SYS_INVALID_FILE_PATH")
    BY <1>3 DEF ChecksumLook
  <2>3. QED
    BY <1>1, <2>1, <2>2, FailFails DEF Fail, Return
<1>4. QED
  BY <1>2, <1>3

\* ChecksumQuery.
LEMMA ChecksumQueryStep ==
    ASSUME VaultInv, ChecksumQuery
    PROVE  VaultInv'
<1>1. request.op = "checksum" /\ pc = "query" /\ Query({world.row.type}, "stat")
  BY DEF ChecksumQuery
<1>2. CASE /\ known' = world.row /\ Allowed(world.row) /\ pc' = "stat"
           /\ UNCHANGED <<envVars, request, status, listVars, out, faulty>>
  <2>1. /\ world' = world /\ worlds' = worlds /\ changes' = changes /\ request' = request
        /\ out' = out /\ status' = status /\ out = Before
    BY <1>1, <1>2 DEF envVars, VaultInv, WorldsOK
  <2>2. WorldsOK'
    BY <1>1, <2>1 DEF VaultInv, WorldsOK
  <2>3. Allowed(known)'
    BY <1>2, <2>1 DEF Allowed
  <2>4. SeenFile(out)'
    BY <1>1, <2>1 DEF VaultInv, ChecksumOK, SeenFile
  <2>5. ChecksumOK'
    BY <1>2, <2>1, <2>3, <2>4 DEF ChecksumOK, Before
  <2>6. StatOK' /\ ListOK'
    BY <1>1, <2>1 DEF StatOK, ListOK
  <2>7. QuietOK'
    BY <1>1, <1>2, <2>1 DEF QuietOK
  <2>8. QED
    BY <2>2, <2>5, <2>6, <2>7 DEF VaultInv
<1>3. QED
  <2>1. pc # "done" /\ world.row.type \in {world.row.type}
    BY <1>1
  <2>2. QED
    BY <1>1, <1>2, <2>1, QueryIs

\* ChecksumStat.
LEMMA ChecksumStatStep ==
    ASSUME VaultInv, ChecksumStat
    PROVE  VaultInv'
<1>1. request.op = "checksum" /\ pc = "stat"
  BY DEF ChecksumStat
<1>2. PICK host \in StatHosts :
          IF NotThere(Statted(host)) THEN Fail(reiStatus)
          ELSE IF known.loc # Here THEN Fail("USER_INVALID_RESC_INPUT")
          ELSE Go("read") /\ UNCHANGED known
  BY DEF ChecksumStat
<1>3. CASE NotThere(Statted(host))
  <2>1. ~Fit
    <3> SUFFICES ASSUME Fit PROVE FALSE
      OBVIOUS
    <3>1. host = Here /\ Stat(Local, request.path).kind = "file"
      BY <1>1, FitFacts DEF Fit
    <3>2. Statted(host) = Stat(Local, request.path)
      BY <3>1, FitFacts, StatNormal, ValuesFit DEF VaultInv, Statted, Local
    <3>3. QED
      BY <1>3, <3>1, <3>2 DEF NotThere
  <2>2. Fail(reiStatus)
    BY <1>2, <1>3
  <2>3. QED
    BY <1>1, <2>1, <2>2, FailFails DEF Fail, Return
<1>4. CASE ~NotThere(Statted(host)) /\ known.loc # Here
  <2>1. ~Fit
    BY <1>1, <1>4 DEF VaultInv, QuietOK, Fit
  <2>2. Fail("USER_INVALID_RESC_INPUT")
    BY <1>2, <1>4
  <2>3. QED
    BY <1>1, <2>1, <2>2, FailFails DEF Fail, Return
<1>5. CASE ~NotThere(Statted(host)) /\ known.loc = Here
  <2>1. /\ world' = world /\ worlds' = worlds /\ changes' = changes /\ request' = request
        /\ out' = out /\ status' = status /\ out = Before /\ known' = known /\ pc' = "read"
    BY <1>1, <1>2, <1>5 DEF Go, envVars, VaultInv, WorldsOK
  <2>2. WorldsOK'
    BY <1>1, <2>1 DEF VaultInv, WorldsOK
  <2>3. Allowed(known)' /\ SeenFile(out)'
    BY <1>1, <2>1 DEF VaultInv, ChecksumOK, Allowed, SeenFile
  <2>4. ChecksumOK'
    BY <1>5, <2>1, <2>3 DEF ChecksumOK
  <2>5. StatOK' /\ ListOK' /\ QuietOK'
    BY <1>1, <2>1 DEF StatOK, ListOK, QuietOK
  <2>6. QED
    BY <2>2, <2>4, <2>5 DEF VaultInv
<1>6. QED
  BY <1>3, <1>4, <1>5

\* ChecksumRead.
LEMMA ChecksumReadStep ==
    ASSUME VaultInv, ChecksumRead
    PROVE  VaultInv'
<1> DEFINE node == Stat(Local, request.path)
<1>1. /\ request.op = "checksum" /\ pc = "read" /\ pc' = "done"
      /\ world' = world /\ worlds' = worlds /\ changes' = changes /\ request' = request
      /\ known' = known /\ world \in worlds /\ out = Before
      /\ UNCHANGED <<envVars, request, known, listVars, faulty>>
  BY DEF ChecksumRead, Return, envVars, VaultInv, WorldsOK
<1>2. CASE node.kind = "file"
  <2>1. out' = <<"digest", node.data>> /\ status' = "ok"
    BY <1>2 DEF ChecksumRead, Return
  <2>2. WorldsOK'
    BY <1>1 DEF VaultInv, WorldsOK
  <2>3. SeenFile(out)'
    BY <1>1, <1>2, <2>1 DEF SeenFile, Local
  <2>4. Allowed(known)' /\ known'.loc = Here
    BY <1>1 DEF VaultInv, ChecksumOK, Allowed
  <2>5. ChecksumOK'
    BY <1>1, <2>3, <2>4 DEF ChecksumOK
  <2>6. StatOK' /\ ListOK'
    BY <1>1 DEF StatOK, ListOK
  <2>7. QuietOK'
    <3>1. out' # Before
      BY <2>1 DEF Before
    <3>2. QED
      BY <1>1, <2>1, <3>1 DEF QuietOK, EndsAt, Before
  <2>8. QED
    BY <2>2, <2>5, <2>6, <2>7 DEF VaultInv
<1>3. CASE node.kind # "file"
  <2>1. ~Fit
    BY <1>1, <1>3 DEF Fit
  <2>2. out' = out /\ status' = "UNIX_FILE_OPEN_ERR"
    BY <1>3 DEF ChecksumRead, Return
  <2>3. QED
    BY <1>1, <2>1, <2>2, FailFails
<1>4. QED
  BY <1>2, <1>3

\* The steps of msiDirList before it opens the directory.
LEMMA ListBeginsStep ==
    ASSUME VaultInv, request.op = "list", pc \in {"start", "look", "vault", "loc"},
           pc' \in {"look", "vault", "loc", "open"},
           UNCHANGED <<envVars, request, status, reiStatus, listVars, out, faulty>>
    PROVE  VaultInv'
<1>1. /\ world' = world /\ worlds' = worlds /\ changes' = changes /\ request' = request
      /\ out' = out /\ status' = status /\ listing' = listing /\ listing = <<>>
  BY DEF envVars, listVars, VaultInv, ListOK
<1>2. WorldsOK'
  BY <1>1 DEF VaultInv, WorldsOK
<1>3. StatOK' /\ ChecksumOK'
  BY <1>1 DEF StatOK, ChecksumOK
<1>4. ListOK'
  BY <1>1 DEF ListOK
<1>5. QuietOK'
  BY <1>1 DEF QuietOK
<1>6. QED
  BY <1>2, <1>3, <1>4, <1>5 DEF VaultInv

\* ListQueryId, ListLook, ListQueryVault, ListQueryLoc.
LEMMA ListQueriesStep ==
    ASSUME VaultInv, ListQueryId \/ ListLook \/ ListQueryVault \/ ListQueryLoc
    PROVE  VaultInv'
<1>1. request.op = "list" /\ pc \in {"start", "look", "vault", "loc"}
  BY DEF ListQueryId, ListLook, ListQueryVault, ListQueryLoc, Listing
<1>2. CASE /\ pc' \in {"look", "vault", "loc", "open"}
           /\ UNCHANGED <<envVars, request, status, reiStatus, listVars, out, faulty>>
  BY <1>1, <1>2, ListBeginsStep
<1>3. CASE /\ ~Fit /\ pc' = "done" /\ status' # "ok"
           /\ UNCHANGED <<envVars, request, known, listVars, out, faulty>>
  <2>1. pc # "done"
    BY <1>1
  <2>2. QED
    BY <1>3, <2>1, FailFails
<1>4. Fit => /\ world.row # NoRow /\ world.row.loc = Here
             /\ InVault(Normal(request.path), world.row.vault)
             /\ Stat(Local, request.path).kind = "dir"
  BY <1>1, FitFacts DEF Fit
<1>5. CASE ListQueryId
  BY <1>2, <1>3, <1>4, <1>5 DEF ListQueryId, Fail, Return, Go
<1>6. CASE ListLook
  BY <1>2, <1>3, <1>4, <1>6 DEF ListLook, Fail, Return, Go
<1>7. CASE ListQueryVault
  BY <1>2, <1>3, <1>4, <1>7 DEF ListQueryVault, Fail, Return, Go
<1>8. CASE ListQueryLoc
  BY <1>2, <1>3, <1>4, <1>8 DEF ListQueryLoc, Fail, Return, Go
<1>9. QED
  BY <1>5, <1>6, <1>7, <1>8

\* The present disk of this server.
LEMMA LocalIs ==
    ASSUME WorldsOK
    PROVE  /\ Local \in [Places -> Node] /\ Local = world.disk[Here] /\ world \in worlds
           /\ \A p \in Places : At(Local, p) = Local[p]
           /\ Children(Local, Directory) \subseteq Met
BY ValuesFit DEF Local, WorldsOK, At, Children, Met

\* ListOpen.
LEMMA ListOpenStep ==
    ASSUME VaultInv, ListOpen
    PROVE  VaultInv'
<1>1. request.op = "list" /\ pc = "open" /\ listing = <<>>
  BY DEF ListOpen, Listing, VaultInv, ListOK
<1>2. CASE Stat(Local, request.path).kind # "dir" /\ Fail("SYS_INVALID_FILE_PATH")
  <2>1. ~Fit
    BY <1>1, <1>2 DEF Fit
  <2>2. QED
    BY <1>1, <1>2, <2>1, FailFails DEF Fail, Return
<1>3. CASE /\ pending' = Children(Local, Directory) /\ pc' = "next"
           /\ UNCHANGED <<envVars, request, status, reiStatus, known,
                          entry, counting, counted, listing, out, faulty>>
  <2>1. /\ world' = world /\ worlds' = worlds /\ changes' = changes /\ request' = request
        /\ out' = out /\ status' = status /\ listing' = <<>>
    BY <1>1, <1>3 DEF envVars
  <2>2. WorldsOK'
    BY <1>1, <1>3, <2>1 DEF VaultInv, WorldsOK
  <2>3. StatOK' /\ ChecksumOK'
    BY <1>1, <1>3, <2>1 DEF StatOK, ChecksumOK
  <2>4. WorldsOK /\ Directory' = Directory /\ Met' = Met /\ Local \in [Places -> Node]
    BY <2>1, LocalIs DEF VaultInv, Directory, Met
  <2>5. Listed' = {} /\ InHand' = {} /\ DOMAIN listing' = {}
    BY <1>3, <2>1 DEF Listed, InHand
  <2>6. ListingOK'
    <3>1. IsSeq(listing')
      <4>1. <<>> \in Seq({})
        OBVIOUS
      <4>2. QED
        BY <2>1, <4>1, SeqIsSeq
    <3>2. pending' \subseteq Met' /\ NamesOnce'
      BY <1>3, <2>4, <2>5, LocalIs DEF NamesOnce
    <3>3. ASSUME NEW p \in Places, p # <<>>, Front(p) = Directory', p \notin pending'
          PROVE  Unmet(p)'
      <4>1. Local[p].kind = "none"
        BY <1>3, <2>4, <3>3 DEF Children
      <4>2. world.disk[Here][p].kind = "none" /\ world \in worlds
        BY <2>4, <4>1, LocalIs
      <4>3. QED
        BY <2>1, <4>2 DEF Unmet
    <3>4. QED
      BY <2>5, <3>1, <3>2, <3>3 DEF ListingOK
  <2>7. ListOK'
    BY <1>3, <2>6 DEF ListOK
  <2>8. QuietOK'
    BY <1>1, <1>3, <2>1, <2>5 DEF QuietOK
  <2>9. QED
    BY <2>2, <2>3, <2>7, <2>8 DEF VaultInv
<1>4. QED
  BY <1>2, <1>3 DEF ListOpen

\* ListNext.
LEMMA ListNextStep ==
    ASSUME VaultInv, ListNext
    PROVE  VaultInv'
<1>1. /\ request.op = "list" /\ pc = "next" /\ ListingOK /\ InHand = {} /\ WorldsOK
      /\ world' = world /\ worlds' = worlds /\ changes' = changes /\ request' = request
      /\ out' = out /\ status' = status /\ listing' = listing /\ faulty' = faulty
  BY DEF ListNext, Listing, VaultInv, ListOK, InHand, envVars
<1>2. PICK name \in pending \cup (Children(Local, Directory) \ Listed) :
          /\ pending' = pending \ {name}
          /\ \/ /\ entry' = [name |-> name, type |-> EntryType(At(Local, name)), count |-> 0]
                /\ pc' = "size"
             \/ /\ At(Local, name).kind = "none"
                /\ UNCHANGED <<entry, pc>>
  BY DEF ListNext
<1>3. name \in Met /\ name \notin Listed /\ name \in Places
  BY <1>1, <1>2, LocalIs DEF ListingOK, NamesOnce, Met
<1>4. /\ Met' = Met /\ Listed' = Listed /\ Directory' = Directory /\ Local' = Local
      /\ \A p : Unmet(p)' <=> Unmet(p)
      /\ \A i \in DOMAIN listing : EntryTrue(listing[i])'
  <2>1. /\ Met' = Met /\ Listed' = Listed /\ Directory' = Directory /\ Local' = Local
        /\ \A p : Unmet(p)' <=> Unmet(p)
        /\ \A d : Ever(d)' = Ever(d) /\ Always(d)' = Always(d)
    BY <1>1 DEF Met, Listed, Directory, Local, Unmet, Ever, Always
  <2>2. \A e : EntryTrue(e)' <=> EntryTrue(e)
    BY <1>1, <2>1 DEF EntryTrue, LinkTrue, DirSeen, CountTrue
  <2>3. \A i \in DOMAIN listing : EntryTrue(listing[i])
    BY <1>1 DEF ListingOK
  <2>4. ASSUME NEW i \in DOMAIN listing PROVE EntryTrue(listing[i])'
    <3>1. \E e : e = listing[i] /\ EntryTrue(e)
      BY <2>3
    <3>2. QED
      BY <1>1, <2>2, <3>1
  <2>5. QED
    BY <2>1, <2>4
<1>5. WorldsOK'
  BY <1>1, <1>2 DEF WorldsOK
<1>6. StatOK' /\ ChecksumOK'
  BY <1>1 DEF StatOK, ChecksumOK
<1>7. CASE /\ entry' = [name |-> name, type |-> EntryType(At(Local, name)), count |-> 0]
           /\ pc' = "size"
  <2>1. InHand' = {name}
    BY <1>7 DEF InHand
  <2>2. NamesOnce'
    BY <1>1, <1>2, <1>3, <1>4, <2>1 DEF ListingOK, NamesOnce
  <2>3. ListingOK'
    <3>1. Listed' \cup pending' \cup InHand' = Listed \cup pending \cup {name}
      BY <1>2, <1>4, <2>1
    <3>2. QED
      BY <1>1, <1>2, <1>4, <2>1, <2>2, <3>1 DEF ListingOK
  <2>4. LinkTrue(entry)'
    <3>1. ASSUME EntryType(At(Local, name)) = "SYMLINK" PROVE Local[name].kind = "link"
      <4>1. At(Local, name).kind = "link"
        BY <3>1 DEF EntryType
      <4>2. QED
        BY <1>1, <1>3, <4>1, LocalIs
    <3>2. QED
      BY <1>1, <1>7, <3>1, LocalIs DEF LinkTrue
  <2>5. entry' = [name |-> entry'.name, type |-> entry'.type, count |-> entry'.count]
    BY <1>7
  <2>6. ListOK'
    BY <1>3, <1>4, <1>7, <2>3, <2>4, <2>5 DEF ListOK
  <2>7. QuietOK'
    <3> SUFFICES ASSUME Fit'
                 PROVE  /\ name \in Children(Local, Directory)
                        /\ entry'.type = EntryType(Local[name])
                        /\ \A p \in Listed : Local[p].kind # "link"
      BY <1>1, <1>4, <1>7 DEF QuietOK
    <3>1. Fit
      <4>1. pc # "done" /\ UNCHANGED <<envVars, request, faulty>>
        BY <1>1 DEF envVars
      <4>2. QED
        BY <4>1, FitBefore
    <3>2. Met = Children(Local, Directory)
      BY <3>1, FitFacts DEF Met, Children, Local
    <3>3. QED
      BY <1>1, <1>3, <1>7, <3>1, <3>2, LocalIs DEF VaultInv, QuietOK
  <2>8. QED
    BY <1>5, <1>6, <2>6, <2>7 DEF VaultInv
<1>8. CASE At(Local, name).kind = "none" /\ UNCHANGED <<entry, pc>>
  <2>1. InHand' = {} /\ pc' = "next"
    BY <1>1, <1>8 DEF InHand
  <2>2. NamesOnce'
    BY <1>1, <1>2, <1>4, <2>1 DEF ListingOK, NamesOnce
  <2>3. Unmet(name)
    BY <1>1, <1>3, <1>8, LocalIs DEF Unmet
  <2>4. ListingOK'
    <3>1. Listed \cup pending \subseteq Listed' \cup pending' \cup InHand' \cup {name}
      BY <1>2, <1>4
    <3>2. ASSUME NEW p \in Places \ (Listed' \cup pending' \cup InHand'),
                 p # <<>>, Front(p) = Directory'
          PROVE  Unmet(p)'
      <4>1. p = name \/ p \notin Listed \cup pending \cup InHand
        BY <1>1, <3>1
      <4>2. QED
        BY <1>1, <1>4, <2>3, <3>2, <4>1 DEF ListingOK
    <3>3. QED
      BY <1>1, <1>2, <1>4, <2>2, <3>2 DEF ListingOK
  <2>5. ListOK'
    BY <2>1, <2>4 DEF ListOK
  <2>6. QuietOK'
    <3> SUFFICES ASSUME Fit' PROVE \A p \in Listed : Local[p].kind # "link"
      BY <1>1, <1>4, <2>1 DEF QuietOK
    <3>1. pc # "done" /\ UNCHANGED <<envVars, request, faulty>>
      BY <1>1 DEF envVars
    <3>2. Fit
      BY <3>1, FitBefore
    <3>3. QED
      BY <1>1, <3>2 DEF VaultInv, QuietOK
  <2>7. QED
    BY <1>5, <1>6, <2>5, <2>6 DEF VaultInv
<1>9. QED
  BY <1>2, <1>7, <1>8

\* What msiDirList makes of a node.
LEMMA EntryTypeIs ==
    ASSUME NEW node
    PROVE  /\ EntryType(node) = "FILE" => node.kind = "file"
           /\ EntryType(node) = "DIR" => node.kind = "dir"
           /\ EntryType(node) = "SYMLINK" => node.kind = "link"
BY DEF EntryType

\* When only the entry in work changes, what is known of the others stays.
EntryStep ==
    /\ request.op = "list" /\ pc \in {"size", "count"} /\ pc' \in {"count", "time"}
    /\ UNCHANGED <<envVars, request, status, out, pending, listing, faulty>>
    /\ entry'.name = entry.name

LEMMA EntryStepKeeps ==
    ASSUME VaultInv, EntryStep
    PROVE  /\ WorldsOK' /\ StatOK' /\ ChecksumOK' /\ ListingOK'
           /\ Met' = Met /\ entry.name \in Met
           /\ \A e : /\ LinkTrue(e)' <=> LinkTrue(e)
                     /\ EntryTrue(e)' <=> EntryTrue(e)
           /\ \A d : /\ Ever(d)' = Ever(d) /\ Always(d)' = Always(d)
                     /\ DirSeen(d)' <=> DirSeen(d)
           /\ entry'.type = entry.type => QuietOK'
<1>1. /\ world' = world /\ worlds' = worlds /\ changes' = changes /\ request' = request
      /\ out' = out /\ status' = status /\ listing' = listing /\ pending' = pending
      /\ WorldsOK /\ ListingOK /\ InHand = {entry.name} /\ entry.name \in Met
  BY DEF EntryStep, VaultInv, ListOK, InHand, envVars
<1>2. /\ Met' = Met /\ Listed' = Listed /\ Directory' = Directory /\ Local' = Local
      /\ InHand' = InHand
      /\ \A p : Unmet(p)' <=> Unmet(p)
      /\ \A d : /\ Ever(d)' = Ever(d) /\ Always(d)' = Always(d)
                /\ DirSeen(d)' <=> DirSeen(d)
      /\ \A e : LinkTrue(e)' <=> LinkTrue(e)
  BY <1>1 DEF EntryStep, Met, Listed, Directory, Local, InHand, Unmet, Ever, Always, DirSeen, LinkTrue
<1>3. \A e : EntryTrue(e)' <=> EntryTrue(e)
  BY <1>1, <1>2 DEF EntryTrue, CountTrue
<1>4. WorldsOK' /\ StatOK' /\ ChecksumOK'
  BY <1>1 DEF EntryStep, WorldsOK, StatOK, ChecksumOK
<1>5. ListingOK'
  BY <1>1, <1>2, <1>3 DEF ListingOK, NamesOnce
<1>6. ASSUME entry'.type = entry.type PROVE QuietOK'
  <2> SUFFICES ASSUME Fit'
               PROVE  /\ entry.name \in Children(Local, Directory)
                      /\ \A p \in Listed : Local[p].kind # "link"
    BY <1>1, <1>2 DEF EntryStep, QuietOK
  <2>1. Fit
    <3>1. pc # "done" /\ UNCHANGED <<envVars, request, faulty>>
      BY DEF EntryStep
    <3>2. QED
      BY <3>1, FitBefore
  <2>2. QED
    BY <2>1 DEF EntryStep, VaultInv, QuietOK
<1>7. QED
  BY <1>1, <1>2, <1>3, <1>4, <1>5, <1>6

\* What is known of the entry in work.
LEMMA EntryInWork ==
    ASSUME VaultInv, request.op = "list", pc \in {"size", "count"}
    PROVE  /\ entry.name \in Met /\ entry.name \in Places /\ LinkTrue(entry)
           /\ entry = [name |-> entry.name, type |-> entry.type, count |-> entry.count]
           /\ At(Local, entry.name) = world.disk[Here][entry.name]
           /\ Local = world.disk[Here] /\ Local[entry.name] = world.disk[Here][entry.name]
           /\ world \in worlds
           /\ Fit /\ pc = "size" => entry.type = EntryType(At(Local, entry.name))
<1>1. /\ entry.name \in Met /\ LinkTrue(entry) /\ WorldsOK
      /\ entry = [name |-> entry.name, type |-> entry.type, count |-> entry.count]
  BY DEF VaultInv, ListOK
<1>2. entry.name \in Places
  BY <1>1 DEF Met
<1>3. At(Local, entry.name) = Local[entry.name] /\ Local = world.disk[Here] /\ world \in worlds
  BY <1>1, <1>2, LocalIs
<1>4. Fit /\ pc = "size" => entry.type = EntryType(Local[entry.name])
  BY DEF VaultInv, QuietOK
<1>5. QED
  BY <1>1, <1>2, <1>3, <1>4

\* ListSize.
LEMMA ListSizeStep ==
    ASSUME VaultInv, ListSize
    PROVE  VaultInv'
<1> DEFINE node == At(Local, entry.name)
<1>1. request.op = "list" /\ pc = "size" /\ entry.type # "DIR"
  BY DEF ListSize, Listing
<1>2. CASE entry.type = "FILE" /\ node.kind # "file"
  <2>1. ~Fit
    BY <1>1, <1>2, EntryInWork, EntryTypeIs
  <2>2. Fail("SYS_INVALID_FILE_PATH")
    BY <1>2 DEF ListSize
  <2>3. QED
    BY <1>1, <2>1, <2>2, FailFails DEF Fail, Return
<1>3. CASE ~(entry.type = "FILE" /\ node.kind # "file")
  <2>1. /\ entry' = IF entry.type = "FILE" THEN [entry EXCEPT !.count = node.data] ELSE entry
        /\ pc' = "time"
        /\ UNCHANGED <<envVars, request, status, out, pending, listing, faulty>>
    BY <1>3 DEF ListSize
  <2>2. /\ entry'.name = entry.name /\ entry'.type = entry.type
        /\ entry.type = "FILE" => node.kind = "file" /\ entry'.count = node.data
    <3> HIDE DEF node
    <3>1. entry = [name |-> entry.name, type |-> entry.type, count |-> entry.count]
      BY <1>1, EntryInWork
    <3>2. QED
      BY <1>3, <2>1, <3>1
  <2>3. EntryStep
    BY <1>1, <2>1, <2>2 DEF EntryStep
  <2>4. /\ WorldsOK' /\ StatOK' /\ ChecksumOK' /\ ListingOK' /\ QuietOK'
        /\ Met' = Met /\ worlds' = worlds
    BY <2>2, <2>3, EntryStepKeeps DEF EntryStep, envVars
  <2>5. EntryTrue(entry)'
    <3>1. node = world.disk[Here][entry.name] /\ world \in worlds /\ entry.name \in Met
      BY <1>1, EntryInWork
    <3>2. LinkTrue(entry)'
      BY <1>1, <2>2, <2>4, EntryInWork DEF LinkTrue
    <3> HIDE DEF node
    <3>3. entry'.type # "DIR"
      BY <1>1, <2>2
    <3>4. QED
      BY <2>2, <2>4, <3>1, <3>2, <3>3 DEF EntryTrue
  <2>6. ListOK'
    BY <2>1, <2>4, <2>5 DEF ListOK
  <2>7. QED
    BY <2>4, <2>6 DEF VaultInv
<1>4. QED
  BY <1>2, <1>3

\* ListSubdirectory: all that was there all the time is there to be counted.
LEMMA ListSubdirectoryStep ==
    ASSUME VaultInv, ListSubdirectory
    PROVE  VaultInv'
<1>1. request.op = "list" /\ pc = "size" /\ entry.type = "DIR"
  BY DEF ListSubdirectory, Listing
<1>2. CASE At(Local, entry.name).kind # "dir"
  <2>1. ~Fit
    BY <1>1, <1>2, EntryInWork, EntryTypeIs
  <2>2. Fail("SYS_INVALID_FILE_PATH")
    BY <1>2 DEF ListSubdirectory
  <2>3. QED
    BY <1>1, <2>1, <2>2, FailFails DEF Fail, Return
<1>3. CASE At(Local, entry.name).kind = "dir"
  <2>1. /\ counting' = Children(Local, entry.name) /\ counted' = {} /\ pc' = "count"
        /\ entry' = entry
        /\ UNCHANGED <<envVars, request, status, out, pending, listing, faulty>>
    BY <1>3 DEF ListSubdirectory
  <2>2. EntryStep
    BY <1>1, <2>1 DEF EntryStep
  <2>3. /\ WorldsOK' /\ StatOK' /\ ChecksumOK' /\ ListingOK' /\ QuietOK' /\ Met' = Met
        /\ \A e : LinkTrue(e)' <=> LinkTrue(e)
        /\ \A d : /\ Ever(d)' = Ever(d) /\ Always(d)' = Always(d)
                  /\ DirSeen(d)' <=> DirSeen(d)
    BY <2>1, <2>2, EntryStepKeeps
  <2>4. Local = world.disk[Here] /\ world \in worlds /\ DirSeen(entry.name)
    BY <1>1, <1>3, EntryInWork DEF DirSeen
  <2>5. Children(Local, entry.name) \subseteq Ever(entry.name)
    BY <2>4 DEF Ever
  <2>6. Always(entry.name) \subseteq Children(Local, entry.name)
    BY <2>4 DEF Always
  <2>7. CountingOK'
    BY <2>1, <2>3, <2>5, <2>6 DEF CountingOK
  <2>8. ListOK'
    <3>1. /\ entry.name \in Met /\ LinkTrue(entry)
          /\ entry = [name |-> entry.name, type |-> entry.type, count |-> entry.count]
      BY <1>1, EntryInWork
    <3>2. DirSeen(entry.name)' /\ LinkTrue(entry)'
      BY <2>1, <2>3, <2>4, <3>1
    <3>3. QED
      BY <1>1, <2>1, <2>3, <2>7, <3>1, <3>2 DEF ListOK
  <2>9. QED
    BY <2>3, <2>8 DEF VaultInv
<1>4. QED
  BY <1>2, <1>3

\* ListCount: a name that is passed over is gone, so it was not there all the
\* time.
LEMMA ListCountStep ==
    ASSUME VaultInv, ListCount
    PROVE  VaultInv'
<1>1. /\ request.op = "list" /\ pc = "count" /\ pc' = pc /\ entry' = entry
      /\ UNCHANGED <<envVars, request, status, out, pending, listing, faulty>>
  BY DEF ListCount, Listing
<1>2. PICK name \in counting \cup (Children(Local, entry.name) \ counted) :
          /\ counting' = counting \ {name}
          /\ \/ counted' = counted \cup {name}
             \/ At(Local, name).kind = "none" /\ UNCHANGED counted
  BY DEF ListCount
<1>3. EntryStep
  BY <1>1 DEF EntryStep
<1>4. /\ WorldsOK' /\ StatOK' /\ ChecksumOK' /\ ListingOK' /\ QuietOK' /\ Met' = Met
      /\ \A e : LinkTrue(e)' <=> LinkTrue(e)
      /\ \A d : /\ Ever(d)' = Ever(d) /\ Always(d)' = Always(d)
                /\ DirSeen(d)' <=> DirSeen(d)
  BY <1>1, <1>3, EntryStepKeeps
<1>5. /\ entry.type = "DIR" /\ DirSeen(entry.name) /\ CountingOK
      /\ entry.name \in Met /\ LinkTrue(entry)
      /\ entry = [name |-> entry.name, type |-> entry.type, count |-> entry.count]
      /\ Local = world.disk[Here] /\ world \in worlds
  BY <1>1, EntryInWork DEF VaultInv, ListOK
<1>6. Children(Local, entry.name) \subseteq Ever(entry.name)
  BY <1>5 DEF Ever
<1>7. name \in Ever(entry.name)
  BY <1>2, <1>5, <1>6 DEF CountingOK
<1>8. CountingOK'
  <2>1. At(Local, name).kind = "none" => name \notin Always(entry.name)
    <3> SUFFICES ASSUME name \in Always(entry.name) PROVE At(Local, name).kind # "none"
      OBVIOUS
    <3>1. name \in Children(Local, entry.name)
      BY <1>5 DEF Always
    <3>2. QED
      BY <3>1 DEF Children, At
  <2>2. counting' \subseteq Ever(entry.name) /\ counted' \subseteq Ever(entry.name)
    BY <1>2, <1>5, <1>7 DEF CountingOK
  <2>3. Always(entry.name) \subseteq counting' \cup counted'
    BY <1>2, <1>5, <2>1 DEF CountingOK
  <2>4. QED
    BY <1>1, <1>4, <2>2, <2>3 DEF CountingOK
<1>9. ListOK'
  <2>1. DirSeen(entry.name)' /\ LinkTrue(entry)'
    BY <1>1, <1>4, <1>5
  <2>2. QED
    BY <1>1, <1>4, <1>5, <1>8, <2>1 DEF ListOK
<1>10. QED
  BY <1>4, <1>9 DEF VaultInv

\* ListCounted.
LEMMA ListCountedStep ==
    ASSUME VaultInv, ListCounted
    PROVE  VaultInv'
<1>1. /\ request.op = "list" /\ pc = "count" /\ pc' = "time" /\ counting = {}
      /\ entry' = [entry EXCEPT !.count = Cardinality(counted)]
      /\ UNCHANGED <<envVars, request, status, out, pending, listing, faulty>>
  BY DEF ListCounted, Listing
<1>2. /\ entry.type = "DIR" /\ DirSeen(entry.name) /\ CountingOK
      /\ entry.name \in Met /\ LinkTrue(entry)
      /\ entry = [name |-> entry.name, type |-> entry.type, count |-> entry.count]
  BY <1>1, EntryInWork DEF VaultInv, ListOK
<1>3. entry'.name = entry.name /\ entry'.type = "DIR" /\ entry'.count = Cardinality(counted)
  BY <1>1, <1>2
<1>4. EntryStep
  BY <1>1, <1>3 DEF EntryStep
<1>5. /\ WorldsOK' /\ StatOK' /\ ChecksumOK' /\ ListingOK' /\ QuietOK' /\ Met' = Met
      /\ \A d : /\ Ever(d)' = Ever(d) /\ Always(d)' = Always(d)
                /\ DirSeen(d)' <=> DirSeen(d)
  BY <1>2, <1>3, <1>4, EntryStepKeeps
<1>6. EntryTrue(entry)'
  <2>1. counted \in SUBSET Ever(entry.name) /\ Always(entry.name) \subseteq counted
    BY <1>1, <1>2 DEF CountingOK
  <2>2. Ever(entry.name)' = Ever(entry.name) /\ Always(entry.name)' = Always(entry.name)
    <3>1. worlds' = worlds
      BY <1>1 DEF envVars
    <3>2. Ever(entry.name)' = Ever(entry.name)
      BY <1>3, <3>1 DEF Ever
    <3>3. QED
      BY <1>3, <3>1, <3>2 DEF Always
  <2>3. CountTrue(entry)'
    BY <1>3, <2>1, <2>2 DEF CountTrue
  <2>4. DirSeen(entry.name)'
    BY <1>2, <1>3, <1>5
  <2>5. LinkTrue(entry)'
    BY <1>3 DEF LinkTrue
  <2>6. QED
    BY <1>2, <1>3, <1>5, <2>3, <2>4, <2>5 DEF EntryTrue
<1>7. ListOK'
  BY <1>1, <1>5, <1>6 DEF ListOK
<1>8. QED
  BY <1>5, <1>7 DEF VaultInv

\* ListTime.
LEMMA ListTimeStep ==
    ASSUME VaultInv, ListTime
    PROVE  VaultInv'
<1>1. /\ request.op = "list" /\ pc = "time" /\ ListingOK /\ InHand = {entry.name} /\ WorldsOK
      /\ EntryTrue(entry) /\ entry.name \in Met
  BY DEF ListTime, Listing, VaultInv, ListOK, InHand, EntryTrue
<1>2. CASE NotThere(At(Local, entry.name))
  <2>1. /\ pc' = "done" /\ status' = "SYS_INVALID_FILE_PATH"
        /\ UNCHANGED <<envVars, request, known, listVars, out, faulty>>
    BY <1>2 DEF ListTime, Fail, Return
  <2>2. ASSUME Fit' PROVE EndsAt'
    <3>1. Fit
      BY <1>1, <2>1, <2>2, FitBefore
    <3>2. entry.name \in Children(Local, Directory)
      BY <1>1, <3>1 DEF VaultInv, QuietOK
    <3>3. Local[entry.name].kind = "link"
      <4>1. NotThere(Local[entry.name])
        BY <1>1, <1>2, LocalIs DEF Met
      <4>2. QED
        BY <3>2, <4>1 DEF NotThere, Children
    <3>4. Dangling
      BY <3>2, <3>3 DEF Dangling
    <3>5. Local' = Local /\ Directory' = Directory /\ request' = request
      BY <2>1 DEF Local, Directory, envVars
    <3>6. QED
      BY <1>1, <3>4, <3>5 DEF EndsAt, Dangling
  <2>3. Failing
    BY <1>1, <2>1, <2>2 DEF Failing
  <2>4. QED
    BY <2>3, FailingStep
<1>3. CASE ~NotThere(At(Local, entry.name))
  <2>1. /\ listing' = Append(listing, entry) /\ pc' = "next"
        /\ world' = world /\ worlds' = worlds /\ changes' = changes /\ request' = request
        /\ out' = out /\ status' = status /\ pending' = pending
        /\ UNCHANGED <<envVars, request, faulty>>
    BY <1>3 DEF ListTime, envVars
  <2> DEFINE S == ToSet(listing) \cup {entry}
             n == Len(listing)
  <2>2. listing \in Seq(S) /\ n \in Nat /\ entry \in S
    <3>1. listing \in Seq(ToSet(listing)) /\ n \in Nat
      BY <1>1, SeqFacts DEF ListingOK, IsSeq
    <3>2. \A i \in 1..n : listing[i] \in S
      BY <3>1, LenProperties
    <3>3. QED
      BY <3>1, <3>2, LenProperties, IsASeq
  <2> HIDE DEF S
  <2>3. /\ IsSeq(listing') /\ DOMAIN listing' = 1..(n + 1) /\ DOMAIN listing = 1..n
        /\ \A i \in 1..n : listing'[i] = listing[i]
        /\ listing'[n + 1] = entry
    <3>1. /\ listing' \in Seq(S) /\ Len(listing') = n + 1
          /\ \A i \in 1..n : listing'[i] = listing[i]
          /\ listing'[n + 1] = entry
      BY <2>1, <2>2, AppendProperties
    <3>2. IsSeq(listing')
      BY <3>1, SeqIsSeq
    <3>3. QED
      BY <2>2, <3>1, <3>2, LenProperties
  <2> HIDE DEF n
  <2>4. \A i \in 1..(n + 1) : i \in 1..n \/ i = n + 1
    BY <2>2
  <2>5. \A i \in 1..n : i \in 1..(n + 1)
    BY <2>2
  <2>6. n + 1 \in 1..(n + 1)
    BY <2>2
  <2>7. Listed' = Listed \cup {entry.name} /\ InHand' = {}
    <3>1. Listed' = {listing'[i].name : i \in 1..(n + 1)}
      BY <2>3 DEF Listed
    <3>2. Listed = {listing[i].name : i \in 1..n}
      BY <2>3 DEF Listed
    <3>3. QED
      BY <2>1, <2>3, <2>4, <2>5, <2>6, <3>1, <3>2 DEF InHand
  <2>8. /\ Met' = Met /\ Directory' = Directory
        /\ \A p : Unmet(p)' <=> Unmet(p)
        /\ \A e : EntryTrue(e)' <=> EntryTrue(e)
    BY <2>1 DEF Met, Directory, Unmet, EntryTrue, LinkTrue, DirSeen, CountTrue, Ever, Always
  <2>9. entry.name \notin Listed /\ entry.name \notin pending
    BY <1>1 DEF ListingOK, NamesOnce
  <2>10. NamesOnce'
    <3>1. ASSUME NEW i \in 1..(n + 1), NEW j \in 1..(n + 1), listing'[i].name = listing'[j].name
          PROVE  i = j
      <4>1. CASE i \in 1..n /\ j \in 1..n
        BY <1>1, <2>3, <3>1, <4>1 DEF ListingOK, NamesOnce
      <4>2. CASE i = n + 1 /\ j \in 1..n
        BY <2>3, <2>9, <3>1, <4>2 DEF Listed
      <4>3. CASE j = n + 1 /\ i \in 1..n
        BY <2>3, <2>9, <3>1, <4>3 DEF Listed
      <4>4. QED
        BY <2>4, <4>1, <4>2, <4>3
    <3>2. pending' \cap Listed' = {}
      BY <1>1, <2>1, <2>7, <2>9 DEF ListingOK, NamesOnce
    <3>3. QED
      BY <2>3, <2>7, <3>1, <3>2 DEF NamesOnce
  <2>11. ListingOK'
    <3>1. ASSUME NEW i \in DOMAIN listing' PROVE EntryTrue(listing[i])'
      <4>1. EntryTrue(entry) /\ \A k \in 1..n : EntryTrue(listing[k])
        BY <1>1, <2>3 DEF ListingOK
      <4>2. listing'[i] = entry \/ (i \in 1..n /\ listing'[i] = listing[i])
        BY <2>3, <2>4
      <4>3. \E e : e = listing'[i] /\ EntryTrue(e)
        BY <4>1, <4>2
      <4>4. QED
        BY <2>8, <4>3
    <3>2. Listed' \cup pending' \cup InHand' = Listed \cup pending \cup InHand
      BY <1>1, <2>1, <2>7
    <3>3. QED
      BY <1>1, <2>1, <2>3, <2>8, <2>10, <3>1, <3>2 DEF ListingOK
  <2>12. ListOK'
    BY <2>1, <2>11 DEF ListOK
  <2>13. WorldsOK' /\ StatOK' /\ ChecksumOK'
    BY <1>1, <2>1 DEF WorldsOK, StatOK, ChecksumOK
  <2>14. QuietOK'
    <3> SUFFICES ASSUME Fit' PROVE \A p \in Listed' : Local'[p].kind # "link"
      BY <1>1, <2>1 DEF QuietOK
    <3>1. Fit
      BY <1>1, <2>1, FitBefore
    <3>2. \A p \in Listed : Local[p].kind # "link"
      BY <1>1, <3>1 DEF VaultInv, QuietOK
    <3>3. Local[entry.name].kind # "link"
      BY <1>1, <1>3, LocalIs DEF NotThere, Met
    <3>4. Local' = Local
      BY <2>1 DEF Local
    <3>5. QED
      BY <2>7, <3>2, <3>3, <3>4
  <2>15. QED
    BY <2>12, <2>13, <2>14 DEF VaultInv
<1>4. QED
  BY <1>2, <1>3

\* ListEnd.
LEMMA ListEndStep ==
    ASSUME VaultInv, ListEnd
    PROVE  VaultInv'
<1>1. /\ request.op = "list" /\ pc = "next" /\ pending = {} /\ ListingOK /\ InHand = {}
      /\ pc' = "done" /\ status' = "ok" /\ out' = <<"listing", listing>>
      /\ world' = world /\ worlds' = worlds /\ changes' = changes /\ request' = request
      /\ listing' = listing /\ pending' = pending /\ entry' = entry
  BY DEF ListEnd, Return, Listing, VaultInv, ListOK, InHand, envVars, listVars
<1>2. WorldsOK' /\ StatOK' /\ ChecksumOK'
  BY <1>1 DEF VaultInv, WorldsOK, StatOK, ChecksumOK
<1>3. ListOK'
  <2>1. /\ Met' = Met /\ Directory' = Directory /\ Listed' = Listed /\ InHand' = InHand
        /\ \A p : Unmet(p)' <=> Unmet(p)
        /\ \A e : EntryTrue(e)' <=> EntryTrue(e)
    BY <1>1 DEF Met, Directory, Listed, InHand, Unmet, EntryTrue, LinkTrue, DirSeen, CountTrue,
                Ever, Always
  <2>2. ListingOK'
    BY <1>1, <2>1 DEF ListingOK, NamesOnce
  <2>3. QED
    BY <1>1, <2>2 DEF ListOK
<1>4. QuietOK'
  <2> SUFFICES ASSUME Fit' PROVE ~Dangling'
    <3>1. out' # Before
      BY <1>1 DEF Before
    <3>2. QED
      BY <1>1, <3>1 DEF QuietOK, EndsAt, Before
  <2>1. Fit
    <3>1. pc # "done" /\ UNCHANGED <<envVars, request, faulty>>
      BY <1>1 DEF ListEnd
    <3>2. QED
      BY <3>1, FitBefore
  <2>2. worlds = {world} /\ \A p \in Listed : Local[p].kind # "link"
    BY <1>1, <2>1, FitFacts DEF VaultInv, QuietOK
  <2>3. ASSUME NEW p \in Children(Local, Directory) PROVE p \in Listed
    <3>1. p \in Places /\ p # <<>> /\ Front(p) = Directory /\ world.disk[Here][p].kind # "none"
      BY DEF Children, Local
    <3>2. ~Unmet(p)
      BY <2>2, <3>1 DEF Unmet
    <3>3. QED
      BY <1>1, <3>1, <3>2 DEF ListingOK
  <2>4. Local' = Local /\ Directory' = Directory
    BY <1>1 DEF Local, Directory
  <2>5. QED
    BY <2>2, <2>3, <2>4 DEF Dangling
<1>5. QED
  BY <1>2, <1>3, <1>4 DEF VaultInv

\* Others: the world stays one, and what was so at one time stays so.
LEMMA OthersStep ==
    ASSUME VaultInv, Others
    PROVE  VaultInv'
<1>1. /\ request' = request /\ pc' = pc /\ status' = status /\ known' = known /\ out' = out
      /\ pending' = pending /\ entry' = entry /\ listing' = listing /\ pc # "done"
      /\ counting' = counting /\ counted' = counted /\ WorldsOK
  BY DEF Others, listVars, VaultInv
<1>2. world' \in World /\ worlds' = worlds \cup {world'} /\ changes' = changes + 1
  <2>1. world = [row |-> world.row, disk |-> world.disk]
        /\ world.row \in Rows \cup {NoRow} /\ world.disk \in [Hosts -> [Places -> Node]]
    BY <1>1 DEF WorldsOK, World
  <2>2. CASE ChangeResource
    <3>1. PICK row \in Rows \cup {NoRow} : Become([world EXCEPT !.row = row])
      BY <2>2 DEF ChangeResource
    <3>2. [world EXCEPT !.row = row] \in World
      BY <2>1 DEF World
    <3>3. QED
      BY <3>1, <3>2 DEF Become
  <2>3. CASE ChangeFile
    <3>1. PICK spot \in Busy, node \in Nodes \cup {Missing} :
              Become([world EXCEPT !.disk[spot[1]][spot[2]] = node])
      BY <2>3 DEF ChangeFile
    <3>2. spot[1] \in Hosts /\ spot[2] \in Places /\ node \in Node
      BY VaultAssumption DEF Missing, Node, Kinds
    <3>3. [world EXCEPT !.disk[spot[1]][spot[2]] = node] \in World
      BY <2>1, <3>2 DEF World
    <3>4. QED
      BY <3>1, <3>3 DEF Become
  <2>4. QED
    BY <2>2, <2>3 DEF Others
<1>3. WorldsOK'
  BY <1>1, <1>2 DEF WorldsOK
<1>4. StatHosts \subseteq StatHosts' /\ \A r : Allowed(r) => Allowed(r)'
  BY <1>1, <1>2 DEF StatHosts, Allowed
<1>5. StatOK'
  BY <1>1, <1>4 DEF VaultInv, StatOK
<1>6. ChecksumOK'
  <2>1. \A c : SeenFile(c) => SeenFile(c)'
    BY <1>1, <1>2 DEF SeenFile
  <2>2. Before' = Before
    BY DEF Before
  <2>3. QED
    BY <1>1, <1>4, <2>1, <2>2 DEF VaultInv, ChecksumOK
<1>7. ListOK'
  <2>1. /\ Met \subseteq Met' /\ Directory' = Directory /\ Listed' = Listed /\ InHand' = InHand
        /\ \A p : Unmet(p) => Unmet(p)'
        /\ \A e : LinkTrue(e) => LinkTrue(e)'
    BY <1>1, <1>2 DEF Met, Directory, Listed, InHand, Unmet, LinkTrue
  <2>2. \A d : /\ Ever(d) \subseteq Ever(d)' /\ Always(d)' \subseteq Always(d)
               /\ DirSeen(d) => DirSeen(d)'
    <3> SUFFICES ASSUME NEW d
                 PROVE  /\ Ever(d) \subseteq Ever(d)' /\ Always(d)' \subseteq Always(d)
                        /\ DirSeen(d) => DirSeen(d)'
      OBVIOUS
    <3>1. Ever(d) \subseteq Ever(d)'
      BY <1>2 DEF Ever
    <3>2. ASSUME NEW q \in Always(d)' PROVE q \in Always(d)
      <4>1. \A w \in worlds : q \in Children(w.disk[Here], d)
        BY <1>2, <3>2 DEF Always
      <4>2. q \in Ever(d)
        BY <1>1, <4>1 DEF Ever, WorldsOK
      <4>3. QED
        BY <4>1, <4>2 DEF Always
    <3>3. DirSeen(d) => DirSeen(d)'
      BY <1>2 DEF DirSeen
    <3>4. QED
      BY <3>1, <3>2, <3>3
  <2>3. \A e : CountTrue(e) => CountTrue(e)'
    <3> SUFFICES ASSUME NEW e, CountTrue(e) PROVE CountTrue(e)'
      OBVIOUS
    <3>1. PICK names \in SUBSET Ever(e.name) :
              Always(e.name) \subseteq names /\ e.count = Cardinality(names)
      BY DEF CountTrue
    <3>2. names \in SUBSET Ever(e.name)' /\ Always(e.name)' \subseteq names
      BY <2>2, <3>1
    <3>3. QED
      BY <3>1, <3>2 DEF CountTrue
  <2>4. \A e : EntryTrue(e) => EntryTrue(e)'
    BY <1>2, <2>1, <2>2, <2>3 DEF EntryTrue
  <2>5. ListingOK => ListingOK'
    BY <1>1, <2>1, <2>4 DEF ListingOK, NamesOnce
  <2>6. CountingOK => CountingOK'
    BY <1>1, <2>2 DEF CountingOK
  <2>7. QED
    BY <1>1, <2>1, <2>2, <2>4, <2>5, <2>6 DEF VaultInv, ListOK
<1>8. QuietOK'
  <2>1. changes' # 0
    BY <1>1, <1>2 DEF WorldsOK
  <2>2. QED
    BY <2>1 DEF QuietOK, Fit
<1>9. QED
  BY <1>3, <1>5, <1>6, <1>7, <1>8 DEF VaultInv

\* Over.
LEMMA OverStep ==
    ASSUME VaultInv, UNCHANGED vaultVars
    PROVE  VaultInv'
<1>1. /\ request' = request /\ pc' = pc /\ status' = status /\ known' = known /\ out' = out
      /\ pending' = pending /\ entry' = entry /\ listing' = listing
      /\ counting' = counting /\ counted' = counted
      /\ world' = world /\ worlds' = worlds /\ changes' = changes /\ faulty' = faulty
  BY DEF vaultVars, envVars, listVars
<1>2. /\ Met' = Met /\ Directory' = Directory /\ Listed' = Listed /\ InHand' = InHand
      /\ Local' = Local /\ StatHosts' = StatHosts
      /\ \A r : Allowed(r)' <=> Allowed(r)
      /\ \A c : SeenFile(c)' <=> SeenFile(c)
      /\ \A p : Unmet(p)' <=> Unmet(p)
      /\ \A e : /\ LinkTrue(e)' <=> LinkTrue(e)
                /\ EntryTrue(e)' <=> EntryTrue(e)
      /\ \A d : DirSeen(d)' <=> DirSeen(d)
      /\ CountingOK' <=> CountingOK
      /\ EndsAt' <=> EndsAt
  BY <1>1 DEF EndsAt, Dangling, Met, Directory, Listed, InHand, Local, StatHosts, Allowed, SeenFile, Unmet,
              LinkTrue, EntryTrue, DirSeen, CountTrue, CountingOK, Ever, Always
<1>3. WorldsOK'
  BY <1>1 DEF VaultInv, WorldsOK
<1>4. StatOK'
  BY <1>1, <1>2 DEF VaultInv, StatOK
<1>5. ChecksumOK'
  BY <1>1, <1>2 DEF VaultInv, ChecksumOK, Before
<1>6. ListOK'
  <2>1. ListingOK' <=> ListingOK
    BY <1>1, <1>2 DEF ListingOK, NamesOnce
  <2>2. QED
    BY <1>1, <1>2, <2>1 DEF VaultInv, ListOK
<1>7. QuietOK'
  <2>1. Fit' <=> Fit
    BY <1>1, <1>2 DEF Fit
  <2>2. QED
    BY <1>1, <1>2, <2>1 DEF VaultInv, QuietOK, Before
<1>8. QED
  BY <1>3, <1>4, <1>5, <1>6, <1>7 DEF VaultInv

\* What the worlds were like, what each microservice has read and made of it by
\* each of its steps, and what a quiet call has reached.
THEOREM VaultInvariance == Spec => []VaultInv
<1>1. Init => VaultInv
  BY VaultInit
<1>2. VaultInv /\ [Next]_vaultVars => VaultInv'
  <2> SUFFICES ASSUME VaultInv, [Next]_vaultVars PROVE VaultInv'
    OBVIOUS
  <2>1. CASE Reject \/ CallFails
    BY <2>1, RejectStep, CallFailsStep
  <2>2. CASE msiStatVault
    BY <2>2, StatQueryStep, StatFileStep, StatBlockedStep DEF msiStatVault
  <2>3. CASE msiFileChecksum
    BY <2>3, ChecksumLookStep, ChecksumQueryStep, ChecksumStatStep, StatBlockedStep,
       ChecksumReadStep DEF msiFileChecksum
  <2>4. CASE msiDirList
    BY <2>4, ListQueriesStep, ListOpenStep, ListNextStep, ListSizeStep, ListTimeStep, ListEndStep,
       ListSubdirectoryStep, ListCountStep, ListCountedStep DEF msiDirList
  <2>5. CASE Others
    BY <2>5, OthersStep
  <2>6. CASE Over \/ UNCHANGED vaultVars
    BY <2>6, OverStep DEF Over
  <2>7. QED
    BY <2>1, <2>2, <2>3, <2>4, <2>5, <2>6 DEF Next
<1>3. QED
  BY <1>1, <1>2, PTL DEF Spec

-----------------------------------------------------------------------------
(* What follows for a call that returned.                                  *)

\* A sequence of entries with names of their own has as many names as entries.
LEMMA NamesCounted ==
    ASSUME NEW s, IsSeq(s), \A i, j \in DOMAIN s : s[i].name = s[j].name => i = j
    PROVE  Cardinality({s[i].name : i \in DOMAIN s}) = Len(s)
<1> DEFINE n == Len(s)
           T == {s[i].name : i \in DOMAIN s}
           b == [i \in 1..n |-> s[i].name]
<1>1. n \in Nat /\ DOMAIN s = 1..n
  BY SeqFacts
<1>2. b \in [1..n -> T] /\ \A t \in T : \E i \in 1..n : b[i] = t
  BY <1>1
<1>3. \A i, j \in 1..n : b[i] = b[j] => i = j
  BY <1>1
<1> HIDE DEF b, T
<1>4. b \in Bijection(1..n, T)
  BY <1>2, <1>3, Fun_IsBij
<1>5. ExistsBijection(1..n, T)
  BY <1>4 DEF ExistsBijection
<1>6. Cardinality(T) = n
  BY <1>1, <1>5, FS_CountingElements
<1>7. QED
  BY <1>6 DEF T

\* msiStatVault tells what the path was at one moment of the call, in the vault
\* of a resource on which it may look (StatTrue).
THEOREM StatTellsTheTruth == Spec => []StatTrue
<1>1. VaultInv => StatTrue
  <2> SUFFICES ASSUME VaultInv, Succeeded("stat") PROVE StatTrue
    BY DEF StatTrue
  <2> DEFINE path == request.path
  <2>1. WorldsOK /\ IsSeq(path) /\ StatHosts \subseteq Hosts
    BY ValuesFit DEF VaultInv
  <2>2. /\ Allowed(known) /\ known.type \in UnixFileSystem
        /\ \E w \in worlds, host \in StatHosts :
              LET node == Stat(w.disk[host], Normal(path))
              IN  node # Blocked /\ out = Types(node)
    BY DEF VaultInv, StatOK, Succeeded
  <2>3. PICK w \in worlds : w.row = known
    BY <2>2 DEF Allowed
  <2>4. known # NoRow /\ VaultPath(known.vault) /\ InVault(Normal(path), known.vault)
    BY <2>1, <2>2, <2>3, ValuesFit DEF Allowed
  <2>5. ~Climbs(Normal(path)) /\ InVault(Append(Place(path), "."), known.vault)
    BY <2>1, <2>4, InVaultPlace
  <2>6. Append(Place(path), ".") = Place(path) \o <<".">>
    <3> DEFINE S == ToSet(Place(path)) \cup {"."}
    <3>1. Place(path) \in Seq(S)
      BY <2>1, NormalAndPlace DEF Clean, IsSeq
    <3>2. "." \in S
      OBVIOUS
    <3> HIDE DEF S
    <3>3. QED
      BY <3>1, <3>2, AppendIsConcat
  <2>7. Has(w.row, Place(path) \o <<".">>) /\ w.row.type \in UnixFileSystem
    BY <2>2, <2>3, <2>4, <2>5, <2>6 DEF Has
  <2>8. PICK v \in worlds, host \in StatHosts :
            /\ Stat(v.disk[host], Normal(path)) # Blocked
            /\ out = Types(Stat(v.disk[host], Normal(path)))
    BY <2>2
  <2> DEFINE seen == Stat(v.disk[host], Normal(path))
             node == At(v.disk[host], Place(path))
  <2>9. seen = node \/ seen = Missing
    BY <2>1, <2>5, <2>8, StatIs, NormalLeadsThere
  <2>10. node.kind \in Kinds
    <3>1. v.disk[host] \in [Places -> Node]
      BY <2>1, ValuesFit
    <3>2. QED
      BY <3>1, AtIsNode
  <2>11. \/ out = <<"NOTEXIST", 0>>     /\ NotThere(seen)
         \/ out = <<"FILE", node.data>> /\ node.kind \in {"file", "socket"}
         \/ out = <<"DIR", 0>>          /\ node.kind \in {"dir", "block"}
         \/ out = <<"OTHER", 0>>        /\ node.kind = "other"
    <3>1. out = Types(seen)
      BY <2>8
    <3>2. NotThere(Missing)
      BY DEF NotThere, Missing
    <3> HIDE DEF seen, node
    <3>3. CASE seen = Missing
      BY <3>1, <3>2, <3>3, TypesIs
    <3>4. CASE seen = node
      <4>1. \/ NotThere(node) \/ node.kind \in {"file", "socket"}
            \/ node.kind \in {"dir", "block"} \/ node.kind = "other"
        BY <2>10 DEF Kinds, NotThere
      <4>2. QED
        BY <3>1, <3>4, <4>1, TypesIs
    <3>5. QED
      BY <2>9, <3>3, <3>4
  <2>12. QED
    BY <2>7, <2>11 DEF StatTrue
<1>2. QED
  BY <1>1, VaultInvariance, PTL

\* A checksum is that of a content the file had during the call, and of a file
\* in a vault that the resource had, on this server (ChecksumTrue).
THEOREM ChecksumIsOfTheFile == Spec => []ChecksumTrue
<1>1. VaultInv => ChecksumTrue
  <2> SUFFICES ASSUME VaultInv, Succeeded("checksum"), out # Before PROVE ChecksumTrue
    BY DEF ChecksumTrue
  <2> DEFINE path == request.path
  <2>1. SeenFile(out) /\ Allowed(known) /\ known.loc = Here /\ IsSeq(path)
    BY ValuesFit DEF VaultInv, ChecksumOK, Succeeded
  <2>2. PICK w \in worlds : /\ Stat(w.disk[Here], path).kind = "file"
                            /\ out = <<"digest", Stat(w.disk[Here], path).data>>
    BY <2>1 DEF SeenFile
  <2>3. Stat(w.disk[Here], path) = At(w.disk[Here], Place(path))
    BY <2>2, StatIs
  <2>4. PICK u \in worlds : u.row = known
    BY <2>1 DEF Allowed
  <2>5. known # NoRow /\ VaultPath(known.vault) /\ InVault(Normal(path), known.vault)
    BY <2>1, <2>4, ValuesFit DEF VaultInv, Allowed
  <2>6. InVault(Place(path), known.vault)
    BY <2>1, <2>2, <2>5, FileInVault
  <2>7. u.row.loc = Here /\ Has(u.row, Place(path))
    BY <2>1, <2>4, <2>5, <2>6 DEF Has
  <2>8. QED
    BY <2>2, <2>3, <2>7 DEF ChecksumTrue
<1>2. QED
  BY <1>1, VaultInvariance, PTL

\* A number of names between two sets of names is between their numbers.
LEMMA CountBounds ==
    ASSUME NEW e, CountTrue(e)
    PROVE  e.count \in Cardinality(Always(e.name))..Cardinality(Ever(e.name))
<1>1. PICK names \in SUBSET Ever(e.name) :
          Always(e.name) \subseteq names /\ e.count = Cardinality(names)
  BY DEF CountTrue
<1>2. IsFiniteSet(Ever(e.name))
  <2>1. Ever(e.name) \subseteq Places
    BY DEF Ever, Children
  <2>2. QED
    BY <2>1, VaultAssumption, FS_Subset
<1>3. IsFiniteSet(names) /\ Cardinality(names) <= Cardinality(Ever(e.name))
  BY <1>1, <1>2, FS_Subset
<1>4. IsFiniteSet(Always(e.name)) /\ Cardinality(Always(e.name)) <= Cardinality(names)
  BY <1>1, <1>3, FS_Subset
<1>5. /\ Cardinality(names) \in Nat /\ Cardinality(Always(e.name)) \in Nat
      /\ Cardinality(Ever(e.name)) \in Nat
  BY <1>2, <1>3, <1>4, FS_CardinalityType
<1>6. QED
  BY <1>1, <1>3, <1>4, <1>5

\* A listing has every name once, what was there all the time and nothing that
\* never was, with a type and a size it had (ListingExact).
THEOREM ListingIsExact == Spec => []ListingExact
<1>1. VaultInv => ListingExact
  <2> SUFFICES ASSUME VaultInv, Succeeded("list") PROVE ListingExact
    BY DEF ListingExact
  <2>1. /\ ListingOK /\ pending = {} /\ out = <<"listing", listing>> /\ InHand = {}
    BY DEF VaultInv, ListOK, Succeeded, InHand
  <2>2. out[2] = listing
    BY <2>1
  <2>3. \A w \in worlds : \A p \in Places : At(w.disk[Here], p) = w.disk[Here][p]
    BY DEF At
  <2>4. Cardinality({listing[i].name : i \in DOMAIN listing}) = Len(listing)
    BY <2>1, NamesCounted DEF ListingOK, NamesOnce
  <2>5. ASSUME NEW p \in Places \ Listed, p # <<>>, Front(p) = Directory
        PROVE  \E w \in worlds : At(w.disk[Here], p).kind = "none"
    BY <2>1, <2>3, <2>5 DEF ListingOK, Unmet
  <2>6. ASSUME NEW i \in DOMAIN listing
        PROVE  LET e == listing[i]
               IN  /\ \E w \in worlds : At(w.disk[Here], e.name).kind # "none"
                   /\ e.type = "FILE" =>
                         \E w \in worlds : /\ At(w.disk[Here], e.name).kind = "file"
                                           /\ e.count = w.disk[Here][e.name].data
                   /\ e.type = "DIR" =>
                         /\ \E w \in worlds : At(w.disk[Here], e.name).kind = "dir"
                         /\ e.count \in Cardinality(Always(e.name))..Cardinality(Ever(e.name))
                   /\ e.type = "SYMLINK" =>
                         \E w \in worlds : At(w.disk[Here], e.name).kind = "link"
    <3> DEFINE e == listing[i]
    <3>1. EntryTrue(e) /\ e.name \in Met /\ e.name \in Places
      BY <2>1 DEF ListingOK, EntryTrue, Met
    <3> HIDE DEF e
    <3>2. \A w \in worlds : At(w.disk[Here], e.name) = w.disk[Here][e.name]
      BY <2>3, <3>1
    <3>3. \E w \in worlds : At(w.disk[Here], e.name).kind # "none"
      BY <3>1, <3>2 DEF Met
    <3>4. CountTrue(e) =>
             e.count \in Cardinality(Always(e.name))..Cardinality(Ever(e.name))
      BY CountBounds
    <3>5. QED
      BY <3>1, <3>2, <3>3, <3>4 DEF EntryTrue, DirSeen, LinkTrue, e
  <2>7. QED
    BY <2>2, <2>4, <2>5, <2>6 DEF ListingExact, Listed
<1>2. QED
  BY <1>1, VaultInvariance, PTL

\* A call that nothing and nobody disturbs succeeds, unless msiDirList comes to
\* a link that leads nowhere (QuietCallSucceeds).
THEOREM UndisturbedCallSucceeds == Spec => []QuietCallSucceeds
<1>1. VaultInv => QuietCallSucceeds
  BY DEF VaultInv, QuietOK, Fit, EndsAt, Undisturbed, QuietCallSucceeds
<1>2. QED
  BY <1>1, VaultInvariance, PTL

=============================================================================
