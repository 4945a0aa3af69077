-------------------------- MODULE AttributesProofs --------------------------
(***************************************************************************)
(* What attributes() guarantees for every array and every item.            *)
(***************************************************************************)
EXTENDS Attributes, TLAPS

\* name is that of the element handled last.
NameFollows == name = IF i = 0 THEN NoName ELSE list[i].name

Inv == TypeOK /\ NameFollows /\ OtherNamesKept /\ LastRunOnly

-----------------------------------------------------------------------------
(* Lemmas about runs.                                                      *)

\* Handling an element of another name does not end or extend the last run of
\* the name of element j.
LEMMA OtherNameKeepsRun ==
    ASSUME TypeOK, i < Len(list), NEW j \in 1..i,
           list[j].name # list[i + 1].name
    PROVE  InLastRun(j, i) <=> InLastRun(j, i + 1)
<1>1. i \in Nat /\ Len(list) \in Nat
  BY AttributesAssumption DEF TypeOK
<1>2. ASSUME InLastRun(j, i), NEW m \in j..(i + 1), list[m].name = list[j].name
      PROVE  \A h \in j..m : list[h].name = list[j].name
  <2>1. m \in j..i
    BY <1>1, <1>2
  <2>2. QED
    BY <2>1, <1>2 DEF InLastRun
<1>3. InLastRun(j, i + 1) => InLastRun(j, i)
  BY <1>1 DEF InLastRun
<1>4. QED
  BY <1>2, <1>3 DEF InLastRun

\* An element with the name of the one before it continues the last run.
LEMMA SameNameContinuesRun ==
    ASSUME TypeOK, i < Len(list), NEW j \in 1..i,
           list[j].name = list[i + 1].name, list[i].name = list[i + 1].name
    PROVE  InLastRun(j, i) <=> InLastRun(j, i + 1)
<1>1. i \in Nat /\ Len(list) \in Nat
  BY AttributesAssumption DEF TypeOK
<1>2. ASSUME InLastRun(j, i), NEW m \in j..(i + 1), list[m].name = list[j].name,
             NEW h \in j..m
      PROVE  list[h].name = list[j].name
  <2>1. CASE h = i + 1
    BY <2>1
  <2>2. CASE h # i + 1
    <3>1. i \in j..i /\ h \in j..i
      BY <1>1, <2>2
    <3>2. QED
      BY <3>1, <1>2 DEF InLastRun
  <2>3. QED
    BY <2>1, <2>2
<1>3. InLastRun(j, i + 1) => InLastRun(j, i)
  BY <1>1 DEF InLastRun
<1>4. QED
  BY <1>2, <1>3 DEF InLastRun

\* An element whose name differs from that of the one before it starts a run:
\* earlier elements of its name are not in the last run any more.
LEMMA NewRunEndsEarlier ==
    ASSUME TypeOK, i < Len(list), NEW j \in 1..i,
           list[j].name = list[i + 1].name, list[i].name # list[i + 1].name
    PROVE  ~InLastRun(j, i + 1)
<1>1. i \in j..(i + 1) /\ i + 1 \in j..(i + 1)
  BY AttributesAssumption DEF TypeOK
<1>2. QED
  BY <1>1 DEF InLastRun

-----------------------------------------------------------------------------
(* The invariant.                                                          *)

\* The invariant holds before the loop of attributes().
LEMMA InvInit == Init => Inv
BY AttributesAssumption
   DEF Init, Inv, TypeOK, NameFollows, OtherNamesKept, LastRunOnly, Named

\* A turn of the loop keeps the types and remembers the name it handled.
LEMMA TypeStep == TypeOK /\ Turn => TypeOK' /\ NameFollows'
<1> SUFFICES ASSUME TypeOK, Turn PROVE TypeOK' /\ NameFollows'
  OBVIOUS
<1>1. list \in Seq(Avu) /\ i \in Nat /\ Len(list) \in Nat /\ i + 1 \in 1..Len(list)
  BY AttributesAssumption DEF TypeOK, Turn
<1>2. list[i + 1] \in Avu
  BY <1>1
<1>3. avus' \subseteq Avu
  BY <1>2 DEF TypeOK, Turn, Modified
<1>4. faults' \in Nat
  BY DEF TypeOK, Turn
<1>5. name' = list[i + 1].name /\ i' = i + 1 /\ list' = list /\ before' = before
  BY DEF Turn
<1>6. name' \in AvuName
  BY <1>2, <1>5 DEF Avu
<1>7. QED
  BY <1>1, <1>3, <1>4, <1>5, <1>6 DEF TypeOK, NameFollows

\* A turn of the loop leaves AVUs of names outside the array alone.
LEMMA OthersStep == TypeOK /\ OtherNamesKept /\ Turn => OtherNamesKept'
<1> SUFFICES ASSUME TypeOK, OtherNamesKept, Turn,
                    NEW v \in Avu, ~Named(v.name, Len(list))
             PROVE  v \in avus' <=> v \in before
  BY DEF OtherNamesKept, Turn, Named
<1>1. i + 1 \in 1..Len(list)
  BY AttributesAssumption DEF TypeOK, Turn
<1>2. v.name # list[i + 1].name
  BY <1>1 DEF Named
<1>3. v \in avus' <=> v \in avus
  BY <1>2 DEF Turn, Modified
<1>4. QED
  BY <1>3 DEF OtherNamesKept

\* A turn of the loop leaves, of its name, what the last run of it restores.
LEMMA RunStep ==
    TypeOK /\ NameFollows /\ LastRunOnly /\ Turn => LastRunOnly'
<1> SUFFICES ASSUME TypeOK, NameFollows, LastRunOnly, Turn, faults' = 0,
                    NEW v \in Avu, Named(v.name, i + 1)
             PROVE  v \in avus' <=>
                      \E j \in 1..(i + 1) : list[j] = v /\ InLastRun(j, i + 1)
  BY DEF LastRunOnly, Turn, Named, InLastRun
<1> DEFINE avu == list[i + 1]
<1>1. i \in Nat /\ Len(list) \in Nat /\ i < Len(list)
  BY AttributesAssumption DEF TypeOK, Turn
<1>2. avus' = Modified(Operation(avu), avu) /\ faults = 0
  BY DEF Turn, TypeOK
<1>3. InLastRun(i + 1, i + 1)
  BY <1>1 DEF InLastRun
<1>4. avu.name \in AvuName
  <2>1. list \in Seq(Avu) /\ i + 1 \in 1..Len(list)
    BY <1>1, AttributesAssumption DEF TypeOK
  <2>2. avu \in Avu
    BY <2>1
  <2>3. QED
    BY <2>2 DEF Avu
<1>5. CASE v.name # avu.name
  <2>1. Named(v.name, i)
    BY <1>1, <1>5 DEF Named
  <2>2. v \in avus' <=> v \in avus
    BY <1>2, <1>5 DEF Modified
  <2>3. v \in avus <=> \E j \in 1..i : list[j] = v /\ InLastRun(j, i)
    BY <1>2, <2>1 DEF LastRunOnly
  <2>4. \A j \in 1..i : list[j] = v => (InLastRun(j, i) <=> InLastRun(j, i + 1))
    BY <1>1, <1>5, OtherNameKeepsRun
  <2>5. list[i + 1] # v
    BY <1>5
  <2>6. QED
    BY <1>1, <2>2, <2>3, <2>4, <2>5
<1>6. CASE v.name = avu.name /\ avu.name = name
  <2>1. i \in 1..i /\ name = list[i].name
    BY <1>1, <1>4, <1>6, AttributesAssumption DEF NameFollows
  <2>2. v \in avus' <=> v \in avus \/ v = avu
    BY <1>2, <1>6 DEF Modified, Operation
  <2>3. Named(v.name, i)
    BY <1>6, <2>1 DEF Named
  <2>4. v \in avus <=> \E j \in 1..i : list[j] = v /\ InLastRun(j, i)
    BY <1>2, <2>3 DEF LastRunOnly
  <2>5. \A j \in 1..i : list[j] = v => (InLastRun(j, i) <=> InLastRun(j, i + 1))
    BY <1>1, <1>6, <2>1, SameNameContinuesRun
  <2>6. QED
    BY <1>1, <1>3, <2>2, <2>4, <2>5
<1>7. CASE v.name = avu.name /\ avu.name # name
  <2>1. v \in avus' <=> v = avu
    BY <1>2, <1>7 DEF Modified, Operation
  <2>2. \A j \in 1..i : list[j] = v => ~InLastRun(j, i + 1)
    <3>1. ASSUME NEW j \in 1..i, list[j] = v PROVE ~InLastRun(j, i + 1)
      <4>1. list[i].name # list[i + 1].name
        BY <1>1, <1>7, <3>1 DEF NameFollows
      <4>2. QED
        BY <1>1, <1>7, <3>1, <4>1, NewRunEndsEarlier
    <3>2. QED
      BY <3>1
  <2>3. QED
    BY <1>1, <1>3, <2>1, <2>2
<1>8. QED
  BY <1>5, <1>6, <1>7

\* Every turn of the loop preserves the invariant.
LEMMA InvStep == Inv /\ [Next]_vars => Inv'
<1> SUFFICES ASSUME Inv, [Next]_vars PROVE Inv'
  OBVIOUS
<1>1. CASE Turn
  BY <1>1, TypeStep, OthersStep, RunStep DEF Inv
<1>2. CASE UNCHANGED vars
  BY <1>2 DEF vars, Inv, TypeOK, NameFollows, OtherNamesKept, LastRunOnly,
              Named, InLastRun
<1>3. QED
  BY <1>1, <1>2 DEF Next, AllDone

\* The invariant holds throughout attributes(), whichever calls fail.
THEOREM Invariance == Spec => []Inv
BY InvInit, InvStep, PTL DEF Spec

\* The loop of attributes() stays on its array, and its status is one that the
\* calls return.
THEOREM TypeCorrect == Spec => []TypeOK
<1>1. Inv => TypeOK
  BY DEF Inv
<1>2. QED
  BY <1>1, Invariance, PTL

\* Whatever the array, whatever the item had and whichever calls fail, AVUs
\* with other names than the archived ones are neither lost nor added.
THEOREM OtherNamesSafe == Spec => []OtherNamesKept
<1>1. Inv => OtherNamesKept
  BY DEF Inv
<1>2. QED
  BY <1>1, Invariance, PTL

\* Of every archived name the item gets exactly the last run.
THEOREM LastRunRestored == Spec => []LastRunOnly
<1>1. Inv => LastRunOnly
  BY DEF Inv
<1>2. QED
  BY <1>1, Invariance, PTL
=============================================================================
