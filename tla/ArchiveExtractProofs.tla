------------------------ MODULE ArchiveExtractProofs ------------------------
(***************************************************************************)
(* What extraction guarantees for every archive that creation can leave,   *)
(* every target, any number of calls and any failures, with a truncation   *)
(* of the archive at any moment.                                           *)
(***************************************************************************)
EXTENDS ArchiveExtract, ArchiveItemsProofs, SequenceTheorems, TLAPS

-----------------------------------------------------------------------------
(* The inductive invariant.                                                *)

\* The call has begun to restore and has not broken off.
Working == {"index", "space", "mkpath", "next", "single", "extract", "write", "meta"}

\* An item has been taken up.
Busy == {"single", "extract", "write", "meta"}

\* The descriptors that are open at each point of the call.
Descriptors ==
    /\ pc = "open" => fds = {}
    /\ pc \in (Working \cup {"close"}) \ {"write"} => fds = {"archive"}
    /\ pc = "write" => fds = {"archive", "object"}
    /\ DescriptorsReleased

\* What has been decided on the way.
Control ==
    /\ pc \in Working \cup {"open"} => status = "ok"
    /\ pc = "index" => request.op = "index"
    /\ pc \in Working \ {"index"} => request.op # "index"
    /\ pc \in {"open", "index", "space", "mkpath"} => cur = 0
    /\ pc = "single" => request.op = "one"
    /\ pc \in Busy => cur # 0 /\ Selected(Current)

\* The data object that is being written.
Writing ==
    pc = "write" =>
        /\ Current.type = "dataObj"
        /\ NameOf(Current) \in DOMAIN tobjs
        /\ Written.len = Written.units
        /\ Written.units <= Readable

\* What the checks of the free space found.
SpaceFound ==
    space # 0 =>
        /\ pc \in Working \ {"index", "space"} /\ request.op = "all" => archive.size <= Usable
        /\ pc \in {"extract", "write", "meta"} /\ request.op = "one" => Current.size <= Usable

\* The call has come to the end of its loop without a break.
Finished == pc \in {"close", "done"} /\ status = "ok" /\ request.op # "index"

\* How many items the loop is through with.
Through == IF pc \in Busy THEN cur - 1 ELSE cur

\* Everything the loop is through with is there, unless a later item of the
\* same name has been taken up.
AllSoFar ==
    (request.op = "all" /\ (pc \in {"next"} \cup Busy \/ Finished)) =>
        \A k \in 1..Through :
            /\ (\A j \in (k + 1)..cur : NameOf(archive.items[j]) # NameOf(archive.items[k]))
                  => Extracted(k)
            /\ archive.items[k].type = "coll" => Extracted(k)
            /\ faults = 0 => NameOf(archive.items[k]) \in tmeta

\* A loop that looks for one name has passed over other names only, and ends
\* at the first item of that name.
OneSoFar ==
    request.op = "one" =>
        /\ pc \in {"next"} \cup Busy => \A k \in 1..Through : ~Selected(archive.items[k])
        /\ Finished =>
              \/ \A k \in 1..cur : ~Selected(archive.items[k])
              \/ /\ cur # 0 /\ Selected(Current) /\ Extracted(cur)
                 /\ \A k \in 1..(cur - 1) : ~Selected(archive.items[k])
                 /\ faults = 0 => NameOf(Current) \in tmeta

\* A loop that nothing disturbs ends at the end of the archive, or with the
\* one item that was asked for.
EndReached ==
    (Finished /\ faults = 0 /\ archive.whole) =>
        \/ cur = Len(archive.entries)
        \/ request.op = "one" /\ cur # 0 /\ Selected(Current)

\* As long as no server call fails the extraction path is there.
PathThere ==
    (faults = 0 /\ pc \in {"next"} \cup Busy) => Root \in tcolls

Inv ==
    /\ ExtractTypeOK /\ OwnContent
    /\ Descriptors /\ Control /\ Writing /\ SpaceFound
    /\ AllSoFar /\ OneSoFar /\ EndReached
    /\ PathThere /\ HolderIsThere /\ MetadataOnExtracted

-----------------------------------------------------------------------------
(* Collections, items and archives.                                        *)

\* Sets of collections that hold, with a collection, the one above it.
GoingUp(T) == \A c \in T \ {Root} : ParentOf[c] \in T

\* The definition of Ancestors has a solution: what is in every set that holds
\* c and goes up.
LEMMA AncestorsDefined ==
    Ancestors = [c \in Coll |-> IF c = Root THEN {Root} ELSE {c} \cup Ancestors[ParentOf[c]]]
<1> DEFINE Up(c) == {d \in Coll : \A T \in SUBSET Coll : c \in T /\ GoingUp(T) => d \in T}
           f == [c \in Coll |-> Up(c)]
           Rec(h) == h = [c \in Coll |-> IF c = Root THEN {Root} ELSE {c} \cup h[ParentOf[c]]]
<1>1. ASSUME NEW c \in Coll, c = Root PROVE Up(c) = {Root}
  <2>1. {Root} \in SUBSET Coll /\ GoingUp({Root})
    BY TreeAssumption DEF GoingUp
  <2>2. QED
    BY <1>1, <2>1
<1>2. ASSUME NEW c \in Coll, c # Root PROVE Up(c) = {c} \cup Up(ParentOf[c])
  <2>1. ParentOf[c] \in Coll
    BY <1>2, TreeAssumption
  <2>2. ASSUME NEW d \in Up(c), d # c PROVE d \in Up(ParentOf[c])
    <3> SUFFICES ASSUME NEW T \in SUBSET Coll, ParentOf[c] \in T, GoingUp(T) PROVE d \in T
      OBVIOUS
    <3>1. T \cup {c} \in SUBSET Coll /\ c \in T \cup {c} /\ GoingUp(T \cup {c})
      BY DEF GoingUp
    <3>2. d \in T \cup {c}
      BY <2>2, <3>1
    <3>3. QED
      BY <2>2, <3>2
  <2>3. ASSUME NEW d \in Up(ParentOf[c]) PROVE d \in Up(c)
    BY <1>2 DEF GoingUp
  <2>4. c \in Up(c)
    OBVIOUS
  <2>5. QED
    BY <2>2, <2>3, <2>4
<1>3. \A c \in Coll : f[c] = IF c = Root THEN {Root} ELSE {c} \cup f[ParentOf[c]]
  <2> SUFFICES ASSUME NEW c \in Coll
               PROVE  f[c] = IF c = Root THEN {Root} ELSE {c} \cup f[ParentOf[c]]
    OBVIOUS
  <2>1. c # Root => ParentOf[c] \in Coll
    BY TreeAssumption
  <2> HIDE DEF Up
  <2>2. QED
    BY <1>1, <1>2, <2>1
<1>4. f = [c \in Coll |-> f[c]]
  OBVIOUS
<1> HIDE DEF f
<1>5. Rec(f)
  BY <1>3, <1>4, Zenon
<1>6. Rec(CHOOSE h : Rec(h))
  BY <1>5, Zenon
<1>7. QED
  BY <1>6, Zenon DEF Ancestors

\* rsCollCreate with all collections above: they are collections of the tree,
\* c among them.
LEMMA AncestorsOf ==
    ASSUME NEW c \in Coll
    PROVE  c \in Ancestors[c] /\ Ancestors[c] \subseteq Coll
<1>1. ASSUME NEW d \in Coll
      PROVE  Ancestors[d] = IF d = Root THEN {Root} ELSE {d} \cup Ancestors[ParentOf[d]]
  BY AncestorsDefined, Zenon
<1>2. c \in Ancestors[c]
  BY <1>1
<1>3. Root \in Coll /\ Ancestors[Root] = {Root}
  <2>1. Root \in Coll
    BY TreeAssumption
  <2>2. QED
    BY <1>1, <2>1
<1> DEFINE S == {d \in Coll \ {Root} : ~(Ancestors[d] \subseteq Coll)}
<1>4. ASSUME S # {} PROVE FALSE
  <2>1. PICK d \in S : ParentOf[d] \notin S
    BY <1>4, TreeAssumption
  <2>2. ParentOf[d] \in Coll
    BY <2>1, TreeAssumption
  <2>3. Ancestors[ParentOf[d]] \subseteq Coll
    <3>1. CASE ParentOf[d] = Root
      BY <1>3, <3>1
    <3>2. CASE ParentOf[d] # Root
      BY <2>1, <2>2, <3>2
    <3>3. QED
      BY <3>1, <3>2
  <2>4. Ancestors[d] = {d} \cup Ancestors[ParentOf[d]]
    BY <1>1, <2>1
  <2>5. QED
    BY <2>1, <2>3, <2>4
<1>5. QED
  <2>1. CASE c = Root
    BY <1>3, <2>1
  <2>2. CASE c # Root
    BY <1>2, <1>4, <2>2
  <2>3. QED
    BY <2>1, <2>2

\* The archive that is being read.
LEMMA IndexFacts ==
    ASSUME ExtractTypeOK
    PROVE  /\ archive.items \in Seq(Item) /\ archive.entries \in Seq(Entry)
           /\ Len(archive.items) \in Nat /\ Len(archive.entries) \in Nat
           /\ Len(archive.entries) <= Len(archive.items)
           /\ cur \in 0..Len(archive.entries) /\ cur \in 0..Len(archive.items)
           /\ HoldersFirst(archive.items)
           /\ archive.size = Blocks(archive.items)
<1>1. archive \in ArchiveFile /\ WellFormed(archive) /\ cur \in 0..Len(archive.entries)
  BY DEF ExtractTypeOK
<1>2. archive.items \in Seq(Item) /\ archive.entries \in Seq(Entry)
  BY <1>1 DEF ArchiveFile
<1>3. Len(archive.entries) <= Len(archive.items)
  BY <1>1 DEF WellFormed
<1>4. Len(archive.items) \in Nat /\ Len(archive.entries) \in Nat
  BY <1>2
<1>5. cur \in 0..Len(archive.items)
  BY <1>1, <1>3, <1>4
<1>6. QED
  BY <1>1, <1>2, <1>3, <1>4, <1>5 DEF WellFormed

\* Entry k of the archive was made from item k of its index.
LEMMA EntryFacts ==
    ASSUME ExtractTypeOK, NEW k \in 1..Len(archive.entries)
    PROVE  /\ k \in 1..Len(archive.items)
           /\ archive.items[k] \in Item
           /\ NameOf(archive.items[k]) \in Name
           /\ archive.items[k].size \in Nat
           /\ archive.entries[k] \in Entry
           /\ archive.entries[k].item = archive.items[k]
           /\ archive.entries[k].got \in 0..archive.items[k].size
           /\ Holder(archive.items[k]) \in Coll /\ archive.items[k].coll \in Coll
           /\ \/ Holder(archive.items[k]) = Root
              \/ ListedIn(archive.items, k - 1, Holder(archive.items[k]))
<1>1. /\ archive.items \in Seq(Item) /\ archive.entries \in Seq(Entry)
      /\ k \in 1..Len(archive.items) /\ HoldersFirst(archive.items)
  BY IndexFacts
<1>2. archive.items[k] \in Item /\ archive.entries[k] \in Entry
  BY <1>1
<1>3. archive.items[k].size \in Nat /\ NameOf(archive.items[k]) \in Name /\ archive.items[k].coll \in Coll
  BY <1>2 DEF Item, NameOf, Name
<1>4. archive.entries[k].item = archive.items[k] /\ archive.entries[k].got <= archive.items[k].size
  BY DEF ExtractTypeOK, WellFormed
<1>5. archive.entries[k].got \in Nat
  BY <1>2 DEF Entry
<1>6. /\ archive.items[k].type = "coll" => archive.items[k].coll # Root
      /\ \/ Holder(archive.items[k]) = Root
         \/ ListedIn(archive.items, k - 1, Holder(archive.items[k]))
  BY <1>1 DEF HoldersFirst
<1>7. Holder(archive.items[k]) \in Coll
  BY <1>3, <1>6, TreeAssumption DEF Holder
<1>8. archive.entries[k].got \in 0..archive.items[k].size
  BY <1>3, <1>4, <1>5
<1>9. QED
  BY <1>1, <1>2, <1>3, <1>4, <1>6, <1>7, <1>8

\* The item that has been taken up, and what can be read of it.
LEMMA CurrentFacts ==
    ASSUME ExtractTypeOK, cur # 0
    PROVE  /\ cur \in 1..Len(archive.entries) /\ cur \in 1..Len(archive.items)
           /\ Current \in Item /\ NameOf(Current) \in Name /\ Current.size \in Nat
           /\ CurrentEntry.item = Current
           /\ Readable \in 0..Current.size
           /\ Holder(Current) \in Coll /\ Current.coll \in Coll
<1>1. cur \in 1..Len(archive.entries)
  BY IndexFacts
<1>2. CurrentEntry.got \in 0..Current.size /\ Current.size \in Nat
  BY <1>1, EntryFacts DEF Current, CurrentEntry
<1>3. CurrentEntry.item = Current
  BY <1>1, EntryFacts DEF Current, CurrentEntry
<1>4. Readable \in 0..Current.size
  BY <1>2, <1>3 DEF Readable
<1>5. QED
  BY <1>1, <1>2, <1>3, <1>4, EntryFacts DEF Current, CurrentEntry

-----------------------------------------------------------------------------
(* Before the loop.                                                        *)

\* Every call starts with an archive that creation can leave.
LEMMA ExtractStart == ExtractInit => Inv
<1> SUFFICES ASSUME ExtractInit PROVE Inv
  OBVIOUS
<1>1. /\ pc = "open" /\ status = "ok" /\ cur = 0 /\ fds = {} /\ tmeta = {} /\ shown = <<>>
      /\ faults = 0 /\ attempts = 1 /\ cut = FALSE
      /\ archive \in Archives /\ request \in Requests
  BY DEF ExtractInit
<1>2. /\ tcolls \subseteq Coll /\ DOMAIN tobjs \subseteq Name
      /\ tobjs \in [DOMAIN tobjs -> Content]
      /\ \A n \in DOMAIN tobjs : tobjs[n].of = n
  BY ExtractAssumption DEF ExtractInit
<1>3. archive \in ArchiveFile /\ WellFormed(archive)
  BY <1>1, ExtractAssumption
<1>4. cur \in 0..Len(archive.entries)
  BY <1>1, <1>3 DEF ArchiveFile
<1>5. ExtractTypeOK
  <2>1. faults \in Nat /\ attempts \in Nat /\ shown \in Seq(Item)
    BY <1>1
  <2>2. status \in Status /\ cut \in BOOLEAN
    BY <1>1 DEF Status
  <2>3. tmeta \subseteq Name /\ fds \subseteq {"archive", "object"}
    BY <1>1
  <2>4. QED
    BY <1>1, <1>2, <1>3, <1>4, <2>1, <2>2, <2>3 DEF ExtractTypeOK
<1>6. QED
  BY <1>1, <1>2, <1>5 DEF Inv, OwnContent, Descriptors, DescriptorsReleased, Control, Writing,
     SpaceFound, AllSoFar, OneSoFar, EndReached, PathThere, HolderIsThere, MetadataOnExtracted,
     Working, Busy, Finished

\* A step that leaves the archive, the request and the target alone, and that
\* ends outside the loop, needs to get its descriptors and its status right.
LEMMA OutsideStep ==
    ASSUME Inv,
           UNCHANGED <<callVars, targetVars>>,
           pc' \in {"open", "index", "space", "mkpath", "close", "done", "crashed"},
           cur' \in 0..Len(archive.entries), fds' \subseteq {"archive", "object"},
           status' \in Status, shown' \in Seq(Item),
           faults' \in Nat, attempts' \in Nat, cut' \in BOOLEAN,
           Descriptors', Control', SpaceFound', ~Finished'
    PROVE  Inv'
<1>1. ExtractTypeOK'
  BY DEF Inv, ExtractTypeOK, callVars, targetVars
<1>2. OwnContent'
  BY DEF Inv, OwnContent, targetVars
<1>3. Writing' /\ PathThere' /\ HolderIsThere' /\ MetadataOnExtracted'
  BY DEF Writing, PathThere, HolderIsThere, MetadataOnExtracted, Busy
<1>4. AllSoFar' /\ OneSoFar' /\ EndReached'
  BY DEF AllSoFar, OneSoFar, EndReached, Busy
<1>5. QED
  BY <1>1, <1>2, <1>3, <1>4 DEF Inv

\* A step fails no server call, or one.
LEMMA CountersKept ==
    ASSUME ExtractTypeOK, UNCHANGED boundVars \/ Fault, UNCHANGED cut
    PROVE  /\ faults' \in Nat /\ attempts' \in Nat /\ cut' \in BOOLEAN
           /\ faults' = 0 => faults = 0 /\ UNCHANGED boundVars
<1>1. faults \in Nat /\ attempts \in Nat
  BY DEF ExtractTypeOK
<1>2. faults' \in Nat /\ attempts' \in Nat /\ (faults' = 0 => faults = 0 /\ UNCHANGED boundVars)
  BY <1>1 DEF Fault, boundVars
<1>3. cut' \in BOOLEAN
  BY Zenon DEF ExtractTypeOK
<1>4. QED
  BY <1>2, <1>3

\* The steps before the loop.
LEMMA EarlyStep ==
    ASSUME Inv, UNCHANGED cut,
           \/ InvalidInput \/ Open \/ OpenFails \/ OpenRejects
           \/ Index \/ EnoughSpace \/ NotEnoughSpace
    PROVE  Inv'
<1>1. ExtractTypeOK /\ Descriptors /\ Control /\ SpaceFound
  BY DEF Inv
<1>2. /\ cur \in 0..Len(archive.entries) /\ 0 \in 0..Len(archive.entries)
      /\ archive.items \in Seq(Item) /\ archive.size \in Nat
  <2>1. archive.size \in Nat
    BY <1>1 DEF ExtractTypeOK, ArchiveFile
  <2>2. QED
    BY <1>1, <2>1, IndexFacts
<1>3. /\ fds \subseteq {"archive", "object"} /\ status \in Status /\ shown \in Seq(Item)
      /\ faults \in Nat /\ attempts \in Nat /\ cut \in BOOLEAN
  BY <1>1 DEF ExtractTypeOK
<1>4. faults' \in Nat /\ attempts' \in Nat /\ cut' \in BOOLEAN
  <2>1. UNCHANGED boundVars \/ Fault
    BY DEF InvalidInput, Open, OpenFails, OpenRejects, Index, EnoughSpace, NotEnoughSpace
  <2>2. QED
    BY <1>1, <2>1, CountersKept
<1>5. UNCHANGED <<callVars, targetVars>>
  BY DEF InvalidInput, Open, OpenFails, OpenRejects, Index, EnoughSpace, NotEnoughSpace
<1>6. CASE InvalidInput
  <2>1. /\ pc = "open" /\ pc' = "done" /\ status' = "SYS_INVALID_INPUT_PARAM"
        /\ UNCHANGED <<cur, fds, shown>>
    BY <1>6 DEF InvalidInput, Return
  <2>2. fds' = {}
    BY <1>1, <2>1 DEF Descriptors
  <2>3. Descriptors' /\ Control' /\ SpaceFound' /\ ~Finished'
    BY <2>1, <2>2 DEF Descriptors, DescriptorsReleased, Control, SpaceFound, Finished, Working, Busy
  <2>4. QED
    BY <1>2, <1>3, <1>4, <1>5, <2>1, <2>3, OutsideStep DEF Status
<1>7. CASE Open
  <2>1. /\ pc = "open" /\ pc' = (IF request.op = "index" THEN "index" ELSE "space")
        /\ fds' = {"archive"} /\ cur' = 0
        /\ UNCHANGED <<status, shown, request>>
    BY <1>7 DEF Open, callVars
  <2>2. status' = "ok"
    BY <1>1, <2>1 DEF Control
  <2>3. Descriptors' /\ Control' /\ SpaceFound' /\ ~Finished'
    BY <2>1, <2>2 DEF Descriptors, DescriptorsReleased, Control, SpaceFound, Finished, Working, Busy
  <2>4. QED
    BY <1>2, <1>3, <1>4, <1>5, <2>1, <2>3, OutsideStep DEF Status
<1>8. CASE OpenFails
  <2>1. /\ pc = "open" /\ pc' = "done" /\ status' = "SYS_TAR_OPEN_ERR"
        /\ UNCHANGED <<cur, fds, shown>>
    BY <1>8 DEF OpenFails, Return
  <2>2. fds' = {}
    BY <1>1, <2>1 DEF Descriptors
  <2>3. Descriptors' /\ Control' /\ SpaceFound' /\ ~Finished'
    BY <2>1, <2>2 DEF Descriptors, DescriptorsReleased, Control, SpaceFound, Finished, Working, Busy
  <2>4. QED
    BY <1>2, <1>3, <1>4, <1>5, <2>1, <2>3, OutsideStep DEF Status
<1>9. CASE OpenRejects
  <2>1. /\ \/ pc' = "done" /\ status' = "SYS_TAR_OPEN_ERR" /\ fds' \in {{}, {"archive"}}
           \/ pc' = "crashed" /\ status' = status /\ fds' = {"archive"}
        /\ UNCHANGED <<cur, shown>>
    BY <1>9 DEF OpenRejects, Return
  <2>2. Descriptors' /\ Control' /\ SpaceFound' /\ ~Finished'
    BY <2>1 DEF Descriptors, DescriptorsReleased, Control, SpaceFound, Finished, Working, Busy
  <2>3. status' \in Status /\ fds' \subseteq {"archive", "object"} /\ pc' \in {"done", "crashed"}
    BY <1>3, <2>1 DEF Status
  <2>4. QED
    BY <1>2, <1>3, <1>4, <1>5, <2>1, <2>2, <2>3, OutsideStep
<1>10. CASE Index
  <2>1. /\ pc = "index" /\ pc' = "done" /\ status' = "ok" /\ fds' = {} /\ shown' = archive.items
        /\ UNCHANGED <<cur, request>>
    BY <1>10 DEF Index, Return, callVars
  <2>2. request'.op = "index"
    BY <1>1, <2>1 DEF Control
  <2>3. Descriptors' /\ Control' /\ SpaceFound' /\ ~Finished'
    BY <2>1, <2>2 DEF Descriptors, DescriptorsReleased, Control, SpaceFound, Finished, Working, Busy
  <2>4. QED
    BY <1>2, <1>3, <1>4, <1>5, <2>1, <2>3, OutsideStep DEF Status
<1>11. CASE EnoughSpace
  <2>1. /\ pc = "space" /\ pc' = "mkpath"
        /\ UNCHANGED <<status, cur, fds, shown, request, archive>>
        /\ (space # 0 /\ request.op = "all") => ~(archive.size > Usable)
    BY <1>11 DEF EnoughSpace, callVars
  <2>2. status = "ok" /\ fds = {"archive"} /\ request.op # "index" /\ cur = 0
    BY <1>1, <2>1 DEF Control, Descriptors, Working
  <2>3. (space # 0 /\ request.op = "all") => archive.size <= Usable
    <3>1. space \in Nat
      BY <1>1, ExtractAssumption DEF ExtractTypeOK, Request, space
    <3>2. Usable \in Int
      BY <3>1 DEF Usable
    <3>3. QED
      BY <1>2, <2>1, <3>2
  <2>4. Descriptors' /\ Control' /\ ~Finished'
    BY <2>1, <2>2 DEF Descriptors, DescriptorsReleased, Control, Finished, Working, Busy
  <2>5. SpaceFound'
    BY <2>1, <2>3 DEF SpaceFound, space, Usable
  <2>6. QED
    BY <1>2, <1>3, <1>4, <1>5, <2>1, <2>4, <2>5, OutsideStep
<1>12. CASE NotEnoughSpace
  <2>1. /\ pc' = "done" /\ status' \in {"SYS_RESC_QUOTA_EXCEEDED", "query error"} /\ fds' = {}
        /\ UNCHANGED <<cur, shown>>
    BY <1>12 DEF NotEnoughSpace, Return
  <2>2. Descriptors' /\ Control' /\ SpaceFound' /\ ~Finished'
    BY <2>1 DEF Descriptors, DescriptorsReleased, Control, SpaceFound, Finished, Working, Busy
  <2>3. QED
    BY <1>2, <1>3, <1>4, <1>5, <2>1, <2>2, OutsideStep DEF Status
<1>13. QED
  BY <1>6, <1>7, <1>8, <1>9, <1>10, <1>11, <1>12

-----------------------------------------------------------------------------
(* The loop.                                                               *)

\* No other data object than the one taken up is touched.
OthersKept ==
    \A m \in DOMAIN tobjs :
        m # NameOf(Current) => m \in DOMAIN tobjs' /\ tobjs'[m] = tobjs[m]

\* What is there stays there.
LEMMA ExtractedStays ==
    ASSUME UNCHANGED archive, tcolls \subseteq tcolls', NEW k, Extracted(k),
           archive.items[k].type # "coll" =>
              \/ UNCHANGED tobjs
              \/ OthersKept /\ NameOf(archive.items[k]) # NameOf(Current)
    PROVE  Extracted(k)'
BY DEF Extracted, OthersKept

\* Restoring one item leaves those before it as they are.
LEMMA BusyStep ==
    ASSUME Inv, pc \in Busy, pc' \in Busy, UNCHANGED <<callVars, cur>>,
           tcolls \subseteq tcolls', OthersKept, UNCHANGED tmeta,
           faults' = 0 => faults = 0
    PROVE  AllSoFar' /\ OneSoFar' /\ EndReached'
<1>1. AllSoFar /\ OneSoFar /\ ExtractTypeOK /\ cur # 0
  BY DEF Inv, Control
<1>2. archive' = archive /\ request' = request /\ cur' = cur /\ Through = cur - 1 /\ Through' = cur - 1
  BY DEF callVars, Through
<1>3. cur \in Nat /\ ~Finished' /\ ~Finished
  BY <1>1, IndexFacts DEF Finished, Busy
<1>4. EndReached'
  BY <1>3 DEF EndReached
<1>5. OneSoFar'
  BY <1>1, <1>2, <1>3 DEF OneSoFar, Selected
<1>6. ASSUME request.op = "all", NEW k \in 1..(cur - 1)
      PROVE  /\ (\A j \in (k + 1)..cur : NameOf(archive.items[j]) # NameOf(archive.items[k]))
                    => Extracted(k)'
             /\ archive.items[k].type = "coll" => Extracted(k)'
             /\ faults' = 0 => NameOf(archive.items[k]) \in tmeta'
  <2>1. /\ (\A j \in (k + 1)..cur : NameOf(archive.items[j]) # NameOf(archive.items[k]))
              => Extracted(k)
        /\ archive.items[k].type = "coll" => Extracted(k)
        /\ faults = 0 => NameOf(archive.items[k]) \in tmeta
    BY <1>1, <1>2, <1>6 DEF AllSoFar
  <2>2. cur \in (k + 1)..cur
    BY <1>3
  <2>3. (\A j \in (k + 1)..cur : NameOf(archive.items[j]) # NameOf(archive.items[k]))
              => NameOf(Current) # NameOf(archive.items[k])
    BY <2>2 DEF Current
  <2>4. QED
    BY <1>2, <2>1, <2>3, ExtractedStays
<1>7. AllSoFar'
  <2> SUFFICES ASSUME request.op = "all", NEW k \in 1..(cur - 1)
      PROVE  /\ (\A j \in (k + 1)..cur : NameOf(archive.items[j]) # NameOf(archive.items[k]))
                    => Extracted(k)'
             /\ archive.items[k].type = "coll" => Extracted(k)'
             /\ faults' = 0 => NameOf(archive.items[k]) \in tmeta'
    BY <1>2 DEF AllSoFar
  <2> QED
    BY <1>6
<1>8. QED
  BY <1>4, <1>5, <1>7

\* A break keeps everything but success.
LEMMA BreakStep ==
    ASSUME Inv, UNCHANGED cut, UNCHANGED boundVars \/ Fault,
           UNCHANGED <<callVars, cur, targetVars, shown>>,
           pc' = "close", status' \in Status \ {"ok"}, fds' = {"archive"}
    PROVE  Inv'
<1>1. ExtractTypeOK
  BY DEF Inv
<1>2. faults' \in Nat /\ attempts' \in Nat /\ cut' \in BOOLEAN
  BY <1>1, CountersKept
<1>3. cur' \in 0..Len(archive.entries) /\ shown' \in Seq(Item)
  BY <1>1 DEF ExtractTypeOK
<1>4. Descriptors' /\ Control' /\ SpaceFound' /\ ~Finished'
  BY DEF Descriptors, DescriptorsReleased, Control, SpaceFound, Finished, Working, Busy
<1>5. QED
  BY <1>2, <1>3, <1>4, OutsideStep

\* The collection at the extraction path.
LEMMA MakePathStep == ASSUME Inv, UNCHANGED cut, MakePath PROVE Inv'
<1>1. /\ pc = "mkpath" /\ pc' = "next"
      /\ UNCHANGED <<status, archive, request, cur, fds, tobjs, tmeta, shown>>
      /\ UNCHANGED boundVars \/ Fault
  BY DEF MakePath, callVars
<1>2. /\ ExtractTypeOK /\ status = "ok" /\ request.op # "index" /\ cur = 0 /\ fds = {"archive"}
      /\ SpaceFound
  BY <1>1 DEF Inv, Control, Descriptors, Working
<1>3. /\ faults' \in Nat /\ attempts' \in Nat /\ cut' \in BOOLEAN
      /\ faults' = 0 => UNCHANGED boundVars
  BY <1>1, <1>2, CountersKept
<1>4. tcolls' \subseteq Coll /\ (faults' = 0 => Root \in tcolls')
  <2>1. faults \in Nat
    BY <1>2 DEF ExtractTypeOK
  <2>2. tcolls' = tcolls \cup {Root} \/ (Fault /\ tcolls' = tcolls)
    BY DEF MakePath
  <2>3. QED
    BY <1>2, <2>1, <2>2, TreeAssumption DEF ExtractTypeOK, Fault
<1>5. ExtractTypeOK'
  BY <1>1, <1>2, <1>3, <1>4 DEF ExtractTypeOK
<1>6. OwnContent'
  BY <1>1 DEF Inv, OwnContent
<1>7. Descriptors' /\ Control' /\ Writing' /\ HolderIsThere' /\ MetadataOnExtracted'
  BY <1>1, <1>2 DEF Descriptors, DescriptorsReleased, Control, Writing, HolderIsThere,
     MetadataOnExtracted, Working, Busy
<1>8. SpaceFound'
  BY <1>1, <1>2 DEF SpaceFound, space, Usable, Working
<1>9. AllSoFar' /\ OneSoFar' /\ EndReached'
  BY <1>1, <1>2 DEF AllSoFar, OneSoFar, EndReached, Through, Busy, Finished
<1>10. PathThere'
  BY <1>4 DEF PathThere
<1>11. QED
  BY <1>5, <1>6, <1>7, <1>8, <1>9, <1>10 DEF Inv

\* nextItem passes over an item or takes it up.  When all items are asked for,
\* the collection of the new one has been restored before it.
LEMMA NextItemStep == ASSUME Inv, UNCHANGED cut, NextItem PROVE Inv'
<1> DEFINE item == archive.items[cur + 1]
<1>1. /\ pc = "next" /\ cur < Len(archive.entries) /\ cur' = cur + 1
      /\ pc' = IF ~Selected(item) THEN "next"
               ELSE IF request.op = "all" THEN "extract" ELSE "single"
      /\ UNCHANGED <<status, archive, request, fds, tcolls, tobjs, tmeta, shown, faults, attempts, cut>>
  BY DEF NextItem, callVars, boundVars, targetVars
<1>2. /\ ExtractTypeOK /\ status = "ok" /\ request.op # "index" /\ fds = {"archive"}
      /\ SpaceFound /\ AllSoFar /\ OneSoFar /\ PathThere
  BY <1>1 DEF Inv, Control, Descriptors, Working
<1>3. cur \in Nat /\ cur' \in 0..Len(archive.entries) /\ cur' # 0 /\ cur' - 1 = cur
      /\ cur' \in 1..Len(archive.entries)
  BY <1>1, <1>2, IndexFacts
<1>4. request.op \in {"all", "one"}
  BY <1>2, ExtractAssumption DEF ExtractTypeOK, Request
<1>5. Current' = item /\ (Selected(Current)' <=> Selected(item)) /\ Through = cur
  BY <1>1 DEF Current, Selected, Through, Busy
<1>6. ExtractTypeOK'
  BY <1>1, <1>2, <1>3 DEF ExtractTypeOK
<1>7. OwnContent'
  BY <1>1 DEF Inv, OwnContent
<1>8. Descriptors' /\ Writing' /\ MetadataOnExtracted' /\ EndReached' /\ ~Finished'
  BY <1>1, <1>2 DEF Descriptors, DescriptorsReleased, Writing, MetadataOnExtracted, EndReached,
     Finished, Working
<1>9. Control'
  BY <1>1, <1>2, <1>3, <1>4, <1>5 DEF Control, Working, Busy
<1>10. SpaceFound'
  BY <1>1, <1>2 DEF SpaceFound, space, Usable, Working, Selected
<1>11. PathThere'
  BY <1>1, <1>2 DEF PathThere
<1>12. Through' = cur \/ (Through' = cur + 1 /\ request.op = "one" /\ ~Selected(item) /\ pc' = "next")
  BY <1>1, <1>3, <1>4 DEF Through, Busy, Selected
<1>13. ASSUME request.op = "all" PROVE AllSoFar'
  <2>1. Through' = cur
    BY <1>12, <1>13
  <2>2. \A k \in 1..cur :
            /\ (\A j \in (k + 1)..cur : NameOf(archive.items[j]) # NameOf(archive.items[k]))
                  => Extracted(k)
            /\ archive.items[k].type = "coll" => Extracted(k)
            /\ faults = 0 => NameOf(archive.items[k]) \in tmeta
    BY <1>1, <1>2, <1>5, <1>13 DEF AllSoFar
  <2>3. \A k \in 1..cur : \A j \in (k + 1)..cur : j \in (k + 1)..cur'
    BY <1>1, <1>3
  <2>4. \A k \in 1..cur : Extracted(k)' = Extracted(k)
    BY <1>1 DEF Extracted
  <2>5. QED
    BY <1>1, <2>1, <2>2, <2>3, <2>4 DEF AllSoFar
<1>14. OneSoFar'
  <2>1. request.op = "one" => \A k \in 1..cur : ~Selected(archive.items[k])
    BY <1>1, <1>2, <1>5 DEF OneSoFar
  <2>2. \A k \in 1..(cur + 1) : k \in 1..cur \/ k = cur + 1
    BY <1>3
  <2>3. request.op = "one" => \A k \in 1..Through' : ~Selected(archive.items[k])
    BY <1>12, <2>1, <2>2
  <2>4. QED
    BY <1>1, <1>8, <2>3 DEF OneSoFar, Selected
<1>15. HolderIsThere'
  <2> SUFFICES ASSUME pc' = "extract", faults = 0 PROVE Holder(item) \in tcolls
    BY <1>1, <1>5 DEF HolderIsThere
  <2>1. request.op = "all"
    BY <1>1
  <2>2. Holder(item) = Root \/ ListedIn(archive.items, cur, Holder(item))
    <3>1. cur + 1 \in 1..Len(archive.entries) /\ (cur + 1) - 1 = cur
      BY <1>1, <1>3
    <3>2. QED
      BY <1>2, <3>1, EntryFacts
  <2>3. ASSUME ListedIn(archive.items, cur, Holder(item)) PROVE Holder(item) \in tcolls
    <3>1. PICK j \in 1..cur : archive.items[j].type = "coll" /\ archive.items[j].coll = Holder(item)
      BY <2>3 DEF ListedIn
    <3>2. Extracted(j)
      BY <1>1, <1>2, <1>5, <2>1, <3>1 DEF AllSoFar
    <3>3. QED
      BY <3>1, <3>2 DEF Extracted
  <2>4. QED
    BY <1>1, <1>2, <2>2, <2>3 DEF PathThere
<1>16. AllSoFar'
  BY <1>1, <1>13 DEF AllSoFar
<1>17. QED
  BY <1>6, <1>7, <1>8, <1>9, <1>10, <1>11, <1>14, <1>15, <1>16 DEF Inv

\* No further header.
LEMMA NoNextItemStep == ASSUME Inv, UNCHANGED cut, NoNextItem PROVE Inv'
<1>1. /\ pc = "next" /\ pc' = "close" /\ UNCHANGED <<status, archive, request, cur, fds, tcolls, tobjs, tmeta, shown>>
      /\ (cur = Len(archive.entries) /\ UNCHANGED boundVars) \/ Fault
  BY DEF NoNextItem, callVars, targetVars
<1>2. /\ ExtractTypeOK /\ status = "ok" /\ request.op # "index" /\ fds = {"archive"}
      /\ AllSoFar /\ OneSoFar
  BY <1>1 DEF Inv, Control, Descriptors, Working
<1>3. /\ faults' \in Nat /\ attempts' \in Nat /\ cut' \in BOOLEAN
      /\ faults' = 0 => faults = 0
  BY <1>1, <1>2, CountersKept
<1>4. ExtractTypeOK'
  BY <1>1, <1>2, <1>3 DEF ExtractTypeOK
<1>5. OwnContent'
  BY <1>1 DEF Inv, OwnContent
<1>6. Descriptors' /\ Control' /\ Writing' /\ SpaceFound' /\ PathThere' /\ HolderIsThere' /\ MetadataOnExtracted'
  BY <1>1, <1>2 DEF Descriptors, DescriptorsReleased, Control, Writing, SpaceFound, PathThere,
     HolderIsThere, MetadataOnExtracted, Working, Busy
<1>7. Through = cur /\ Through' = cur /\ \A k : Extracted(k)' = Extracted(k)
  BY <1>1 DEF Through, Busy, Extracted
<1>8. AllSoFar'
  BY <1>1, <1>2, <1>3, <1>7 DEF AllSoFar
<1>9. OneSoFar'
  BY <1>1, <1>2, <1>7 DEF OneSoFar, Selected, Busy
<1>10. EndReached'
  <2>1. faults' = 0 => cur = Len(archive.entries)
    <3>1. faults \in Nat
      BY <1>2 DEF ExtractTypeOK
    <3>2. QED
      BY <1>1, <3>1 DEF Fault
  <2>2. QED
    BY <1>1, <2>1 DEF EndReached
<1>11. QED
  BY <1>4, <1>5, <1>6, <1>8, <1>9, <1>10 DEF Inv

\* Restoring an item keeps the invariant if it keeps these parts of it.
LEMMA RestoringStep ==
    ASSUME Inv, UNCHANGED cut, UNCHANGED boundVars \/ Fault,
           pc \in Busy, pc' \in Busy \ {"single"},
           UNCHANGED <<status, callVars, cur, tmeta, shown>>,
           tcolls \subseteq tcolls', tcolls' \subseteq Coll, OthersKept,
           tobjs' = [m \in DOMAIN tobjs' |-> tobjs'[m]],
           DOMAIN tobjs' \subseteq DOMAIN tobjs \cup {NameOf(Current)},
           NameOf(Current) \in DOMAIN tobjs' =>
              tobjs'[NameOf(Current)] \in Content /\ tobjs'[NameOf(Current)].of = NameOf(Current),
           fds' = IF pc' = "write" THEN {"archive", "object"} ELSE {"archive"},
           pc = "single" => space = 0 \/ Current.size <= Usable,
           Writing', HolderIsThere', MetadataOnExtracted'
    PROVE  Inv'
<1>1. ExtractTypeOK /\ OwnContent /\ Descriptors /\ Control /\ SpaceFound /\ PathThere
  BY DEF Inv
<1>2. archive' = archive /\ request' = request /\ cur' = cur
  BY DEF callVars
<1>3. /\ faults' \in Nat /\ attempts' \in Nat /\ cut' \in BOOLEAN
      /\ faults' = 0 => faults = 0
  BY <1>1, CountersKept
<1>4. /\ status = "ok" /\ request.op # "index" /\ cur # 0 /\ Selected(Current)
      /\ NameOf(Current) \in Name
  BY <1>1, CurrentFacts DEF Control, Working, Busy
<1>5. /\ DOMAIN tobjs' \subseteq Name
      /\ \A n \in DOMAIN tobjs' : tobjs'[n] \in Content /\ tobjs'[n].of = n
  BY <1>1, <1>4 DEF ExtractTypeOK, OwnContent, OthersKept
<1>6. ExtractTypeOK'
  <2>1. fds' \subseteq {"archive", "object"}
    OBVIOUS
  <2>2. pc' \in Working
    BY DEF Busy, Working
  <2>3. tobjs' \in [DOMAIN tobjs' -> Content]
    BY <1>5
  <2>4. QED
    BY <1>1, <1>2, <1>3, <1>5, <2>1, <2>2, <2>3 DEF ExtractTypeOK, Working
<1>7. OwnContent'
  BY <1>5 DEF OwnContent
<1>8. Descriptors'
  BY DEF Descriptors, DescriptorsReleased, Busy
<1>9. Control'
  BY <1>2, <1>4 DEF Control, Working, Busy, Selected, Current
<1>10. SpaceFound'
  BY <1>1, <1>2 DEF SpaceFound, space, Usable, Current, Working, Busy
<1>11. AllSoFar' /\ OneSoFar' /\ EndReached'
  BY <1>3, BusyStep
<1>12. PathThere'
  BY <1>1, <1>3 DEF PathThere
<1>13. QED
  BY <1>6, <1>7, <1>8, <1>9, <1>10, <1>11, <1>12 DEF Inv

\* The collection of a single item is made, or the item does not fit.
LEMMA SingleStep == ASSUME Inv, UNCHANGED cut, MakeHolder \/ SingleTooLarge PROVE Inv'
<1>1. /\ pc = "single" /\ UNCHANGED <<archive, request, cur, tobjs, tmeta, shown, fds>>
  BY DEF MakeHolder, SingleTooLarge, callVars, targetVars
<1>2. ExtractTypeOK /\ cur # 0 /\ fds = {"archive"} /\ PathThere
  BY <1>1 DEF Inv, Control, Descriptors, Working, Busy
<1>3. Holder(Current) \in Coll /\ Current.size \in Nat
  BY <1>2, CurrentFacts
<1>4. CASE SingleTooLarge
  <2>1. pc' = "close" /\ status' = "SYS_RESC_QUOTA_EXCEEDED" /\ UNCHANGED <<boundVars, callVars, cur, targetVars, shown>>
    BY <1>4 DEF SingleTooLarge, Break
  <2>2. status' \in Status \ {"ok"}
    BY <2>1 DEF Status
  <2>3. QED
    BY <1>1, <1>2, <2>1, <2>2, BreakStep
<1>5. CASE MakeHolder
  <2>1. /\ pc' = "extract" /\ ~(space # 0 /\ Current.size > Usable)
        /\ UNCHANGED <<status, callVars>>
        /\ \/ /\ tcolls' = IF Holder(Current) = Root THEN tcolls
                              ELSE tcolls \cup Ancestors[Holder(Current)]
              /\ UNCHANGED boundVars
           \/ Fault /\ UNCHANGED tcolls
    BY <1>5 DEF MakeHolder
  <2>2. tcolls \subseteq tcolls' /\ tcolls' \subseteq Coll
    BY <1>2, <1>3, <2>1, AncestorsOf DEF ExtractTypeOK
  <2>3. space = 0 \/ Current.size <= Usable
    <3>1. space \in Nat
      BY <1>2, ExtractAssumption DEF ExtractTypeOK, Request, space
    <3>2. Usable \in Int
      BY <3>1 DEF Usable
    <3>3. QED
      BY <1>3, <2>1, <3>2
  <2>4. HolderIsThere'
    <3> SUFFICES ASSUME faults' = 0 PROVE Holder(Current) \in tcolls'
      BY <1>1 DEF HolderIsThere, Current
    <3>1. UNCHANGED boundVars /\ faults = 0
      BY <1>2, <2>1, CountersKept
    <3>2. tcolls' = IF Holder(Current) = Root THEN tcolls ELSE tcolls \cup Ancestors[Holder(Current)]
      <4>1. faults \in Nat /\ faults' = faults
        BY <1>2, <3>1 DEF ExtractTypeOK, boundVars
      <4>2. ~Fault
        BY <4>1 DEF Fault
      <4>3. QED
        BY <2>1, <4>2
    <3>3. Root \in tcolls
      BY <1>1, <1>2, <3>1 DEF PathThere, Busy
    <3>4. QED
      BY <1>3, <3>2, <3>3, AncestorsOf
  <2>5. Writing' /\ MetadataOnExtracted' /\ OthersKept
    BY <1>1, <2>1 DEF Writing, MetadataOnExtracted, OthersKept
  <2>6. /\ DOMAIN tobjs' \subseteq DOMAIN tobjs \cup {NameOf(Current)}
        /\ tobjs' = [m \in DOMAIN tobjs' |-> tobjs'[m]]
        /\ NameOf(Current) \in DOMAIN tobjs' =>
              tobjs'[NameOf(Current)] \in Content /\ tobjs'[NameOf(Current)].of = NameOf(Current)
    BY <1>1 DEF Inv, ExtractTypeOK, OwnContent
  <2>7. pc \in Busy /\ pc' \in Busy \ {"single"}
    BY <1>1, <2>1 DEF Busy
  <2>8. UNCHANGED boundVars \/ Fault
    BY <2>1
  <2>9. fds' = IF pc' = "write" THEN {"archive", "object"} ELSE {"archive"}
    BY <1>1, <1>2, <2>1
  <2>10. QED
    BY <1>1, <2>1, <2>2, <2>3, <2>4, <2>5, <2>6, <2>7, <2>8, <2>9, RestoringStep
<1>6. QED
  BY <1>4, <1>5

\* extractItem makes a collection, or finds that it cannot.
LEMMA ExtractCollStep == ASSUME Inv, UNCHANGED cut, ExtractColl PROVE Inv'
<1>1. /\ pc = "extract" /\ CurrentEntry.item.type = "coll"
      /\ UNCHANGED <<archive, request, callVars, cur, fds, tobjs, tmeta, shown>>
  BY DEF ExtractColl, callVars
<1>2. ExtractTypeOK /\ cur # 0 /\ fds = {"archive"} /\ status = "ok"
  BY <1>1 DEF Inv, Control, Descriptors, Working, Busy
<1>3. Current.coll \in Coll /\ Current.type = "coll"
  BY <1>1, <1>2, CurrentFacts
<1>4. CASE pc' = "meta"
  <2>1. tcolls' = tcolls \cup {Current.coll} /\ status' = "ok" /\ UNCHANGED boundVars
    BY <1>4 DEF ExtractColl, Break
  <2>2. tcolls \subseteq tcolls' /\ tcolls' \subseteq Coll
    BY <1>2, <1>3, <2>1 DEF ExtractTypeOK
  <2>3. MetadataOnExtracted'
    BY <1>1, <1>3, <2>1 DEF MetadataOnExtracted, Extracted, Current
  <2>4. Writing' /\ HolderIsThere' /\ OthersKept
    BY <1>1, <1>4 DEF Writing, HolderIsThere, OthersKept
  <2>5. /\ DOMAIN tobjs' \subseteq DOMAIN tobjs \cup {NameOf(Current)}
        /\ tobjs' = [m \in DOMAIN tobjs' |-> tobjs'[m]]
        /\ NameOf(Current) \in DOMAIN tobjs' =>
              tobjs'[NameOf(Current)] \in Content /\ tobjs'[NameOf(Current)].of = NameOf(Current)
    BY <1>1 DEF Inv, ExtractTypeOK, OwnContent
  <2>6. pc \in Busy /\ pc' \in Busy \ {"single"} /\ pc # "single"
    BY <1>1, <1>4 DEF Busy
  <2>7. fds' = IF pc' = "write" THEN {"archive", "object"} ELSE {"archive"}
    BY <1>1, <1>2, <1>4
  <2>8. UNCHANGED status
    BY <1>2, <2>1
  <2>9. QED
    BY <1>1, <2>1, <2>2, <2>3, <2>4, <2>5, <2>6, <2>7, <2>8, RestoringStep
<1>5. CASE pc' # "meta"
  <2>1. pc' = "close" /\ status' = "collection error" /\ UNCHANGED tcolls
        /\ (UNCHANGED boundVars \/ Fault)
    BY <1>5 DEF ExtractColl, Break
  <2>2. status' \in Status \ {"ok"}
    BY <2>1 DEF Status
  <2>3. QED
    BY <1>1, <1>2, <2>1, <2>2, BreakStep DEF targetVars
<1>6. QED
  BY <1>4, <1>5

\* What Put does to the target.
LEMMA PutFacts ==
    ASSUME NEW content, Put(NameOf(Current), content)
    PROVE  /\ OthersKept
           /\ DOMAIN tobjs' = DOMAIN tobjs \cup {NameOf(Current)}
           /\ tobjs' = [m \in DOMAIN tobjs' |-> tobjs'[m]]
           /\ tobjs'[NameOf(Current)] = content
BY DEF Put, OthersKept

\* extractItem creates or empties a data object, or fails to.
LEMMA CreateObjStep == ASSUME Inv, UNCHANGED cut, CreateObj \/ CreateObjFails PROVE Inv'
<1>1. /\ pc = "extract" /\ CurrentEntry.item.type = "dataObj"
      /\ UNCHANGED <<archive, request, callVars, cur, tcolls, tmeta, shown>>
  BY DEF CreateObj, CreateObjFails, callVars, targetVars
<1>2. ExtractTypeOK /\ cur # 0 /\ fds = {"archive"} /\ status = "ok"
  BY <1>1 DEF Inv, Control, Descriptors, Working, Busy
<1>3. /\ CurrentEntry.item = Current /\ NameOf(Current) \in Name
      /\ Readable \in Nat
  BY <1>1, <1>2, CurrentFacts
<1>4. CASE CreateObjFails
  <2>1. pc' = "close" /\ status' = "create error" /\ UNCHANGED <<tobjs, fds>>
        /\ (UNCHANGED boundVars \/ Fault)
    BY <1>4 DEF CreateObjFails, Break, targetVars
  <2>2. status' \in Status \ {"ok"}
    BY <2>1 DEF Status
  <2>3. QED
    BY <1>1, <1>2, <2>1, <2>2, BreakStep DEF targetVars
<1>5. CASE CreateObj
  <2> DEFINE new == [of |-> NameOf(Current), units |-> 0, len |-> 0]
  <2>1. /\ Put(NameOf(Current), new) /\ fds' = fds \cup {"object"} /\ pc' = "write"
        /\ UNCHANGED <<status, boundVars>>
    BY <1>3, <1>5 DEF CreateObj
  <2>2. /\ OthersKept
        /\ DOMAIN tobjs' = DOMAIN tobjs \cup {NameOf(Current)}
        /\ tobjs' = [m \in DOMAIN tobjs' |-> tobjs'[m]]
        /\ tobjs'[NameOf(Current)] = new
    BY <2>1, PutFacts
  <2>3. new \in Content /\ new.of = NameOf(Current)
    BY <1>3 DEF Content
  <2>4. Writing'
    <3>1. Current' = Current /\ Readable' = Readable
      BY <1>1 DEF Current, Readable, CurrentEntry
    <3>2. Written' = new /\ new.units = 0 /\ new.len = 0
      BY <2>2, <3>1 DEF Written, NameOf
    <3>3. NameOf(Current)' \in DOMAIN tobjs'
      BY <2>2, <3>1 DEF NameOf
    <3>4. QED
      BY <1>1, <1>3, <3>1, <3>2, <3>3 DEF Writing
  <2>5. HolderIsThere' /\ MetadataOnExtracted'
    BY <2>1 DEF HolderIsThere, MetadataOnExtracted
  <2>6. pc \in Busy /\ pc' \in Busy \ {"single"} /\ pc # "single"
    BY <1>1, <2>1 DEF Busy
  <2>7. fds' = IF pc' = "write" THEN {"archive", "object"} ELSE {"archive"}
    BY <1>2, <2>1
  <2>8. tcolls \subseteq tcolls' /\ tcolls' \subseteq Coll
    BY <1>1, <1>2 DEF ExtractTypeOK
  <2> HIDE DEF new
  <2>9. QED
    BY <1>1, <2>1, <2>2, <2>3, <2>4, <2>5, <2>6, <2>7, <2>8, RestoringStep
<1>6. QED
  BY <1>4, <1>5

\* The data object that is being written has its own content so far.
LEMMA WrittenFacts ==
    ASSUME Inv, pc = "write"
    PROVE  /\ CurrentEntry.item = Current /\ Current.type = "dataObj"
           /\ NameOf(Current) \in Name /\ NameOf(Current) \in DOMAIN tobjs
           /\ Current.size \in Nat /\ Readable \in 0..Current.size
           /\ Written \in Content /\ Written.units \in 0..Readable
           /\ Written = [of |-> NameOf(Current), units |-> Written.units, len |-> Written.units]
<1>1. /\ ExtractTypeOK /\ OwnContent /\ cur # 0
      /\ Current.type = "dataObj" /\ NameOf(Current) \in DOMAIN tobjs
      /\ Written.len = Written.units /\ Written.units <= Readable
  BY DEF Inv, Control, Busy, Writing
<1>2. /\ CurrentEntry.item = Current /\ NameOf(Current) \in Name
      /\ Current.size \in Nat /\ Readable \in 0..Current.size
  BY <1>1, CurrentFacts
<1>3. Written \in Content /\ Written.of = NameOf(Current)
  BY <1>1 DEF ExtractTypeOK, OwnContent, Written
<1>4. Written.units \in Nat /\ Written = [of |-> Written.of, units |-> Written.units, len |-> Written.len]
  BY <1>3 DEF Content
<1>5. Written = [of |-> NameOf(Current), units |-> Written.units, len |-> Written.units]
  BY <1>1, <1>3, <1>4
<1>6. Written.units \in 0..Readable
  BY <1>1, <1>2, <1>4
<1>7. QED
  BY <1>1, <1>2, <1>3, <1>5, <1>6

\* A turn of the copying loop adds units, and no more than there are.
LEMMA ChunkWritten ==
    ASSUME Inv, WriteChunk
    PROVE  \E n \in (Written.units + 1)..Readable :
              Put(NameOf(Current), [of |-> NameOf(Current), units |-> n, len |-> n])
<1>1. pc = "write" /\ Written.units < Readable
  BY DEF WriteChunk
<1>2. /\ Current.size \in Nat /\ Readable \in 0..Current.size
      /\ Written \in Content /\ Written.units \in 0..Readable
      /\ Written = [of |-> NameOf(Current), units |-> Written.units, len |-> Written.units]
  BY <1>1, WrittenFacts
<1> DEFINE n == AtMost(Written.units + Buf, Readable)
           e == [Written EXCEPT !.units = n, !.len = n]
<1>3. n \in Nat /\ n <= Readable /\ Written.units < n
  <2>1. Buf \in Nat /\ Buf > 0
    BY ExtractAssumption
  <2>2. QED
    BY <1>1, <1>2, <2>1 DEF AtMost
<1> HIDE DEF n
<1>4. Put(NameOf(Current), [Written EXCEPT !.units = n, !.len = IF @ < n THEN n ELSE @])
  BY DEF WriteChunk, n
<1>5. (IF Written.len < n THEN n ELSE Written.len) = n
  <2>1. Written.len = Written.units
    BY <1>2
  <2>2. QED
    BY <1>3, <2>1
<1>6. e \in Content /\ e.of = NameOf(Current) /\ e.units = n /\ e.len = n
  <2>1. Written.of = NameOf(Current)
    BY <1>2
  <2>2. QED
    BY <1>2, <1>3, <2>1 DEF Content
<1>7. Put(NameOf(Current), e)
  BY <1>4, <1>5
<1> HIDE DEF e
<1>8. e = [of |-> e.of, units |-> e.units, len |-> e.len]
  BY <1>6 DEF Content
<1>9. e = [of |-> NameOf(Current), units |-> n, len |-> n]
  BY <1>6, <1>8
<1>10. n \in (Written.units + 1)..Readable
  BY <1>2, <1>3
<1>11. QED
  BY <1>7, <1>9, <1>10

\* The copying loop: a turn of it, its end, or an error.
LEMMA WriteStep == ASSUME Inv, UNCHANGED cut, WriteChunk \/ WriteFails \/ WriteDone PROVE Inv'
<1>1. /\ pc = "write"
      /\ UNCHANGED <<archive, request, callVars, cur, tcolls, tmeta, shown>>
  BY DEF WriteChunk, WriteFails, WriteDone, callVars, targetVars
<1>2. /\ ExtractTypeOK /\ cur # 0 /\ fds = {"archive", "object"} /\ status = "ok"
  BY <1>1 DEF Inv, Control, Descriptors, Working, Busy
<1>3. /\ CurrentEntry.item = Current /\ Current.type = "dataObj"
      /\ NameOf(Current) \in Name /\ NameOf(Current) \in DOMAIN tobjs
      /\ Current.size \in Nat /\ Readable \in 0..Current.size
      /\ Written \in Content /\ Written.units \in 0..Readable
      /\ Written = [of |-> NameOf(Current), units |-> Written.units, len |-> Written.units]
  BY <1>1, WrittenFacts
<1>4. Written.of = NameOf(Current)
  BY <1>3
<1>6. Current' = Current /\ Readable' = Readable
  BY <1>1 DEF Current, Readable, CurrentEntry
<1>7. tcolls \subseteq tcolls' /\ tcolls' \subseteq Coll
  BY <1>1, <1>2 DEF ExtractTypeOK
<1>8. CASE WriteFails
  <2>1. /\ pc' = "close" /\ fds' = fds \ {"object"} /\ UNCHANGED tobjs
        /\ status' \in {"SYS_TAR_EXTRACT_ALL_ERR", "write error", "close error"}
        /\ (UNCHANGED boundVars \/ Fault)
    BY <1>8 DEF WriteFails, Break, targetVars
  <2>2. status' \in Status \ {"ok"} /\ fds' = {"archive"}
    BY <1>2, <2>1 DEF Status
  <2>3. QED
    BY <1>1, <2>1, <2>2, BreakStep DEF targetVars
<1>9. CASE WriteChunk
  <2>1. PICK n \in (Written.units + 1)..Readable :
           Put(NameOf(Current), [of |-> NameOf(Current), units |-> n, len |-> n])
    BY <1>9, ChunkWritten
  <2>2. UNCHANGED <<pc, status, fds, boundVars>>
    BY <1>9 DEF WriteChunk
  <2> DEFINE new == [of |-> NameOf(Current), units |-> n, len |-> n]
  <2>3. n \in Nat /\ n <= Readable
    BY <1>3
  <2>4. /\ OthersKept
        /\ DOMAIN tobjs' = DOMAIN tobjs \cup {NameOf(Current)}
        /\ tobjs' = [m \in DOMAIN tobjs' |-> tobjs'[m]]
        /\ tobjs'[NameOf(Current)] = new
    BY <2>1, PutFacts
  <2>5. new \in Content /\ new.of = NameOf(Current) /\ new.units = n /\ new.len = n
    BY <1>3, <2>3 DEF Content
  <2> HIDE DEF new
  <2>6. Writing'
    <3>1. Written' = new /\ NameOf(Current)' \in DOMAIN tobjs'
      BY <1>6, <2>4 DEF Written, NameOf
    <3>2. QED
      BY <1>3, <1>6, <2>3, <2>5, <3>1 DEF Writing
  <2>7. HolderIsThere' /\ MetadataOnExtracted'
    BY <1>1, <2>2 DEF HolderIsThere, MetadataOnExtracted
  <2>8. pc \in Busy /\ pc' \in Busy \ {"single"} /\ pc # "single"
    BY <1>1, <2>2 DEF Busy
  <2>9. fds' = IF pc' = "write" THEN {"archive", "object"} ELSE {"archive"}
    BY <1>1, <1>2, <2>2
  <2>10. QED
    BY <1>1, <1>7, <2>2, <2>4, <2>5, <2>6, <2>7, <2>8, <2>9, RestoringStep
<1>10. CASE WriteDone
  <2>1. /\ Written.units = Current.size /\ fds' = fds \ {"object"} /\ status' = "ok" /\ pc' = "meta"
        /\ UNCHANGED <<tobjs, boundVars>>
    BY <1>3, <1>10 DEF WriteDone, targetVars
  <2>2. MetadataOnExtracted'
    <3>1. tobjs[NameOf(Current)] = [of |-> NameOf(Current), units |-> Current.size, len |-> Current.size]
      BY <1>3, <2>1 DEF Written
    <3>2. QED
      BY <1>1, <1>3, <2>1, <3>1 DEF MetadataOnExtracted, Extracted, Current, NameOf
  <2>3. Writing' /\ HolderIsThere' /\ OthersKept
    BY <2>1 DEF Writing, HolderIsThere, OthersKept
  <2>4. pc \in Busy /\ pc' \in Busy \ {"single"} /\ pc # "single"
    BY <1>1, <2>1 DEF Busy
  <2>5. fds' = IF pc' = "write" THEN {"archive", "object"} ELSE {"archive"}
    BY <1>2, <2>1
  <2>6. /\ DOMAIN tobjs' \subseteq DOMAIN tobjs \cup {NameOf(Current)}
        /\ tobjs' = [m \in DOMAIN tobjs' |-> tobjs'[m]]
        /\ tobjs'[NameOf(Current)] \in Content /\ tobjs'[NameOf(Current)].of = NameOf(Current)
    BY <1>2, <1>3, <1>4, <2>1 DEF Written, ExtractTypeOK
  <2>7. UNCHANGED status
    BY <1>2, <2>1
  <2>8. QED
    BY <1>1, <1>7, <2>1, <2>2, <2>3, <2>4, <2>5, <2>6, <2>7, RestoringStep
<1>11. QED
  BY <1>8, <1>9, <1>10

\* Metadata is restored, or not; then the loop goes on or ends.
LEMMA MetadataStep == ASSUME Inv, UNCHANGED cut, Metadata PROVE Inv'
<1>1. /\ pc = "meta" /\ pc' = (IF request.op = "all" THEN "next" ELSE "close")
      /\ UNCHANGED <<status, archive, request, cur, fds, tcolls, tobjs, shown>>
      /\ \/ tmeta' = tmeta \cup {NameOf(Current)} /\ UNCHANGED boundVars
         \/ Fault /\ UNCHANGED tmeta
  BY DEF Metadata, callVars
<1>2. /\ ExtractTypeOK /\ status = "ok" /\ request.op # "index" /\ fds = {"archive"}
      /\ cur # 0 /\ Selected(Current) /\ Extracted(cur)
      /\ SpaceFound /\ AllSoFar /\ OneSoFar /\ PathThere
  BY <1>1 DEF Inv, Control, Descriptors, MetadataOnExtracted, Working, Busy
<1>3. /\ faults' \in Nat /\ attempts' \in Nat /\ cut' \in BOOLEAN
      /\ faults' = 0 => faults = 0 /\ UNCHANGED boundVars
  BY <1>1, <1>2, CountersKept
<1>4. request.op \in {"all", "one"} /\ cur \in Nat
  BY <1>2, IndexFacts, ExtractAssumption DEF ExtractTypeOK, Request
<1>5. NameOf(Current) \in Name
  BY <1>2, CurrentFacts
<1>6. tmeta \subseteq tmeta' /\ tmeta' \subseteq Name /\ (faults' = 0 => NameOf(Current) \in tmeta')
  <2>1. faults \in Nat
    BY <1>2 DEF ExtractTypeOK
  <2>2. QED
    BY <1>1, <1>2, <1>5, <2>1 DEF ExtractTypeOK, Fault
<1>7. ExtractTypeOK'
  BY <1>1, <1>2, <1>3, <1>6 DEF ExtractTypeOK
<1>8. OwnContent'
  BY <1>1 DEF Inv, OwnContent
<1>9. Descriptors' /\ Control' /\ Writing' /\ HolderIsThere' /\ MetadataOnExtracted'
  BY <1>1, <1>2 DEF Descriptors, DescriptorsReleased, Control, Writing, HolderIsThere,
     MetadataOnExtracted, Working, Busy
<1>10. SpaceFound'
  BY <1>1, <1>2 DEF SpaceFound, space, Usable, Working
<1>11. PathThere'
  BY <1>1, <1>2, <1>3 DEF PathThere, Busy
<1>12. /\ Through = cur - 1 /\ Through' = cur
       /\ \A k : Extracted(k)' <=> Extracted(k)
       /\ \A k \in 1..cur : k \in 1..(cur - 1) \/ k = cur
  BY <1>1, <1>4 DEF Through, Busy, Extracted
<1>13. AllSoFar'
  <2> SUFFICES ASSUME request.op = "all", NEW k \in 1..cur
      PROVE  /\ (\A j \in (k + 1)..cur : NameOf(archive.items[j]) # NameOf(archive.items[k]))
                    => Extracted(k)'
             /\ archive.items[k].type = "coll" => Extracted(k)'
             /\ faults' = 0 => NameOf(archive.items[k]) \in tmeta'
    BY <1>1, <1>12 DEF AllSoFar
  <2>1. CASE k \in 1..(cur - 1)
    <3>1. /\ (\A j \in (k + 1)..cur : NameOf(archive.items[j]) # NameOf(archive.items[k]))
                => Extracted(k)
          /\ archive.items[k].type = "coll" => Extracted(k)
          /\ faults = 0 => NameOf(archive.items[k]) \in tmeta
      BY <1>1, <1>2, <1>12, <2>1 DEF AllSoFar, Busy
    <3>2. QED
      BY <1>3, <1>6, <1>12, <3>1
  <2>2. CASE k = cur
    BY <1>2, <1>6, <1>12, <2>2 DEF Current
  <2>3. QED
    BY <1>12, <2>1, <2>2
<1>14. OneSoFar' /\ EndReached'
  <2>1. Current' = Current /\ \A k : Selected(archive.items[k])' <=> Selected(archive.items[k])
    BY <1>1 DEF Current, Selected
  <2>2. (Selected(Current)') /\ Extracted(cur)'
    BY <1>1, <1>2, <1>12, <2>1 DEF Selected
  <2>3. request.op = "one" => \A k \in 1..(cur - 1) : ~Selected(archive.items[k])
    BY <1>1, <1>2, <1>12 DEF OneSoFar, Busy
  <2>4. CASE request.op = "all"
    BY <1>1, <2>4 DEF OneSoFar, EndReached, Finished
  <2>5. CASE request.op = "one"
    <3>1. pc' = "close" /\ request'.op = "one" /\ cur' = cur
      BY <1>1, <2>5
    <3>2. EndReached'
      BY <1>2, <2>2, <3>1 DEF EndReached
    <3>3. NameOf(Current)' = NameOf(Current)
      BY <2>1 DEF NameOf
    <3>4. \A k \in 1..(cur - 1) : ~Selected(archive.items[k])'
      BY <2>1, <2>3, <2>5
    <3>5. OneSoFar'
      BY <1>2, <1>6, <2>2, <3>1, <3>3, <3>4 DEF OneSoFar, Busy
    <3>6. QED
      BY <3>2, <3>5
  <2>6. QED
    BY <1>4, <2>4, <2>5
<1>15. QED
  BY <1>7, <1>8, <1>9, <1>10, <1>11, <1>13, <1>14 DEF Inv

\* The destructor releases the archive.
LEMMA CloseStep == ASSUME Inv, UNCHANGED cut, Close PROVE Inv'
<1>1. /\ pc = "close" /\ pc' = "done" /\ fds' = fds \ {"archive"}
      /\ UNCHANGED <<status, archive, request, cur, tcolls, tobjs, tmeta, shown, faults, attempts, cut>>
  BY DEF Close, callVars, targetVars, boundVars
<1>2. ExtractTypeOK /\ AllSoFar /\ OneSoFar /\ EndReached /\ fds' = {}
  BY <1>1 DEF Inv, Descriptors
<1>3. ExtractTypeOK'
  BY <1>1, <1>2 DEF ExtractTypeOK
<1>4. OwnContent'
  BY <1>1 DEF Inv, OwnContent
<1>5. Descriptors' /\ Control' /\ Writing' /\ SpaceFound' /\ PathThere' /\ HolderIsThere' /\ MetadataOnExtracted'
  BY <1>1, <1>2 DEF Descriptors, DescriptorsReleased, Control, Writing, SpaceFound, PathThere,
     HolderIsThere, MetadataOnExtracted, Working, Busy
<1>6. /\ Through = cur /\ Through' = cur
      /\ Finished' <=> Finished
      /\ \A k : Extracted(k)' <=> Extracted(k)
  BY <1>1 DEF Through, Busy, Extracted, Finished
<1>7. AllSoFar'
  <2> SUFFICES ASSUME request.op = "all", Finished', NEW k \in 1..cur
      PROVE  /\ (\A j \in (k + 1)..cur : NameOf(archive.items[j]) # NameOf(archive.items[k]))
                    => Extracted(k)'
             /\ archive.items[k].type = "coll" => Extracted(k)'
             /\ faults = 0 => NameOf(archive.items[k]) \in tmeta
    BY <1>1, <1>6 DEF AllSoFar, Busy
  <2>1. /\ (\A j \in (k + 1)..cur : NameOf(archive.items[j]) # NameOf(archive.items[k]))
              => Extracted(k)
        /\ archive.items[k].type = "coll" => Extracted(k)
        /\ faults = 0 => NameOf(archive.items[k]) \in tmeta
    BY <1>2, <1>6 DEF AllSoFar
  <2>2. QED
    BY <1>6, <2>1
<1>8. Current' = Current /\ \A k : Selected(archive.items[k])' <=> Selected(archive.items[k])
  BY <1>1 DEF Selected, Current
<1>9. OneSoFar'
  <2> SUFFICES ASSUME request.op = "one", Finished'
      PROVE  \/ \A k \in 1..cur : ~Selected(archive.items[k])'
             \/ /\ cur # 0 /\ Selected(Current)' /\ Extracted(cur)'
                /\ \A k \in 1..(cur - 1) : ~Selected(archive.items[k])'
                /\ faults = 0 => NameOf(Current)' \in tmeta
    BY <1>1 DEF OneSoFar, Busy
  <2>1. \/ \A k \in 1..cur : ~Selected(archive.items[k])
        \/ /\ cur # 0 /\ Selected(Current) /\ Extracted(cur)
           /\ \A k \in 1..(cur - 1) : ~Selected(archive.items[k])
           /\ faults = 0 => NameOf(Current) \in tmeta
    BY <1>2, <1>6 DEF OneSoFar
  <2>2. NameOf(Current)' = NameOf(Current) /\ (Extracted(cur)' <=> Extracted(cur))
    BY <1>1, <1>8 DEF NameOf, Extracted
  <2>3. Selected(Current)' <=> Selected(Current)
    BY <1>1, <1>8 DEF Selected
  <2>4. QED
    BY <1>8, <2>1, <2>2, <2>3
<1>10. EndReached'
  BY <1>1, <1>2, <1>6 DEF EndReached, Selected, Current
<1>11. QED
  BY <1>3, <1>4, <1>5, <1>7, <1>9, <1>10 DEF Inv

-----------------------------------------------------------------------------
(* Between the steps of a call, and between calls.                         *)

\* Steps that leave alone everything but the entries of the archive.
LEMMA AroundStep ==
    ASSUME Inv, ExtractTypeOK', Writing', EndReached',
           archive'.items = archive.items, archive'.size = archive.size,
           UNCHANGED <<pc, status, request, cur, fds, tcolls, tobjs, tmeta, faults>>
    PROVE  Inv'
<1>1. OwnContent' /\ Descriptors' /\ PathThere'
  BY DEF Inv, OwnContent, Descriptors, DescriptorsReleased, PathThere
<1>2. /\ Current' = Current /\ Through' = Through
      /\ Finished' <=> Finished
      /\ \A k : Extracted(k)' <=> Extracted(k)
      /\ \A item : Selected(item)' <=> Selected(item)
  BY DEF Current, Through, Finished, Extracted, Selected
<1>3. Control' /\ SpaceFound'
  BY <1>2 DEF Inv, Control, SpaceFound, space, Usable, Selected, Current
<1>4. HolderIsThere' /\ MetadataOnExtracted'
  BY <1>2 DEF Inv, HolderIsThere, MetadataOnExtracted, Holder
<1>5. AllSoFar'
  BY <1>2 DEF Inv, AllSoFar
<1>6. OneSoFar'
  <2>1. OneSoFar
    BY DEF Inv
  <2>2. NameOf(Current)' = NameOf(Current) /\ (Selected(Current)' <=> Selected(Current))
        /\ (Extracted(cur)' <=> Extracted(cur))
    BY <1>2 DEF NameOf, Selected
  <2>3. QED
    BY <1>2, <2>1, <2>2 DEF OneSoFar
<1>7. QED
  BY <1>1, <1>3, <1>4, <1>5, <1>6 DEF Inv

\* Truncation by another agent leaves an archive that creation can leave, and
\* what has been read of it.
LEMMA TruncatedStep == ASSUME Inv, Truncated PROVE Inv'
<1>1. /\ UNCHANGED <<pc, status, request, cur, fds, tcolls, tobjs, tmeta, shown, faults, attempts>>
      /\ cut' = TRUE
  BY DEF Truncated, targetVars, boundVars
<1> DEFINE E == archive.entries
<1>2. PICK n \in cur..Len(E) : \E left \in IF n = 0 THEN {0} ELSE Left(n) :
          archive' = [archive EXCEPT !.whole = FALSE,
                         !.entries = [k \in 1..n |->
                             IF k = n THEN [E[k] EXCEPT !.got = left] ELSE E[k]]]
  BY DEF Truncated
<1>3. PICK left \in IF n = 0 THEN {0} ELSE Left(n) :
          archive' = [archive EXCEPT !.whole = FALSE,
                         !.entries = [k \in 1..n |->
                             IF k = n THEN [E[k] EXCEPT !.got = left] ELSE E[k]]]
  BY <1>2
<1> DEFINE F == [k \in 1..n |-> IF k = n THEN [E[k] EXCEPT !.got = left] ELSE E[k]]
<1>4. /\ ExtractTypeOK /\ Control /\ Writing
      /\ archive \in ArchiveFile /\ WellFormed(archive) /\ E \in Seq(Entry)
      /\ Len(E) \in Nat /\ cur \in 0..Len(E) /\ Len(E) <= Len(archive.items)
      /\ Len(archive.items) \in Nat
  BY IndexFacts DEF Inv, ExtractTypeOK
<1>5. n \in Nat /\ n <= Len(E) /\ cur <= n /\ cur \in Nat
  BY <1>4
<1>6. ASSUME n # 0
      PROVE  left \in 0..archive.items[n].size
  <2>1. n \in 1..Len(E)
    BY <1>5, <1>6
  <2>2. E[n].got \in 0..archive.items[n].size /\ archive.items[n].size \in Nat
    BY <1>4, <2>1, EntryFacts
  <2>3. CASE n = cur /\ pc = "write"
    <3>1. left \in Written.units..Readable
      BY <1>6, <2>3 DEF Left
    <3>2. Written.units \in Nat
      BY <1>4, <2>3 DEF ExtractTypeOK, Content, Writing, Written
    <3>3. Readable \in 0..archive.items[n].size
      BY <1>4, <1>6, <2>3, CurrentFacts DEF Current
    <3>4. QED
      BY <2>2, <3>1, <3>2, <3>3
  <2>4. CASE ~(n = cur /\ pc = "write")
    BY <1>6, <2>2, <2>4 DEF Left
  <2>5. QED
    BY <2>3, <2>4
<1>7. /\ archive'.whole = FALSE /\ archive'.items = archive.items /\ archive'.size = archive.size
      /\ archive'.form = archive.form /\ archive'.entries = F
  BY <1>3, <1>4 DEF ArchiveFile
<1>8. ASSUME NEW k \in 1..n
      PROVE  /\ F[k] \in Entry /\ F[k].item = archive.items[k]
             /\ F[k].got \in 0..archive.items[k].size
             /\ k = n => F[k].got = left
  <2>1. k \in 1..Len(E) /\ n # 0
    BY <1>5
  <2>2. E[k] \in Entry /\ E[k].item = archive.items[k] /\ E[k].got \in 0..archive.items[k].size
    BY <1>4, <2>1, EntryFacts
  <2>3. archive.items[k].size \in Nat
    BY <1>4, <2>1, EntryFacts
  <2>4. CASE k = n
    <3>1. F[k] = [E[k] EXCEPT !.got = left] /\ left \in 0..archive.items[k].size /\ left \in Nat
      BY <1>6, <2>1, <2>3, <2>4
    <3>2. QED
      BY <2>2, <2>4, <3>1 DEF Entry
  <2>5. CASE k # n
    BY <2>2, <2>5
  <2>6. QED
    BY <2>4, <2>5
<1> HIDE DEF F
<1>9. F \in Seq(Entry) /\ Len(F) = n
  <2>1. F = [k \in 1..n |-> F[k]]
    BY DEF F
  <2>2. F \in [1..n -> Entry]
    BY <1>8, <2>1
  <2>3. QED
    BY <1>5, <2>2
<1>10. archive' \in ArchiveFile
  <2>1. archive' = [archive EXCEPT !.whole = FALSE, !.entries = F]
    BY <1>3 DEF F
  <2>2. QED
    BY <1>4, <1>9, <2>1 DEF ArchiveFile
<1>11. WellFormed(archive')
  <2>1. n <= Len(archive.items)
    BY <1>4, <1>5
  <2>2. ASSUME archive.form # "indexed" PROVE F = <<>>
    BY <1>4, <1>5, <1>9, <2>2 DEF WellFormed
  <2>3. \A k \in 1..Len(F) : F[k].item = archive.items[k] /\ F[k].got <= archive.items[k].size
    <3> SUFFICES ASSUME NEW k \in 1..n
                 PROVE  F[k].item = archive.items[k] /\ F[k].got <= archive.items[k].size
      BY <1>9
    <3> QED
      BY <1>8
  <2>4. QED
    BY <1>4, <1>7, <1>9, <2>1, <2>2, <2>3 DEF WellFormed
<1>12. ExtractTypeOK'
  <2>1. cur' \in 0..Len(archive'.entries)
    BY <1>1, <1>5, <1>7, <1>9
  <2>2. QED
    BY <1>1, <1>4, <1>10, <1>11, <2>1 DEF ExtractTypeOK
<1>13. Writing'
  <2> SUFFICES ASSUME pc = "write" PROVE Writing'
    BY <1>1 DEF Writing
  <2>1. Current' = Current /\ Written' = Written
    BY <1>1, <1>7 DEF Current, Written, NameOf
  <2>2. /\ Current.type = "dataObj" /\ NameOf(Current) \in DOMAIN tobjs
        /\ Written.len = Written.units /\ Written.units <= Readable
        /\ cur # 0
    BY <1>4 DEF Writing, Control, Busy
  <2>3. Written.units <= Readable'
    <3>1. cur \in 1..n /\ Written.units \in Nat
      BY <1>4, <1>5, <2>2 DEF ExtractTypeOK, Content, Written
    <3>2. CurrentEntry' = F[cur]
      BY <1>1, <1>7 DEF CurrentEntry
    <3>3. CASE n = cur
      <4>1. left \in Written.units..Readable
        BY <2>2, <3>3 DEF Left
      <4>2. Readable' = left
        BY <1>1, <1>5, <1>7, <1>8, <1>9, <3>1, <3>2, <3>3 DEF Readable
      <4>3. QED
        BY <3>1, <4>1, <4>2
    <3>4. CASE n # cur
      <4>1. cur < n
        BY <1>5, <3>4
      <4>2. Readable' = Current.size
        BY <1>1, <1>7, <1>8, <1>9, <3>1, <3>2, <4>1 DEF Readable, Current
      <4>3. Readable \in 0..Current.size /\ Current.size \in Nat
        BY <1>4, <2>2, CurrentFacts
      <4>4. QED
        BY <2>2, <3>1, <4>2, <4>3
    <3>5. QED
      BY <3>3, <3>4
  <2>4. QED
    BY <1>1, <2>1, <2>2, <2>3 DEF Writing, NameOf
<1>14. EndReached'
  BY <1>7 DEF EndReached
<1>15. QED
  BY <1>1, <1>7, <1>12, <1>13, <1>14, AroundStep

\* Nothing changes.
LEMMA NoStep == ASSUME Inv, UNCHANGED vars PROVE Inv'
<1>1. UNCHANGED <<pc, status, archive, request, cur, fds, tcolls, tobjs, tmeta, shown, faults, attempts, cut>>
  BY DEF vars, callVars, targetVars, boundVars
<1>2. ExtractTypeOK' /\ Writing' /\ EndReached'
  BY <1>1 DEF Inv, ExtractTypeOK, Writing, EndReached, Finished, Selected, Current, Readable,
     CurrentEntry, Written, NameOf
<1>3. QED
  BY <1>1, <1>2, AroundStep

\* Another call, for what the archive has become.
LEMMA CallAgainStep == ASSUME Inv, CallAgain PROVE Inv'
<1>1. /\ pc' = "open" /\ status' = "ok" /\ cur' = 0 /\ fds' = {} /\ tmeta' = {} /\ shown' = <<>>
      /\ faults' = 0 /\ attempts' = attempts + 1 /\ request' \in Requests
      /\ archive' \in Rewritten \/ archive' = archive
      /\ UNCHANGED <<tcolls, tobjs, cut>>
  BY DEF CallAgain
<1>2. ExtractTypeOK /\ OwnContent
  BY DEF Inv
<1>3. archive' \in ArchiveFile /\ WellFormed(archive')
  BY <1>1, <1>2, ExtractAssumption DEF ExtractTypeOK
<1>4. cur' \in 0..Len(archive'.entries)
  BY <1>1, <1>3 DEF ArchiveFile
<1>5. ExtractTypeOK'
  <2>1. faults' \in Nat /\ attempts' \in Nat /\ shown' \in Seq(Item)
    BY <1>1, <1>2 DEF ExtractTypeOK
  <2>2. status' \in Status /\ tmeta' \subseteq Name /\ fds' \subseteq {"archive", "object"}
    BY <1>1 DEF Status
  <2>3. cut' \in BOOLEAN
    BY <1>1, <1>2, Zenon DEF ExtractTypeOK
  <2>4. QED
    BY <1>1, <1>2, <1>3, <1>4, <2>1, <2>2, <2>3 DEF ExtractTypeOK
<1>6. OwnContent'
  BY <1>1, <1>2 DEF OwnContent
<1>7. QED
  BY <1>1, <1>5, <1>6 DEF Inv, Descriptors, DescriptorsReleased, Control, Writing,
     SpaceFound, AllSoFar, OneSoFar, EndReached, PathThere, HolderIsThere, MetadataOnExtracted,
     Working, Busy, Finished

\* Every step keeps the invariant.
LEMMA ExtractNextKeeps == Inv /\ [ExtractNext]_vars => Inv'
BY EarlyStep, MakePathStep, NextItemStep, NoNextItemStep, SingleStep, ExtractCollStep,
   CreateObjStep, WriteStep, MetadataStep, CloseStep, TruncatedStep, CallAgainStep, NoStep
   DEF ExtractNext, ExtractStep

-----------------------------------------------------------------------------
(* The theorems.                                                           *)

\* The invariant holds throughout.
THEOREM ExtractInvariance == ExtractSpec => []Inv
BY ExtractStart, ExtractNextKeeps, PTL DEF ExtractSpec

\* Type correctness; the archive stays one that creation can leave, also when
\* another agent truncates it.
THEOREM ExtractTypeCorrect == ExtractSpec => []ExtractTypeOK
<1>1. Inv => ExtractTypeOK
  BY DEF Inv
<1>2. QED
  BY <1>1, ExtractInvariance, PTL

\* No data object ever gets the content that was archived under another name.
THEOREM ContentUnderItsName == ExtractSpec => []OwnContent
<1>1. Inv => OwnContent
  BY DEF Inv
<1>2. QED
  BY <1>1, ExtractInvariance, PTL

\* The collection an item goes to is there when no server call has failed.
THEOREM HoldersComeFirst == ExtractSpec => []HolderIsThere
<1>1. Inv => HolderIsThere
  BY DEF Inv
<1>2. QED
  BY <1>1, ExtractInvariance, PTL

\* Metadata goes to items that are there in full.
THEOREM MetadataComesLast == ExtractSpec => []MetadataOnExtracted
<1>1. Inv => MetadataOnExtracted
  BY DEF Inv
<1>2. QED
  BY <1>1, ExtractInvariance, PTL

\* Descriptors are released however the call ends.
THEOREM DescriptorsAreReleased == ExtractSpec => []DescriptorsReleased
<1>1. Inv => DescriptorsReleased
  BY DEF Inv, Descriptors
<1>2. QED
  BY <1>1, ExtractInvariance, PTL

\* What is extracted stays within nine tenths of the free space: the blocks of
\* the first cur items are no more than the size in the index.
THEOREM SpaceIsRespected == ExtractSpec => []SpaceRespected
<1>1. ASSUME Inv PROVE SpaceRespected
  <2> SUFFICES ASSUME pc \in {"extract", "write", "meta"}, space # 0
      PROVE  10 * (IF request.op = "all" THEN Blocks(SubSeq(archive.items, 1, cur)) ELSE Current.size)
                <= 9 * space + 9
    BY DEF SpaceRespected
  <2>1. ExtractTypeOK /\ cur # 0 /\ request.op # "index" /\ SpaceFound
    BY <1>1 DEF Inv, Control, Busy, Working
  <2>2. space \in Nat /\ request.op \in {"all", "one"}
    BY <2>1, ExtractAssumption DEF ExtractTypeOK, Request, space
  <2>3. 10 * Usable <= 9 * space + 9 /\ Usable \in Int
    BY <2>2 DEF Usable
  <2>4. CASE request.op = "all"
    <3>1. archive.size <= Usable
      BY <2>1, <2>4 DEF SpaceFound, Working
    <3>2. archive.items \in Seq(Item) /\ cur \in 0..Len(archive.items) /\ archive.size = Blocks(archive.items)
      BY <2>1, IndexFacts
    <3>3. Blocks(archive.items) \in Nat /\ Blocks(SubSeq(archive.items, 1, cur)) <= Blocks(archive.items)
      BY <3>2, BlocksOfPart
    <3>4. Blocks(SubSeq(archive.items, 1, cur)) \in Nat
      <4>1. SubSeq(archive.items, 1, cur) \in Seq(Item)
        BY <3>2
      <4>2. 0 \in 0..Len(SubSeq(archive.items, 1, cur))
        BY <4>1
      <4>3. QED
        BY <4>1, <4>2, BlocksOfPart
    <3> DEFINE b == Blocks(SubSeq(archive.items, 1, cur))
    <3> HIDE DEF b
    <3>5. b \in Nat /\ b <= Usable
      BY <2>3, <3>1, <3>2, <3>3, <3>4 DEF b
    <3>6. 10 * b <= 9 * space + 9
      BY <2>2, <2>3, <3>5
    <3>7. QED
      BY <2>4, <3>6 DEF b
  <2>5. CASE request.op = "one"
    <3>1. Current.size <= Usable /\ Current.size \in Nat
      BY <2>1, <2>5, CurrentFacts DEF SpaceFound
    <3>2. QED
      BY <2>2, <2>3, <2>5, <3>1
  <2>6. QED
    BY <2>2, <2>4, <2>5
<1>2. QED
  BY <1>1, ExtractInvariance, PTL

\* Status 0 without a failed server call means that everything asked for is in
\* the target, when the archive was complete and stayed so.
THEOREM SuccessMeansExtracted == ExtractSpec => []SuccessIsExtracted
<1>1. ASSUME Inv PROVE SuccessIsExtracted
  <2> SUFFICES ASSUME pc = "done", status = "ok", faults = 0, request.op # "index",
                      Complete(archive),
                      NEW k \in 1..Len(archive.items), Selected(archive.items[k]), Decisive(k)
               PROVE  Extracted(k) /\ NameOf(archive.items[k]) \in tmeta
    BY DEF SuccessIsExtracted
  <2>1. ExtractTypeOK /\ AllSoFar /\ OneSoFar /\ EndReached
    BY <1>1 DEF Inv
  <2>2. /\ Finished /\ Through = cur /\ archive.whole
        /\ Len(archive.entries) = Len(archive.items) /\ Len(archive.items) \in Nat
    BY <2>1, IndexFacts DEF Finished, Through, Busy, Complete
  <2>3. \/ cur = Len(archive.items)
        \/ request.op = "one" /\ cur # 0 /\ Selected(Current)
    BY <2>1, <2>2 DEF EndReached
  <2>4. request.op \in {"all", "one"} /\ cur \in 0..Len(archive.items)
    BY <2>1, IndexFacts, ExtractAssumption DEF ExtractTypeOK, Request
  <2>5. CASE request.op = "all"
    <3>1. cur = Len(archive.items)
      BY <2>3, <2>5
    <3>2. \A j \in (k + 1)..cur : NameOf(archive.items[j]) # NameOf(archive.items[k])
      <4> SUFFICES ASSUME NEW j \in (k + 1)..cur, NameOf(archive.items[j]) = NameOf(archive.items[k])
                   PROVE  FALSE
        OBVIOUS
      <4>1. j \in 1..Len(archive.items) /\ ~(j <= k)
        BY <2>2, <3>1
      <4>2. QED
        BY <2>5, <4>1 DEF Decisive
    <3>3. QED
      BY <2>1, <2>2, <2>5, <3>1, <3>2 DEF AllSoFar
  <2>6. CASE request.op = "one"
    <3>1. \/ \A j \in 1..cur : ~Selected(archive.items[j])
          \/ /\ cur # 0 /\ Selected(Current) /\ Extracted(cur)
             /\ \A j \in 1..(cur - 1) : ~Selected(archive.items[j])
             /\ NameOf(Current) \in tmeta
      BY <2>1, <2>2, <2>6 DEF OneSoFar
    <3>2. CASE \A j \in 1..cur : ~Selected(archive.items[j])
      <4>1. ~(cur # 0 /\ Selected(Current))
        BY <2>4, <3>2 DEF Current
      <4>2. QED
        BY <2>3, <3>2, <4>1
    <3>3. CASE /\ cur # 0 /\ Selected(Current) /\ Extracted(cur)
               /\ \A j \in 1..(cur - 1) : ~Selected(archive.items[j])
               /\ NameOf(Current) \in tmeta
      <4>1. NameOf(archive.items[cur]) = NameOf(archive.items[k]) /\ cur \in 1..Len(archive.items)
        BY <2>4, <2>6, <3>3 DEF Selected, Current
      <4>2. k <= cur
        BY <2>6, <4>1 DEF Decisive
      <4>3. ~(k \in 1..(cur - 1))
        BY <3>3
      <4>4. k = cur
        BY <2>4, <4>2, <4>3
      <4>5. QED
        BY <3>3, <4>4 DEF Current
    <3>4. QED
      BY <3>1, <3>2, <3>3
  <2>7. QED
    BY <2>4, <2>5, <2>6
<1>2. QED
  BY <1>1, ExtractInvariance, PTL

-----------------------------------------------------------------------------
(* The refinement of Restore.                                              *)

\* The plan of the call.
Plan == PlanOf(archive.items, request)

\* As long as no other agent has truncated it, the archive is what it was.
Untouched == cut \/ archive \in Archives

\* The first item of the name that was asked for is the plan.
LEMMA PlanOfOne ==
    ASSUME NEW items \in Seq(Item), NEW req, req.op = "one", NEW k \in 1..Len(items),
           NameOf(items[k]) = req.name,
           \A j \in 1..(k - 1) : NameOf(items[j]) # req.name
    PROVE  PlanOf(items, req) = <<items[k]>>
<1> DEFINE found == {j \in 1..Len(items) : NameOf(items[j]) = req.name}
           First(x) == x \in found /\ \A j \in found : x <= j
<1>1. PlanOf(items, req) = IF found = {} THEN <<>>
                           ELSE <<items[CHOOSE x \in found : \A j \in found : x <= j]>>
  BY DEF PlanOf
<1>2. First(k)
  <2>1. ASSUME NEW j \in found PROVE k <= j
    <3>1. ~(j \in 1..(k - 1))
      OBVIOUS
    <3>2. QED
      BY <3>1
  <2>2. QED
    BY <2>1
<1>3. \A x : First(x) => x = k
  BY <1>2
<1>4. (CHOOSE x \in found : \A j \in found : x <= j) = k
  <2> HIDE DEF found
  <2>1. QED
    BY <1>2, <1>3, Zenon
<1>5. found # {}
  OBVIOUS
<1>6. QED
  BY <1>1, <1>4, <1>5

\* The item that has been taken up is the one that the plan has next.
LEMMA PlannedIsCurrent ==
    ASSUME Inv, cur # 0, Selected(Current), request.op # "index",
           request.op = "one" => \A k \in 1..(cur - 1) : ~Selected(archive.items[k])
    PROVE  /\ TakenUp \in 1..Len(Plan) /\ Plan[TakenUp] = Current
           /\ request.op = "one" => Len(Plan) = 1
<1>1. ExtractTypeOK
  BY DEF Inv
<1>2. archive.items \in Seq(Item) /\ cur \in 1..Len(archive.items) /\ request.op \in {"all", "one"}
  BY <1>1, IndexFacts, CurrentFacts, ExtractAssumption DEF ExtractTypeOK, Request
<1>3. CASE request.op = "all"
  <2>1. Plan = archive.items /\ TakenUp = cur
    BY <1>3 DEF Plan, PlanOf, TakenUp
  <2>2. QED
    BY <1>2, <1>3, <2>1 DEF Current
<1>4. CASE request.op = "one"
  <2>1. NameOf(archive.items[cur]) = request.name
    BY <1>4 DEF Selected, Current
  <2>2. \A k \in 1..(cur - 1) : NameOf(archive.items[k]) # request.name
    BY <1>4 DEF Selected
  <2>3. Plan = <<Current>>
    BY <1>2, <1>4, <2>1, <2>2, PlanOfOne DEF Plan, Current
  <2>4. TakenUp = 1
    BY <1>2, <1>4 DEF TakenUp
  <2>5. QED
    BY <2>3, <2>4
<1>5. QED
  BY <1>2, <1>3, <1>4

\* Where an item is being restored, the plan has one more to say.
LEMMA BusyPlan ==
    ASSUME Inv, pc \in Busy
    PROVE  /\ TakenUp \in 1..Len(Plan) /\ Plan[TakenUp] = Current
           /\ request.op = "one" => Len(Plan) = 1
           /\ request.op \in {"all", "one"} /\ cur # 0 /\ ExtractTypeOK /\ status = "ok"
<1>1. /\ cur # 0 /\ Selected(Current) /\ request.op # "index" /\ ExtractTypeOK
      /\ status = "ok"
      /\ request.op = "one" => \A k \in 1..(cur - 1) : ~Selected(archive.items[k])
  BY DEF Inv, Control, OneSoFar, Through, Busy, Working
<1>2. request.op \in {"all", "one"}
  BY <1>1, ExtractAssumption DEF ExtractTypeOK, Request
<1>3. QED
  BY <1>1, <1>2, PlannedIsCurrent

\* The abstract state but for the target does not change with these.
LEMMA SamePlan ==
    ASSUME UNCHANGED <<request, cur>>, archive'.items = archive.items
    PROVE  Plan' = Plan /\ TakenUp' = TakenUp
BY DEF Plan, PlanOf, TakenUp, Selected, Current, NameOf

\* The target that Restore is given.
LEMMA RestoreStart == ExtractInit => Restoring!RestoreInit /\ Untouched
<1> SUFFICES ASSUME ExtractInit PROVE Restoring!RestoreInit /\ Untouched
  OBVIOUS
<1>1. /\ pc = "open" /\ status = "ok" /\ cur = 0 /\ tmeta = {} /\ archive \in Archives
      /\ request \in Requests
      /\ \E t \in Targets : tcolls = t.colls /\ tobjs = t.objs
  BY DEF ExtractInit
<1>2. RestorePhase = "idle" /\ (status # "ok") = FALSE
      /\ (pc \in {"single", "extract", "write", "meta"}) = FALSE
  BY <1>1 DEF RestorePhase
<1>3. TakenUp = 0
  BY <1>1 DEF TakenUp
<1>4. PlanOf(archive.items, request) \in
         {PlanOf(f.items, req) : f \in Archives \cup Rewritten, req \in Requests}
  BY <1>1
<1>5. QED
  BY <1>1, <1>2, <1>3, <1>4 DEF Restoring!RestoreInit, Untouched

\* A step of Restore, or none.
RestoreStep == Restoring!RestoreNext \/ UNCHANGED Restoring!restoreVars

\* Steps that Restore does not see.
LEMMA HiddenStep ==
    ASSUME UNCHANGED <<status, tcolls, tobjs, tmeta>>, Plan' = Plan, TakenUp' = TakenUp,
           RestorePhase' = RestorePhase, pc' \in Busy <=> pc \in Busy
    PROVE  RestoreStep
BY DEF RestoreStep, Restoring!restoreVars, Plan, Busy

\* The call is over before it restores anything, or begins to.
LEMMA EarlyRefines ==
    ASSUME Inv,
           \/ InvalidInput \/ Open \/ OpenFails \/ OpenRejects
           \/ Index \/ EnoughSpace \/ NotEnoughSpace
    PROVE  RestoreStep
<1>1. /\ pc \in {"open", "index", "space"} /\ cur = 0 /\ status = "ok"
      /\ UNCHANGED <<archive, request, tcolls, tobjs, tmeta>>
  BY DEF InvalidInput, Open, OpenFails, OpenRejects, Index, EnoughSpace, NotEnoughSpace,
     callVars, targetVars, Inv, Control, Working
<1>2. cur' = cur
  BY <1>1 DEF InvalidInput, Open, OpenFails, OpenRejects, Index, EnoughSpace, NotEnoughSpace
<1>3. Plan' = Plan /\ TakenUp' = TakenUp /\ TakenUp = 0
  <2>1. TakenUp = 0
    BY <1>1 DEF TakenUp
  <2>2. QED
    BY <1>1, <1>2, <2>1, SamePlan
<1>4. CASE pc \in {"open", "index"} /\ pc' \in {"done", "crashed"}
  <2>1. RestorePhase = "idle" /\ RestorePhase' = "over" /\ ~(pc \in Busy) /\ ~(pc' \in Busy)
    BY <1>4 DEF RestorePhase, Busy
  <2>2. Restoring!Refuse
    BY <1>1, <1>3, <2>1 DEF Restoring!Refuse, Plan, Busy
  <2>3. QED
    BY <2>2 DEF RestoreStep, Restoring!RestoreNext
<1>5. CASE Open
  <2>1. pc = "open" /\ pc' = (IF request.op = "index" THEN "index" ELSE "space") /\ UNCHANGED status
    BY <1>5 DEF Open
  <2>2. CASE request.op = "index"
    <3>1. pc' = "index" /\ RestorePhase' = RestorePhase /\ (pc' \in Busy <=> pc \in Busy)
      BY <2>1, <2>2 DEF RestorePhase, Busy
    <3>2. QED
      BY <1>1, <1>3, <2>1, <3>1, HiddenStep
  <2>3. CASE request.op # "index"
    <3>1. RestorePhase = "idle" /\ RestorePhase' = "restoring" /\ ~(pc \in Busy) /\ ~(pc' \in Busy)
      BY <2>1, <2>3 DEF RestorePhase, Busy
    <3>2. Restoring!Begin
      BY <1>1, <1>3, <2>1, <3>1 DEF Restoring!Begin, Plan, Busy
    <3>3. QED
      BY <3>2 DEF RestoreStep, Restoring!RestoreNext
  <2>4. QED
    BY <2>2, <2>3
<1>6. CASE EnoughSpace
  <2>1. pc = "space" /\ pc' = "mkpath" /\ UNCHANGED status
    BY <1>6 DEF EnoughSpace
  <2>2. RestorePhase' = RestorePhase /\ (pc' \in Busy <=> pc \in Busy)
    BY <2>1 DEF RestorePhase, Busy
  <2>3. QED
    BY <1>1, <1>3, <2>1, <2>2, HiddenStep
<1>7. CASE NotEnoughSpace
  <2>1. pc = "space" /\ pc' = "done" /\ status' # "ok"
    BY <1>7 DEF NotEnoughSpace, Return
  <2>2. RestorePhase = "restoring" /\ RestorePhase' = "over" /\ ~(pc \in Busy) /\ ~(pc' \in Busy)
    BY <2>1 DEF RestorePhase, Busy
  <2>3. Restoring!Stop
    BY <1>1, <1>3, <2>1, <2>2 DEF Restoring!Stop, Restoring!End, Plan, Busy
  <2>4. QED
    BY <2>3 DEF RestoreStep, Restoring!RestoreNext
<1>8. QED
  BY <1>4, <1>5, <1>6, <1>7
     DEF InvalidInput, OpenFails, OpenRejects, Index, Return

\* The extraction path is made, or not.
LEMMA MakePathRefines == ASSUME Inv, MakePath PROVE RestoreStep
<1>1. /\ pc = "mkpath" /\ pc' = "next" /\ cur = 0
      /\ UNCHANGED <<status, archive, request, cur, tobjs, tmeta>>
      /\ tcolls' = tcolls \cup {Root} \/ UNCHANGED tcolls
  BY DEF MakePath, callVars, Inv, Control
<1>2. Plan' = Plan /\ TakenUp' = TakenUp /\ TakenUp = 0
  <2>1. TakenUp = 0
    BY <1>1 DEF TakenUp
  <2>2. QED
    BY <1>1, <2>1, SamePlan
<1>3. /\ RestorePhase = "restoring" /\ RestorePhase' = "restoring"
      /\ ~(pc \in Busy) /\ ~(pc' \in Busy)
  BY <1>1 DEF RestorePhase, Busy
<1>4. CASE UNCHANGED tcolls
  BY <1>1, <1>2, <1>3, <1>4, HiddenStep
<1>5. CASE tcolls' = tcolls \cup {Root}
  <2>1. Restoring!Prepare
    BY <1>1, <1>2, <1>3, <1>5 DEF Restoring!Prepare, Plan, Busy
  <2>2. QED
    BY <2>1 DEF RestoreStep, Restoring!RestoreNext
<1>6. QED
  BY <1>1, <1>4, <1>5

\* An item is passed over or taken up.
LEMMA NextItemRefines == ASSUME Inv, Inv', NextItem PROVE RestoreStep
<1>1. /\ pc = "next" /\ cur < Len(archive.entries) /\ cur' = cur + 1
      /\ pc' \in {"next", "extract", "single"}
      /\ UNCHANGED <<status, archive, request, tcolls, tobjs, tmeta>>
      /\ pc' = "next" => ~Selected(archive.items[cur + 1])
  BY DEF NextItem, callVars, targetVars
<1>2. /\ ExtractTypeOK /\ request.op # "index"
      /\ request.op = "one" => \A k \in 1..cur : ~Selected(archive.items[k])
  BY <1>1 DEF Inv, Control, OneSoFar, Through, Busy, Working
<1>3. /\ request.op \in {"all", "one"} /\ cur \in Nat /\ Len(archive.items) \in Nat
      /\ cur < Len(archive.items)
  BY <1>1, <1>2, IndexFacts, ExtractAssumption DEF ExtractTypeOK, Request
<1>4. Plan' = Plan /\ request' = request
  BY <1>1 DEF Plan
<1>5. RestorePhase = "restoring" /\ RestorePhase' = "restoring"
  BY <1>1 DEF RestorePhase
<1>6. TakenUp = IF request.op = "all" THEN cur ELSE 0
  <2>1. request.op = "one" => ~(cur > 0 /\ Selected(Current))
    BY <1>2, <1>3 DEF Current
  <2>2. QED
    BY <1>3, <2>1 DEF TakenUp
<1>7. CASE pc' = "next"
  <2>1. ~Selected(Current)' /\ request.op = "one"
    BY <1>1, <1>3, <1>7 DEF Selected, Current
  <2>2. TakenUp' = 0
    BY <1>4, <2>1 DEF TakenUp
  <2>3. pc' \in Busy <=> pc \in Busy
    BY <1>1, <1>7 DEF Busy
  <2>4. QED
    BY <1>1, <1>4, <1>5, <1>6, <2>1, <2>2, <2>3, HiddenStep
<1>8. CASE pc' # "next"
  <2>1. pc' \in Busy /\ ~(pc \in Busy)
    BY <1>1, <1>8 DEF Busy
  <2>2. TakenUp' = TakenUp + 1 /\ TakenUp < Len(Plan)
    <3>1. CASE request.op = "all"
      BY <1>1, <1>3, <1>4, <1>6, <3>1 DEF TakenUp, Plan, PlanOf
    <3>2. CASE request.op = "one"
      <4>1. cur' # 0 /\ Selected(Current)'
        BY <2>1 DEF Inv, Control
      <4>2. TakenUp' = 1
        BY <1>1, <1>3, <1>4, <3>2, <4>1 DEF TakenUp
      <4>3. cur' - 1 = cur
        BY <1>1, <1>3
      <4>4. \A k \in 1..(cur' - 1) : ~Selected(archive.items[k])
        BY <1>2, <3>2, <4>3
      <4>5. NameOf(archive.items[cur']) = request.name
        BY <1>1, <3>2, <4>1 DEF Selected, Current
      <4>6. Plan = <<archive.items[cur']>>
        <5>1. archive.items \in Seq(Item) /\ cur' \in 1..Len(archive.items)
          BY <1>1, <1>2, <1>3, IndexFacts
        <5>2. \A k \in 1..(cur' - 1) : NameOf(archive.items[k]) # request.name
          BY <3>2, <4>4 DEF Selected
        <5>3. QED
          BY <3>2, <4>5, <5>1, <5>2, PlanOfOne DEF Plan
      <4>7. QED
        BY <1>6, <3>2, <4>2, <4>6
    <3>3. QED
      BY <1>3, <3>1, <3>2
  <2>3. Restoring!Take
    BY <1>1, <1>4, <1>5, <2>1, <2>2 DEF Restoring!Take, Plan, Busy
  <2>4. QED
    BY <2>3 DEF RestoreStep, Restoring!RestoreNext
<1>9. QED
  BY <1>7, <1>8

\* The loop ends.
LEMMA NoNextItemRefines == ASSUME Inv, NoNextItem PROVE RestoreStep
<1>1. /\ pc = "next" /\ pc' = "close" /\ status = "ok"
      /\ UNCHANGED <<status, archive, request, cur, tcolls, tobjs, tmeta>>
  BY DEF NoNextItem, callVars, targetVars, Inv, Control, Working
<1>2. Plan' = Plan /\ TakenUp' = TakenUp
  BY <1>1, SamePlan
<1>3. /\ RestorePhase = "restoring" /\ RestorePhase' = "over"
      /\ ~(pc \in Busy) /\ ~(pc' \in Busy)
  BY <1>1 DEF RestorePhase, Busy
<1>4. Restoring!Stop
  BY <1>1, <1>2, <1>3 DEF Restoring!Stop, Restoring!End, Plan, Busy
<1>5. QED
  BY <1>4 DEF RestoreStep, Restoring!RestoreNext

\* A break is a break.
LEMMA BreakRefines ==
    ASSUME Inv, pc \in Busy, pc' = "close", status' # "ok",
           UNCHANGED <<archive, request, cur, tcolls, tobjs, tmeta>>
    PROVE  RestoreStep
<1>1. Plan' = Plan /\ TakenUp' = TakenUp
  BY SamePlan
<1>2. RestorePhase' = "over" /\ ~(pc' \in Busy)
  BY DEF RestorePhase, Busy
<1>3. Restoring!Break
  BY <1>1, <1>2 DEF Restoring!Break, Restoring!End, Plan, Busy
<1>4. QED
  BY <1>3 DEF RestoreStep, Restoring!RestoreNext

\* Steps that restore the item taken up stay within Restore's phase and plan.
LEMMA StillBusy ==
    ASSUME pc \in Busy, pc' \in Busy, UNCHANGED <<archive, request, cur>>
    PROVE  /\ Plan' = Plan /\ TakenUp' = TakenUp
           /\ RestorePhase' = RestorePhase
<1>1. Plan' = Plan /\ TakenUp' = TakenUp
  BY SamePlan
<1>2. RestorePhase' = RestorePhase
  BY DEF RestorePhase, Busy
<1>3. QED
  BY <1>1, <1>2

\* The way to a single item is made.
LEMMA SingleRefines == ASSUME Inv, Inv', MakeHolder \/ SingleTooLarge PROVE RestoreStep
<1>1. /\ pc = "single" /\ pc \in Busy
      /\ UNCHANGED <<archive, request, cur, tobjs, tmeta>>
  BY DEF MakeHolder, SingleTooLarge, callVars, targetVars, Busy
<1>2. /\ TakenUp \in 1..Len(Plan) /\ Plan[TakenUp] = Current
      /\ ExtractTypeOK /\ cur # 0 /\ Len(Plan) = 1
  <2>1. request.op = "one"
    BY <1>1 DEF Inv, Control
  <2>2. QED
    BY <1>1, <2>1, BusyPlan
<1>3. CASE SingleTooLarge
  <2>1. pc' = "close" /\ status' # "ok" /\ UNCHANGED tcolls
    BY <1>3 DEF SingleTooLarge, Break, targetVars
  <2>2. QED
    BY <1>1, <2>1, BreakRefines
<1>4. CASE MakeHolder
  <2>1. /\ pc' = "extract" /\ UNCHANGED status
        /\ \/ UNCHANGED tcolls
           \/ tcolls' = tcolls \cup Ancestors[Holder(Current)]
    BY <1>4 DEF MakeHolder
  <2>2. pc' \in Busy
    BY <2>1 DEF Busy
  <2>3. Plan' = Plan /\ TakenUp' = TakenUp /\ RestorePhase' = RestorePhase
    BY <1>1, <2>2, StillBusy
  <2>4. CASE UNCHANGED tcolls
    BY <1>1, <2>1, <2>2, <2>3, <2>4, HiddenStep
  <2>5. CASE tcolls' = tcolls \cup Ancestors[Holder(Current)]
    <3>1. Holder(Current) \in Coll
      BY <1>2, CurrentFacts
    <3>2. tcolls \subseteq tcolls' /\ Holder(Current) \in tcolls' /\ tcolls' \in SUBSET Coll
      BY <1>2, <2>5, <3>1, AncestorsOf DEF ExtractTypeOK
    <3>3. tcolls' \in {t \in SUBSET Coll : tcolls \subseteq t /\ Holder(Plan[TakenUp]) \in t}
      BY <1>2, <3>2
    <3>4. Restoring!MakeWay
      BY <1>1, <1>2, <2>1, <2>2, <2>3, <3>3
         DEF Restoring!MakeWay, Restoring!Planned, Restoring!Holder, Holder, Plan, Busy
    <3>5. QED
      BY <3>4 DEF RestoreStep, Restoring!RestoreNext
  <2>6. QED
    BY <2>1, <2>4, <2>5
<1>5. QED
  BY <1>3, <1>4

\* A collection is restored.
LEMMA ExtractCollRefines == ASSUME Inv, ExtractColl PROVE RestoreStep
<1>1. /\ pc = "extract" /\ pc \in Busy /\ CurrentEntry.item.type = "coll"
      /\ UNCHANGED <<archive, request, cur, tobjs, tmeta>>
  BY DEF ExtractColl, callVars, Busy
<1>2. /\ TakenUp \in 1..Len(Plan) /\ Plan[TakenUp] = Current
      /\ ExtractTypeOK /\ cur # 0 /\ status = "ok"
  BY <1>1, BusyPlan
<1>3. Current.type = "coll"
  BY <1>1, <1>2, CurrentFacts
<1>4. CASE pc' = "meta"
  <2>1. /\ Current.coll \in tcolls \/ Holder(Current) \in tcolls
        /\ tcolls' = tcolls \cup {Current.coll} /\ status' = "ok"
    BY <1>4 DEF ExtractColl, Break
  <2>2. pc' \in Busy
    BY <1>4 DEF Busy
  <2>3. Plan' = Plan /\ TakenUp' = TakenUp /\ RestorePhase' = RestorePhase
    BY <1>1, <2>2, StillBusy
  <2>4. Restoring!RestoreColl
    BY <1>1, <1>2, <1>3, <2>1, <2>2, <2>3
       DEF Restoring!RestoreColl, Restoring!Planned, Restoring!Holder, Holder, Plan, Busy
  <2>5. QED
    BY <2>4 DEF RestoreStep, Restoring!RestoreNext
<1>5. CASE pc' # "meta"
  <2>1. pc' = "close" /\ status' # "ok" /\ UNCHANGED tcolls
    BY <1>5 DEF ExtractColl, Break
  <2>2. QED
    BY <1>1, <2>1, BreakRefines
<1>6. QED
  BY <1>4, <1>5

\* What Put does is what Restore calls With.
LEMMA PutIsWith ==
    ASSUME NEW units, Plan[TakenUp] = Current,
           Put(NameOf(Current), [of |-> NameOf(Current), units |-> units, len |-> units])
    PROVE  tobjs' = Restoring!With(units)
BY DEF Put, Restoring!With, Restoring!Planned, Restoring!NameOf, NameOf, Plan

\* A data object is emptied.
LEMMA CreateObjRefines == ASSUME Inv, CreateObj \/ CreateObjFails PROVE RestoreStep
<1>1. /\ pc = "extract" /\ pc \in Busy /\ CurrentEntry.item.type = "dataObj"
      /\ UNCHANGED <<archive, request, cur, tcolls, tmeta>>
  BY DEF CreateObj, CreateObjFails, callVars, targetVars, Busy
<1>2. /\ TakenUp \in 1..Len(Plan) /\ Plan[TakenUp] = Current
      /\ ExtractTypeOK /\ cur # 0
  BY <1>1, BusyPlan
<1>3. CurrentEntry.item = Current
  BY <1>2, CurrentFacts
<1>4. CASE CreateObj
  <2>1. /\ Put(NameOf(Current), [of |-> NameOf(Current), units |-> 0, len |-> 0])
        /\ NameOf(Current) \in DOMAIN tobjs \/ Current.coll \in tcolls
        /\ pc' = "write" /\ UNCHANGED status
    BY <1>3, <1>4 DEF CreateObj
  <2>2. pc' \in Busy
    BY <2>1 DEF Busy
  <2>3. Plan' = Plan /\ TakenUp' = TakenUp /\ RestorePhase' = RestorePhase
    BY <1>1, <2>2, StillBusy
  <2>4. tobjs' = Restoring!With(0)
    BY <1>2, <2>1, PutIsWith
  <2>5. Restoring!Empty
    BY <1>1, <1>2, <1>3, <2>1, <2>2, <2>3, <2>4
       DEF Restoring!Empty, Restoring!Planned, Restoring!NameOf, NameOf, Plan, Busy
  <2>6. QED
    BY <2>5 DEF RestoreStep, Restoring!RestoreNext
<1>5. CASE CreateObjFails
  <2>1. pc' = "close" /\ status' # "ok" /\ UNCHANGED tobjs
    BY <1>5 DEF CreateObjFails, Break, targetVars
  <2>2. QED
    BY <1>1, <2>1, BreakRefines
<1>6. QED
  BY <1>4, <1>5

\* A data object is filled.
LEMMA WriteRefines == ASSUME Inv, WriteChunk \/ WriteFails \/ WriteDone PROVE RestoreStep
<1>1. /\ pc = "write" /\ pc \in Busy
      /\ UNCHANGED <<archive, request, cur, tcolls, tmeta>>
  BY DEF WriteChunk, WriteFails, WriteDone, callVars, targetVars, Busy
<1>2. /\ TakenUp \in 1..Len(Plan) /\ Plan[TakenUp] = Current /\ status = "ok"
  BY <1>1, BusyPlan
<1>3. /\ Current.type = "dataObj" /\ NameOf(Current) \in DOMAIN tobjs
      /\ Current.size \in Nat /\ Readable \in 0..Current.size /\ Written.units \in 0..Readable
  BY <1>1, WrittenFacts
<1>4. CASE WriteChunk
  <2>1. PICK units \in (Written.units + 1)..Readable :
           Put(NameOf(Current), [of |-> NameOf(Current), units |-> units, len |-> units])
    BY <1>4, ChunkWritten
  <2>2. UNCHANGED <<pc, status>>
    BY <1>4 DEF WriteChunk
  <2>3. Plan' = Plan /\ TakenUp' = TakenUp /\ RestorePhase' = RestorePhase
    BY <1>1, <2>2, StillBusy
  <2>4. tobjs' = Restoring!With(units)
    BY <1>2, <2>1, PutIsWith
  <2>5. units \in (tobjs[NameOf(Current)].units + 1)..Current.size
    BY <1>3, <2>1 DEF Written
  <2>6. Restoring!Fill
    BY <1>1, <1>2, <1>3, <2>2, <2>3, <2>4, <2>5
       DEF Restoring!Fill, Restoring!Planned, Restoring!NameOf, NameOf, Plan, Busy
  <2>7. QED
    BY <2>6 DEF RestoreStep, Restoring!RestoreNext
<1>5. CASE WriteFails
  <2>1. pc' = "close" /\ status' # "ok" /\ UNCHANGED tobjs
    BY <1>5 DEF WriteFails, Break, targetVars
  <2>2. QED
    BY <1>1, <2>1, BreakRefines
<1>6. CASE WriteDone
  <2>1. pc' = "meta" /\ pc' \in Busy /\ status' = status /\ UNCHANGED tobjs
    BY <1>2, <1>6 DEF WriteDone, targetVars, Busy
  <2>2. Plan' = Plan /\ TakenUp' = TakenUp /\ RestorePhase' = RestorePhase
    BY <1>1, <2>1, StillBusy
  <2>3. QED
    BY <1>1, <2>1, <2>2, HiddenStep
<1>7. QED
  BY <1>4, <1>5, <1>6

\* The item is there in full, and marked or not.
LEMMA MetadataRefines == ASSUME Inv, Metadata PROVE RestoreStep
<1>1. /\ pc = "meta" /\ pc \in Busy /\ pc' = (IF request.op = "all" THEN "next" ELSE "close")
      /\ UNCHANGED <<status, archive, request, cur, tcolls, tobjs>>
      /\ tmeta' \in {tmeta, tmeta \cup {NameOf(Current)}}
  BY DEF Metadata, callVars, Busy
<1>2. /\ TakenUp \in 1..Len(Plan) /\ Plan[TakenUp] = Current /\ status = "ok"
      /\ request.op \in {"all", "one"} /\ (request.op = "one" => Len(Plan) = 1)
      /\ ExtractTypeOK /\ cur # 0
  BY <1>1, BusyPlan
<1>3. Extracted(cur)
  BY <1>1 DEF Inv, MetadataOnExtracted
<1>4. Restoring!InFull
  <2>1. CASE Current.type = "coll"
    BY <1>2, <1>3, <2>1 DEF Extracted, Current, Restoring!InFull, Restoring!Planned, Plan
  <2>2. CASE Current.type # "coll"
    <3>1. /\ NameOf(Current) \in DOMAIN tobjs
          /\ tobjs[NameOf(Current)] =
                [of |-> NameOf(Current), units |-> Current.size, len |-> Current.size]
      BY <1>3, <2>2 DEF Extracted, Current
    <3>2. tobjs = [m \in DOMAIN tobjs |-> tobjs[m]] /\ DOMAIN tobjs = DOMAIN tobjs \cup {NameOf(Current)}
      BY <1>2, <3>1 DEF ExtractTypeOK
    <3>3. tobjs = [m \in DOMAIN tobjs \cup {NameOf(Current)} |->
                     IF m = NameOf(Current)
                     THEN [of |-> m, units |-> Current.size, len |-> Current.size]
                     ELSE tobjs[m]]
      BY <3>1, <3>2
    <3>4. tobjs = Restoring!With(Current.size)
      BY <1>2, <3>3 DEF Restoring!With, Restoring!Planned, Restoring!NameOf, NameOf, Plan
    <3>5. QED
      BY <1>2, <2>2, <3>1, <3>4
         DEF Restoring!InFull, Restoring!Planned, Restoring!NameOf, NameOf, Plan
  <2>3. QED
    BY <2>1, <2>2
<1>5. Plan' = Plan /\ TakenUp' = TakenUp /\ ~(pc' \in Busy)
  BY <1>1, SamePlan DEF Busy
<1>6. \/ RestorePhase' = RestorePhase
      \/ Len(Plan) = 1 /\ RestorePhase' = "over"
  BY <1>1, <1>2 DEF RestorePhase
<1>7. Restoring!Finish
  BY <1>1, <1>2, <1>4, <1>5, <1>6
     DEF Restoring!Finish, Restoring!End, Restoring!Planned, Restoring!NameOf, NameOf, Plan, Busy
<1>8. QED
  BY <1>7 DEF RestoreStep, Restoring!RestoreNext

\* Closing, truncation and waiting are not seen; another call is another call.
LEMMA AroundRefines ==
    ASSUME Inv, Untouched, Close \/ Truncated \/ CallAgain \/ UNCHANGED vars
    PROVE  RestoreStep
<1>1. CASE Close
  <2>1. pc = "close" /\ pc' = "done" /\ UNCHANGED <<status, archive, request, cur, tcolls, tobjs, tmeta>>
    BY <1>1 DEF Close, callVars, targetVars
  <2>2. RestorePhase' = RestorePhase /\ (pc' \in Busy <=> pc \in Busy)
    BY <2>1 DEF RestorePhase, Busy
  <2>3. Plan' = Plan /\ TakenUp' = TakenUp
    BY <2>1, SamePlan
  <2>4. QED
    BY <2>1, <2>2, <2>3, HiddenStep
<1>2. CASE Truncated \/ UNCHANGED vars
  <2>1. UNCHANGED <<pc, status, request, cur, tcolls, tobjs, tmeta>>
    BY <1>2 DEF Truncated, vars, callVars, targetVars
  <2>2. archive'.items = archive.items
    <3>1. archive \in ArchiveFile
      BY DEF Inv, ExtractTypeOK
    <3>2. QED
      BY <1>2, <3>1 DEF Truncated, vars, callVars, ArchiveFile
  <2>3. Plan' = Plan /\ TakenUp' = TakenUp /\ RestorePhase' = RestorePhase
    BY <2>1, <2>2, SamePlan DEF RestorePhase
  <2>4. QED
    BY <2>1, <2>3, HiddenStep
<1>3. CASE CallAgain
  <2>1. /\ pc = "done" /\ pc' = "open" /\ status' = "ok" /\ cur' = 0 /\ tmeta' = {}
        /\ request' \in Requests /\ archive' \in Archives \cup Rewritten
        /\ UNCHANGED <<tcolls, tobjs>>
    BY <1>3 DEF CallAgain, Untouched
  <2>2. /\ RestorePhase = "over" /\ RestorePhase' = "idle"
        /\ ~(pc \in Busy) /\ ~(pc' \in Busy)
    BY <2>1 DEF RestorePhase, Busy
  <2>3. TakenUp' = 0
    BY <2>1 DEF TakenUp
  <2>4. Plan' \in {PlanOf(f.items, req) : f \in Archives \cup Rewritten, req \in Requests}
    BY <2>1 DEF Plan
  <2>5. Restoring!Again
    BY <2>1, <2>2, <2>3, <2>4 DEF Restoring!Again, Plan, Busy
  <2>6. QED
    BY <2>5 DEF RestoreStep, Restoring!RestoreNext
<1>4. QED
  BY <1>1, <1>2, <1>3

\* Who truncates the archive leaves a sign.
LEMMA UntouchedKept == Untouched /\ [ExtractNext]_vars => Untouched'
<1> SUFFICES ASSUME Untouched, [ExtractNext]_vars PROVE Untouched'
  OBVIOUS
<1>1. CASE Truncated
  BY <1>1 DEF Truncated, Untouched
<1>2. CASE CallAgain
  BY <1>2 DEF CallAgain, Untouched
<1>3. CASE ~Truncated /\ ~CallAgain
  <2>1. UNCHANGED <<archive, cut>>
    BY <1>3 DEF ExtractNext, ExtractStep, InvalidInput, Open, OpenFails, OpenRejects, Index,
       EnoughSpace, NotEnoughSpace, MakePath, NextItem, NoNextItem, MakeHolder, SingleTooLarge,
       ExtractColl, CreateObj, CreateObjFails, WriteChunk, WriteFails, WriteDone, Metadata, Close,
       callVars, vars
  <2>2. QED
    BY <2>1, Zenon DEF Untouched
<1>4. QED
  BY <1>1, <1>2, <1>3

\* Every step of extraction is a step of Restore, or one it does not see.
LEMMA StepRefines ==
    Inv /\ Inv' /\ Untouched /\ [ExtractNext]_vars
       => [Restoring!RestoreNext]_Restoring!restoreVars
<1> SUFFICES ASSUME Inv, Inv', Untouched, [ExtractNext]_vars PROVE RestoreStep
  BY DEF RestoreStep
<1> QED
  BY EarlyRefines, MakePathRefines, NextItemRefines, NoNextItemRefines, SingleRefines,
     ExtractCollRefines, CreateObjRefines, WriteRefines, MetadataRefines, AroundRefines
     DEF ExtractNext, ExtractStep

\* Extraction implements Restore, whatever fails and however often it is
\* called: items in the order of the index, one at a time, no other data object
\* touched, metadata on what is restored in full only.
THEOREM ExtractImplementsRestore == ExtractSpec => ImplementsRestore
BY ExtractInvariance, RestoreStart, UntouchedKept, StepRefines, PTL
   DEF ExtractSpec, ImplementsRestore, Restoring!RestoreSpec
=============================================================================
