------------------------ MODULE ArchiveSystemProofs ------------------------
(***************************************************************************)
(* What holds of msiArchiveCreate and msiArchiveExtract over one archive   *)
(* object, for every collection tree, catalog, page size and buffer size,  *)
(* any number of failing calls and any number of changes that other agents *)
(* make while the archive is created.                                      *)
(***************************************************************************)
EXTENDS ArchiveSystem, ArchiveCreateProofs

-----------------------------------------------------------------------------
(* The inductive invariant: msiArchiveCreate among other agents.           *)

\* No collection of this path has come or gone.
Intact(c) == [coll |-> c, base |-> NoBase] \notin touched

\* Good replicas of a data object have one size.
SameSizes ==
    \A id \in CollId, b \in Base : \A q, r \in repl[id][b] :
        (q.good /\ r.good) => q.size = r.size

\* The catalog stays a tree, and while msiArchiveCreate works its root is the
\* archived collection.
Rooted ==
    /\ UniquePaths
    /\ SameSizes
    /\ \A id \in CollId :
          /\ collOf[id] = Root => id = RootId
          /\ collOf[id] \in Coll \ {Root} => PathTaken(ParentOf[collOf[id]])
    /\ pc \notin {"start", "done"} => collOf[RootId] = Root

\* A collection that comes or goes takes its data objects with it, and only
\* collections without sub-collections do.
TouchedOK ==
    /\ touched \subseteq Name
    /\ edits = 0 => touched = {}
    /\ \A c \in Coll, b \in Base : [coll |-> c, base |-> b] \notin touched => Intact(c)
    /\ \A c \in Coll \ {Root} : (PathTaken(c) /\ Intact(c)) => Intact(ParentOf[c])

\* What an activation knows of names that nobody touched is true.
IntactFrame ==
    {f \in Frame :
        /\ Intact(f.coll) => collOf[f.id] = f.coll
        /\ \A k \in 1..Len(f.dirs) :
              Intact(f.dirs[k].coll) => collOf[f.dirs[k].id] = f.dirs[k].coll
        /\ \A r \in f.page \cup f.rest :
              /\ QueryOf(r) = f.fn
              /\ NameOf(r) \notin touched =>
                    IF f.fn = "dirColl" THEN collOf[r.id] = r.coll
                                        ELSE Readable(r.coll, r.base, r.size)}

\* So is what the list says of them.
IntactItem ==
    {i \in Item :
        NameOf(i) \notin touched =>
            IF i.type = "coll" THEN PathTaken(i.coll) ELSE Readable(i.coll, i.base, i.size)}

\* Between two queries an activation has no rows in hand; before its first it
\* has none at all.
Tidy(f) ==
    /\ f.phase = "query" => f.page = {}
    /\ (f.phase = "query" /\ ~f.cont) => Fresh(f)
    /\ ~f.cont => f.rest = {}

\* Only the running activation has begun.
TidyStack(stk) == stk # <<>> => Tidy(Head(stk)) /\ Waiting(Tail(stk))

\* name is listed, its row is in hand, the query that gives its row has not
\* been made, or the collection it lies in has not been listed yet.
Named(lst, name) == \E i \in 1..Len(lst) : NameOf(lst[i]) = name

HeldName(stk, name) ==
    \E k \in 1..Len(stk) : \E r \in stk[k].page \cup stk[k].rest : NameOf(r) = name

Covered(stk, lst, name) ==
    \/ Named(lst, name)
    \/ HeldName(stk, name)
    \/ Due(stk, QueryOf(name), Within(name))
    \/ ~Known(lst, Within(name))

\* As long as nothing has gone wrong no name is lost.
Listing ==
    /\ faults = 0
    /\ pc \in {"walk", "item", "open", "read", "free"} \/ (pc = "done" /\ status = "ok")

Coverage == Listing => \A name \in Archivable \ touched : Covered(stack, list, name)

\* Data objects that nobody has touched are copied in full.
CopiedIntact ==
    /\ \A k \in 1..Len(arc.entries) :
          (k <= idx /\ NameOf(arc.entries[k].item) \notin touched) =>
              arc.entries[k].got = arc.entries[k].item.size
    /\ (pc = "read" /\ NameOf(list[idx + 1]) \notin touched) => src = list[idx + 1].size

SourceInv ==
    /\ CreateInv
    /\ Rooted
    /\ TouchedOK
    /\ stack \in Seq(IntactFrame)
    /\ list \in Seq(IntactItem)
    /\ TidyStack(stack)
    /\ Coverage
    /\ CopiedIntact

-----------------------------------------------------------------------------
(* The inductive invariant: msiArchiveExtract.                             *)

\* The data objects among the items taken up so far.
DataNames == {NameOf(stored.items[k]) : k \in {j \in 1..xcur : stored.items[j].type = "dataObj"}}

\* Item k is in the target.
Present(k) ==
    IF stored.items[k].type = "coll" THEN stored.items[k].coll \in tcolls
                                     ELSE NameOf(stored.items[k]) \in DOMAIN tobjs

\* A data object of the target has as much as one of its items says.
Full(name) ==
    \E k \in 1..xcur :
        /\ stored.items[k].type = "dataObj" /\ NameOf(stored.items[k]) = name
        /\ tobjs[name] = [of |-> name, units |-> stored.items[k].size,
                          len |-> stored.items[k].size]

\* An item is being extracted.
Busy == xpc \in {"extract", "write", "meta"}

\* How far msiArchiveExtract is; it begins when msiArchiveCreate has returned.
Position ==
    /\ request = Everything
    /\ xpc \in {"open", "space", "mkpath", "next", "extract", "write", "meta",
               "close", "done", "crashed"}
    /\ xcur \in 0..Len(stored.entries)
    /\ Busy => xcur # 0
    /\ pc # "done" => xpc = "open"
    /\ xpc \in {"open", "space", "mkpath"} => xcur = 0
    /\ xpc \notin {"close", "done", "crashed"} => xstatus = "ok"

\* The target holds nothing but items that were taken up.
OnlyItems ==
    /\ tmeta \subseteq {NameOf(stored.items[k]) : k \in 1..xcur}
    /\ tcolls \subseteq {Root} \cup {stored.items[k].coll :
                                       k \in {j \in 1..xcur : stored.items[j].type = "coll"}}
    /\ DOMAIN tobjs \subseteq DataNames

\* A data object of the target is being filled.
Writing(name) ==
    /\ xpc = "write" /\ name = NameOf(stored.items[xcur])
    /\ tobjs[name].of = name /\ tobjs[name].len = tobjs[name].units

\* As long as nothing has gone wrong every item taken up is in the target, with
\* its metadata, in full.
AllArrived ==
    (xstatus = "ok" /\ faults = 0) =>
        /\ xpc \in {"next", "extract", "write", "meta", "close", "done"} => Root \in tcolls
        /\ xpc \in {"close", "done"} => xcur = Len(stored.entries)
        /\ \A k \in 1..xcur : (Busy /\ k = xcur) \/ (Present(k) /\ NameOf(stored.items[k]) \in tmeta)
        /\ \A name \in DOMAIN tobjs : Full(name) \/ Writing(name)

\* The item whose data or metadata are written is there.
InHand ==
    /\ xpc \in {"write", "meta"} => Present(xcur)
    /\ xpc = "write" => stored.items[xcur].type = "dataObj"

TargetInv ==
    /\ Position
    /\ InHand
    /\ OnlyItems
    /\ \A name \in DOMAIN tobjs : tobjs[name] \in Content
    /\ AllArrived

-----------------------------------------------------------------------------
(* Changes by other agents.                                                *)

\* What a change of the catalog is: a collection without sub-collections gets
\* another path, which lies in an existing collection, or none, or a new one is
\* made.
Moved(id, d) ==
    /\ d # Root /\ repl' = repl /\ collOf' = [collOf EXCEPT ![id] = d]
    /\ collOf[id] # NoColl => id # RootId /\ Leaf(id)
    /\ d # NoColl => ~PathTaken(d) /\ \E k \in CollId \ {id} : collOf[k] = ParentOf[d]

\* A data object gets other replicas, the good ones copies of each other.
Replaced(id, b, new) ==
    /\ collOf' = collOf /\ repl' = [repl EXCEPT ![id][b] = new]
    /\ \A q, r \in new : (q.good /\ r.good) => q.size = r.size

\* Every change of the catalog is one of the two.
LEMMA EditIs ==
    ASSUME WalkTypeOK, SameSizes, CatalogEdit
    PROVE  \/ \E id \in CollId, d \in Coll \cup {NoColl} : Moved(id, d)
           \/ \E id \in CollId, b \in Base : \E new \in SUBSET Replica : Replaced(id, b, new)
<1>1. PICK id \in CollId :
         \/ \E b \in Base : PutObj(id, b) \/ ReplicateObj(id, b) \/ RmObj(id, b)
         \/ \E c \in Coll \ {Root} : MkColl(id, c) \/ MvColl(id, c)
         \/ RmColl(id)
  BY DEF CatalogEdit
<1>2. /\ collOf \in [CollId -> Coll \cup {NoColl}] /\ NoColl \notin Coll
      /\ repl \in [CollId -> [Base -> SUBSET Replica]]
      /\ ParentOf \in [Coll \ {Root} -> Coll] /\ Root \in Coll
  BY CatalogAssumption, TreeAssumption DEF WalkTypeOK
<1>3. CASE \E b \in Base : PutObj(id, b)
  <2>1. PICK b \in Base : PutObj(id, b)
    BY <1>3
  <2>2. PICK s \in Size, t \in Stamp :
           repl' = [repl EXCEPT ![id][b] =
              {[good |-> TRUE, size |-> s, mtime |-> t]}
                 \cup {[r EXCEPT !.good = FALSE] : r \in @}]
    BY <2>1 DEF PutObj
  <2> DEFINE stale == {[r EXCEPT !.good = FALSE] : r \in repl[id][b]}
             q == [good |-> TRUE, size |-> s, mtime |-> t]
             new == {q} \cup stale
  <2>3. q \in Replica
    BY DEF Replica
  <2>4. \A r \in stale : r \in Replica /\ r.good = FALSE
    <3>1. ASSUME NEW r \in repl[id][b]
          PROVE  [r EXCEPT !.good = FALSE] \in Replica /\ [r EXCEPT !.good = FALSE].good = FALSE
      <4>1. r \in Replica
        BY <1>2, <3>1
      <4>2. QED
        BY <4>1 DEF Replica
    <3>2. ASSUME NEW p \in stale PROVE p \in Replica /\ p.good = FALSE
      <4>1. PICK r \in repl[id][b] : p = [r EXCEPT !.good = FALSE]
        BY <3>2
      <4>2. QED
        BY <3>1, <4>1
    <3> HIDE DEF stale
    <3>3. QED
      BY <3>2
  <2>5. repl' = [repl EXCEPT ![id][b] = new] /\ collOf' = collOf
    BY <2>1, <2>2 DEF PutObj
  <2>6. new \in SUBSET Replica /\ \A p, r \in new : (p.good /\ r.good) => p.size = r.size
    <3> HIDE DEF stale, q
    <3>1. QED
      BY <2>3, <2>4
  <2> HIDE DEF new
  <2>7. Replaced(id, b, new)
    BY <2>5, <2>6 DEF Replaced
  <2>8. QED
    BY <2>6, <2>7
<1>4. CASE \E b \in Base : ReplicateObj(id, b)
  <2>1. PICK b \in Base : ReplicateObj(id, b)
    BY <1>4
  <2>2. PICK r \in GoodReplicas(id, b), t \in Stamp :
           repl' = [repl EXCEPT ![id][b] = @ \cup {[r EXCEPT !.mtime = t]}]
    BY <2>1 DEF ReplicateObj
  <2> DEFINE p == [r EXCEPT !.mtime = t]
             new == repl[id][b] \cup {p}
  <2>3. r \in repl[id][b] /\ r.good /\ repl[id][b] \subseteq Replica
    BY <1>2 DEF GoodReplicas
  <2>4. p \in Replica /\ p.size = r.size
    <3>1. r \in Replica
      BY <2>3
    <3>2. QED
      BY <3>1 DEF Replica
  <2>5. repl' = [repl EXCEPT ![id][b] = new] /\ collOf' = collOf
    BY <2>1, <2>2 DEF ReplicateObj
  <2>6. \A q \in repl[id][b] : q.good => q.size = r.size
    BY <2>3 DEF SameSizes
  <2>7. new \in SUBSET Replica /\ \A q \in new : q.good => q.size = r.size
    <3> HIDE DEF p
    <3>1. QED
      BY <2>3, <2>4, <2>6
  <2> HIDE DEF new
  <2>8. Replaced(id, b, new)
    BY <2>5, <2>7 DEF Replaced
  <2>9. QED
    BY <2>7, <2>8
<1>5. CASE \E b \in Base : RmObj(id, b)
  <2>1. PICK b \in Base : RmObj(id, b)
    BY <1>5
  <2>2. Replaced(id, b, {})
    BY <2>1 DEF RmObj, Replaced
  <2>3. QED
    BY <2>2
<1>6. CASE \E c \in Coll \ {Root} : MkColl(id, c)
  <2>1. PICK c \in Coll \ {Root} : MkColl(id, c)
    BY <1>6
  <2>2. PICK k \in CollId : collOf[k] = ParentOf[c]
    BY <2>1 DEF MkColl, PathTaken
  <2>3. k # id /\ collOf[id] = NoColl /\ c # Root /\ ~PathTaken(c)
    BY <1>2, <2>1, <2>2 DEF MkColl
  <2>4. Moved(id, c)
    BY <2>1, <2>2, <2>3 DEF MkColl, Moved
  <2>5. QED
    BY <2>4
<1>7. CASE \E c \in Coll \ {Root} : MvColl(id, c)
  <2>1. PICK c \in Coll \ {Root} : MvColl(id, c)
    BY <1>7
  <2>2. Moved(id, c)
    BY <2>1 DEF MvColl, Moved
  <2>3. QED
    BY <2>2
<1>8. CASE RmColl(id)
  <2>1. Moved(id, NoColl)
    BY <1>2, <1>8 DEF RmColl, Moved
  <2>2. QED
    BY <2>1
<1>9. QED
  BY <1>1, <1>3, <1>4, <1>5, <1>6, <1>7, <1>8

\* The tree survives.
LEMMA EditRooted ==
    ASSUME WalkTypeOK, Rooted, CatalogEdit, pc' = pc
    PROVE  Rooted'
<1>1. /\ collOf \in [CollId -> Coll \cup {NoColl}] /\ NoColl \notin Coll
      /\ repl \in [CollId -> [Base -> SUBSET Replica]]
      /\ ParentOf \in [Coll \ {Root} -> Coll] /\ Root \in Coll /\ RootId \in CollId
  BY CatalogAssumption, TreeAssumption DEF WalkTypeOK
<1>2. UniquePaths /\ SameSizes
  BY DEF Rooted
<1>3. CASE \E id \in CollId, d \in Coll \cup {NoColl} : Moved(id, d)
  <2>1. PICK id \in CollId, d \in Coll \cup {NoColl} : Moved(id, d)
    BY <1>3
  <2>2. /\ d # Root /\ repl' = repl
        /\ \A k \in CollId : collOf'[k] = IF k = id THEN d ELSE collOf[k]
        /\ collOf[id] # NoColl => id # RootId /\ Leaf(id)
        /\ d # NoColl => ~PathTaken(d) /\ \E k \in CollId \ {id} : collOf[k] = ParentOf[d]
    BY <1>1, <2>1 DEF Moved
  <2>3. UniquePaths'
    BY <1>2, <2>2 DEF UniquePaths, PathTaken
  <2>4. SameSizes'
    BY <1>2, <2>2 DEF SameSizes
  <2>5. \A k \in CollId : collOf'[k] = Root => k = RootId
    BY <2>2 DEF Rooted
  <2>6. ASSUME NEW k \in CollId, collOf'[k] \in Coll \ {Root}
        PROVE  \E p \in CollId : collOf'[p] = ParentOf[collOf'[k]]
    <3>1. CASE k = id
      <4>1. collOf'[k] = d /\ d # NoColl
        BY <1>1, <2>2, <2>6, <3>1
      <4>2. PICK p \in CollId \ {id} : collOf[p] = ParentOf[d]
        BY <2>2, <4>1
      <4>3. QED
        BY <2>2, <4>1, <4>2
    <3>2. CASE k # id
      <4>1. collOf'[k] = collOf[k]
        BY <2>2, <3>2
      <4>2. PICK p \in CollId : collOf[p] = ParentOf[collOf[k]]
        BY <2>6, <4>1 DEF Rooted, PathTaken
      <4>3. ParentOf[collOf[k]] \in Coll
        BY <1>1, <2>6, <4>1
      <4>4. p # id
        BY <1>1, <2>2, <2>6, <4>1, <4>2, <4>3 DEF Leaf
      <4>5. QED
        BY <2>2, <4>1, <4>2, <4>4
    <3>3. QED
      BY <3>1, <3>2
  <2>7. pc' \notin {"start", "done"} => collOf'[RootId] = Root
    BY <1>1, <2>2 DEF Rooted
  <2>8. QED
    BY <2>3, <2>4, <2>5, <2>6, <2>7 DEF Rooted, PathTaken
<1>4. CASE \E id \in CollId, b \in Base : \E new \in SUBSET Replica : Replaced(id, b, new)
  <2>1. PICK id \in CollId, b \in Base, new \in SUBSET Replica : Replaced(id, b, new)
    BY <1>4
  <2>2. /\ collOf' = collOf
        /\ \A k \in CollId, c \in Base : repl'[k][c] = IF k = id /\ c = b THEN new ELSE repl[k][c]
        /\ \A q, r \in new : (q.good /\ r.good) => q.size = r.size
    BY <1>1, <2>1 DEF Replaced
  <2>3. SameSizes'
    BY <1>2, <2>2 DEF SameSizes
  <2>4. QED
    BY <2>2, <2>3 DEF Rooted, UniquePaths, PathTaken
<1>5. QED
  BY <1>2, <1>3, <1>4, EditIs

\* What the catalog has under a name that nobody has touched is what it had
\* before.
LEMMA SameColl ==
    ASSUME Editing, NEW c \in Coll, [coll |-> c, base |-> NoBase] \notin touched'
    PROVE  Intact(c) /\ \A id \in CollId : collOf'[id] = c <=> collOf[id] = c
<1> DEFINE n == [coll |-> c, base |-> NoBase]
<1>1. n \in Name
  BY DEF Name
<1>2. n \notin touched /\ At(n)' = At(n)
  BY <1>1 DEF Editing
<1>3. At(n) = {id \in CollId : collOf[id] = c} /\ At(n)' = {id \in CollId : collOf'[id] = c}
  BY DEF At
<1>4. QED
  BY <1>2, <1>3 DEF Intact

\* A data object whose name stays untouched keeps its replicas and its
\* collection.
LEMMA SameObj ==
    ASSUME Editing, NEW c \in Coll, NEW b \in Base, [coll |-> c, base |-> b] \notin touched'
    PROVE  /\ [coll |-> c, base |-> b] \notin touched
           /\ \A id \in CollId : collOf'[id] = c <=> collOf[id] = c
           /\ \A id \in CollId : collOf[id] = c => repl'[id][b] = repl[id][b]
<1> DEFINE n == [coll |-> c, base |-> b]
<1>1. n \in Name /\ b # NoBase
  BY TreeAssumption DEF Name
<1>2. n \notin touched /\ At(n)' = At(n)
  BY <1>1 DEF Editing
<1>3. /\ At(n) = {<<id, repl[id][b]>> : id \in {k \in CollId : collOf[k] = c}}
      /\ At(n)' = {<<id, repl'[id][b]>> : id \in {k \in CollId : collOf'[k] = c}}
  BY <1>1 DEF At
<1>4. ASSUME NEW id \in CollId, collOf[id] = c PROVE collOf'[id] = c /\ repl'[id][b] = repl[id][b]
  <2>1. <<id, repl[id][b]>> \in At(n)'
    BY <1>2, <1>3, <1>4
  <2>2. PICK k \in CollId : collOf'[k] = c /\ <<id, repl[id][b]>> = <<k, repl'[k][b]>>
    BY <1>3, <2>1
  <2>3. QED
    BY <2>2
<1>5. ASSUME NEW id \in CollId, collOf'[id] = c PROVE collOf[id] = c
  <2>1. <<id, repl'[id][b]>> \in At(n)
    BY <1>2, <1>3, <1>5
  <2>2. PICK k \in CollId : collOf[k] = c /\ <<id, repl'[id][b]>> = <<k, repl[k][b]>>
    BY <1>3, <2>1
  <2>3. QED
    BY <2>2
<1>6. QED
  BY <1>2, <1>4, <1>5

\* With a collection that comes or goes its data objects are touched.
LEMMA EditTouched ==
    ASSUME WalkTypeOK, Rooted, TouchedOK, Editing
    PROVE  TouchedOK'
<1>1. touched' \subseteq Name
  BY DEF TouchedOK, Editing
<1>2. edits' # 0
  <2>1. edits' = edits + 1 /\ edits \in Nat
    BY DEF Editing, WalkTypeOK, CatalogEdit, PutObj, ReplicateObj, RmObj, MkColl, MvColl, RmColl, Edit
  <2>2. QED
    BY <2>1
<1>3. ASSUME NEW c \in Coll, Intact(c), \A id \in CollId : collOf'[id] = c <=> collOf[id] = c
      PROVE  Intact(c)'
  <2> DEFINE n == [coll |-> c, base |-> NoBase]
  <2>1. At(n) = {id \in CollId : collOf[id] = c} /\ At(n)' = {id \in CollId : collOf'[id] = c}
    BY DEF At
  <2>2. At(n)' = At(n)
    BY <1>3, <2>1
  <2>3. n \notin touched
    BY <1>3 DEF Intact
  <2>4. n \notin touched'
    BY <2>2, <2>3 DEF Editing
  <2>5. QED
    BY <2>4 DEF Intact
<1>4. \A c \in Coll, b \in Base : [coll |-> c, base |-> b] \notin touched' => Intact(c)'
  <2>1. ASSUME NEW c \in Coll, NEW b \in Base, [coll |-> c, base |-> b] \notin touched'
        PROVE  Intact(c)'
    <3>1. /\ [coll |-> c, base |-> b] \notin touched
          /\ \A id \in CollId : collOf'[id] = c <=> collOf[id] = c
      BY <2>1, SameObj
    <3>2. Intact(c)
      BY <3>1 DEF TouchedOK
    <3>3. QED
      BY <1>3, <3>1, <3>2
  <2>2. QED
    BY <2>1
<1>5. ASSUME NEW c \in Coll \ {Root}, PathTaken(c)', Intact(c)' PROVE Intact(ParentOf[c])'
  <2> DEFINE p == ParentOf[c]
  <2>1. Intact(c) /\ \A id \in CollId : collOf'[id] = c <=> collOf[id] = c
    BY <1>5, SameColl DEF Intact
  <2>2. PICK k \in CollId : collOf[k] = c /\ collOf'[k] = c
    BY <1>5, <2>1 DEF PathTaken
  <2>3. p \in Coll /\ Intact(p) /\ PathTaken(p)
    BY <2>1, <2>2, TreeAssumption DEF TouchedOK, Rooted, PathTaken
  <2>4. \A id \in CollId : collOf'[id] = p <=> collOf[id] = p
    <3>1. CASE \E id \in CollId, d \in Coll \cup {NoColl} : Moved(id, d)
      <4>1. PICK id \in CollId, d \in Coll \cup {NoColl} : Moved(id, d)
        BY <3>1
      <4>2. \A j \in CollId : collOf'[j] = IF j = id THEN d ELSE collOf[j]
        BY <4>1 DEF Moved, WalkTypeOK
      <4>3. d # p
        BY <2>3, <4>1, CatalogAssumption DEF Moved
      <4>4. collOf[id] # p
        BY <2>2, <2>3, <4>1, CatalogAssumption DEF Moved, Leaf
      <4>5. QED
        BY <4>2, <4>3, <4>4
    <3>2. CASE \E id \in CollId, b \in Base : \E new \in SUBSET Replica : Replaced(id, b, new)
      BY <3>2 DEF Replaced
    <3>3. QED
      BY <3>1, <3>2, EditIs DEF Rooted, Editing
  <2>5. QED
    BY <1>3, <2>3, <2>4
<1>6. QED
  BY <1>1, <1>2, <1>4, <1>5 DEF TouchedOK

-----------------------------------------------------------------------------
(* What is known of names that nobody touched stays true.                  *)

\* Row r says what is true, if nobody has touched its name.
TrueRow(fn, r) ==
    /\ QueryOf(r) = fn
    /\ NameOf(r) \notin touched =>
          IF fn = "dirColl" THEN collOf[r.id] = r.coll ELSE Readable(r.coll, r.base, r.size)

\* So do the sub-collections that an activation has gathered.
TrueDirs(dirs) ==
    \A k \in 1..Len(dirs) : Intact(dirs[k].coll) => collOf[dirs[k].id] = dirs[k].coll

\* IntactFrame in these terms.
LEMMA FrameIsTrue ==
    ASSUME NEW f
    PROVE  f \in IntactFrame <=>
              /\ f \in Frame
              /\ Intact(f.coll) => collOf[f.id] = f.coll
              /\ TrueDirs(f.dirs)
              /\ \A r \in f.page \cup f.rest : TrueRow(f.fn, r)
BY DEF IntactFrame, TrueRow, TrueDirs

\* Rows that a query returns now.
LEMMA NewRowsTrue ==
    ASSUME WalkTypeOK, TouchedOK, NEW f \in IntactFrame, NEW r \in Rows(f)
    PROVE  TrueRow(f.fn, r)
<1>1. f \in Frame /\ (Intact(f.coll) => collOf[f.id] = f.coll)
  BY FrameIsTrue
<1>2. f.coll \in Coll /\ f.id \in CollId /\ f.fn \in {"dirColl", "dirDataObj"}
  BY <1>1 DEF Frame
<1>3. QueryOf(r) = f.fn
  BY <1>1, RowsAre
<1>4. CASE f.fn = "dirColl"
  <2>1. PICK id \in CollId :
           r = [coll |-> collOf[id], id |-> id, base |-> NoBase, size |-> 0, mtime |-> 0]
    BY <1>4 DEF Rows, CollRows
  <2>2. QED
    BY <1>3, <1>4, <2>1 DEF TrueRow
<1>5. CASE f.fn = "dirDataObj"
  <2>1. PICK b \in Base : \E q \in GoodReplicas(f.id, b) :
           r = [coll |-> f.coll, id |-> f.id, base |-> b, size |-> q.size, mtime |-> q.mtime]
    BY <1>5 DEF Rows, DataRows
  <2>2. PICK q \in GoodReplicas(f.id, b) :
           r = [coll |-> f.coll, id |-> f.id, base |-> b, size |-> q.size, mtime |-> q.mtime]
    BY <2>1
  <2>3. r.base = b /\ r.size = q.size /\ r.coll = f.coll /\ NameOf(r) = [coll |-> f.coll, base |-> b]
    BY <2>2 DEF NameOf
  <2>4. NameOf(r) \notin touched => Intact(f.coll)
    BY <1>2, <2>3 DEF TouchedOK
  <2>5. NameOf(r) \notin touched => Readable(r.coll, r.base, r.size)
    BY <1>1, <1>2, <2>2, <2>3, <2>4 DEF Readable
  <2>6. QED
    BY <1>3, <1>5, <2>5 DEF TrueRow
<1>6. QED
  BY <1>2, <1>4, <1>5

\* The steps of the walk add nothing that is not true.
LEMMA IntactClosed == ASSUME WalkTypeOK, TouchedOK PROVE Closed(IntactFrame)
<1>1. \A f \in IntactFrame :
         /\ f \in Frame
         /\ Intact(f.coll) => collOf[f.id] = f.coll
         /\ TrueDirs(f.dirs)
         /\ \A r \in f.page \cup f.rest : TrueRow(f.fn, r)
  BY FrameIsTrue
<1>2. \A f \in IntactFrame : \A r \in Pending(f) : TrueRow(f.fn, r)
  BY <1>1, NewRowsTrue DEF Pending
<1>3. ASSUME NEW f \in IntactFrame, NEW page \in SUBSET Pending(f)
      PROVE  Fetched(f, page) \in IntactFrame
  <2> DEFINE g == Fetched(f, page)
             open == Cardinality(page) = PageSize
  <2>1. open \in BOOLEAN
    OBVIOUS
  <2>2. \A r \in Pending(f) : r \in Row
    BY <1>1, RowsOK DEF Pending, Frame
  <2>3. page \in SUBSET Row /\ Pending(f) \ page \in SUBSET Row
    BY <2>2
  <2>4. g = [f EXCEPT !.phase = "attr", !.page = page, !.rest = Pending(f) \ page, !.cont = open]
    BY DEF Fetched
  <2> HIDE DEF open
  <2>5. g \in Frame
    BY <1>1, <2>1, <2>3, <2>4 DEF Frame
  <2>6. /\ g.fn = f.fn /\ g.coll = f.coll /\ g.id = f.id /\ g.dirs = f.dirs
        /\ g.page = page /\ g.rest = Pending(f) \ page
    BY <1>1, <2>4 DEF Frame
  <2> HIDE DEF g
  <2>7. \A r \in g.page \cup g.rest : TrueRow(g.fn, r)
    BY <1>2, <2>6
  <2>8. g \in IntactFrame
    BY <1>1, <2>5, <2>6, <2>7, FrameIsTrue
  <2>9. QED
    BY <2>8 DEF g
<1>4. ASSUME NEW f \in IntactFrame PROVE [f EXCEPT !.phase = "acl"] \in IntactFrame
  <2> DEFINE g == [f EXCEPT !.phase = "acl"]
  <2>1. /\ g \in Frame
        /\ g.fn = f.fn /\ g.coll = f.coll /\ g.id = f.id /\ g.dirs = f.dirs
        /\ g.page = f.page /\ g.rest = f.rest
    BY <1>1 DEF Frame
  <2> HIDE DEF g
  <2>2. g \in IntactFrame
    BY <1>1, <2>1, FrameIsTrue
  <2>3. QED
    BY <2>2 DEF g
<1>5. ASSUME NEW f \in IntactFrame, NEW r \in f.page PROVE Handled(f, r) \in IntactFrame
  <2> DEFINE d == [coll |-> r.coll, id |-> r.id]
             dirs == IF f.fn = "dirColl" THEN Append(f.dirs, d) ELSE f.dirs
             phase == IF f.page \ {r} # {} THEN "attr" ELSE "query"
             g == Handled(f, r)
  <2>1. f \in Frame /\ r \in Row /\ f.dirs \in Seq(Dir) /\ f.page \ {r} \in SUBSET Row
    BY <1>1 DEF Frame
  <2>2. d \in Dir /\ d.coll = r.coll /\ d.id = r.id
    BY <2>1 DEF Row, Dir
  <2>3. dirs \in Seq(Dir) /\ phase \in {"query", "attr", "acl"}
    BY <2>1, <2>2
  <2>4. g = [f EXCEPT !.page = f.page \ {r}, !.dirs = dirs, !.phase = phase]
    BY DEF Handled
  <2>5. TrueDirs(dirs)
    <3>1. CASE f.fn = "dirColl"
      <4>1. /\ Len(dirs) = Len(f.dirs) + 1 /\ dirs[Len(f.dirs) + 1] = d
            /\ \A k \in 1..Len(f.dirs) : dirs[k] = f.dirs[k]
        BY <2>1, <2>2, <3>1
      <4>2. TrueRow("dirColl", r)
        BY <1>1, <3>1
      <4>3. r.base = NoBase
        BY <4>2 DEF TrueRow, QueryOf
      <4>4. Intact(d.coll) => collOf[d.id] = d.coll
        BY <2>2, <4>2, <4>3 DEF TrueRow, NameOf, Intact
      <4>5. TrueDirs(f.dirs)
        BY <1>1
      <4> HIDE DEF dirs, d
      <4>6. QED
        BY <2>1, <4>1, <4>4, <4>5 DEF TrueDirs
    <3>2. CASE f.fn # "dirColl"
      BY <1>1, <3>2
    <3>3. QED
      BY <3>1, <3>2
  <2> HIDE DEF dirs, phase, d
  <2>6. /\ g.fn = f.fn /\ g.coll = f.coll /\ g.id = f.id /\ g.dirs = dirs
        /\ g.page = f.page \ {r} /\ g.rest = f.rest
    BY <2>1, <2>4 DEF Frame
  <2>7. g \in Frame
    BY <2>1, <2>3, <2>4 DEF Frame
  <2> HIDE DEF g
  <2>8. g \in IntactFrame
    BY <1>1, <2>5, <2>6, <2>7, FrameIsTrue
  <2>9. QED
    BY <2>8 DEF g
<1>6. ASSUME NEW f \in IntactFrame, NEW k \in 1..Len(f.dirs), NEW fn \in {"dirColl", "dirDataObj"}
      PROVE  NewFrame(fn, f.dirs[k].coll, f.dirs[k].id) \in IntactFrame
  <2> DEFINE g == NewFrame(fn, f.dirs[k].coll, f.dirs[k].id)
  <2>1. f.dirs[k] \in Dir
    BY <1>1 DEF Frame
  <2>2. f.dirs[k].coll \in Coll /\ f.dirs[k].id \in CollId
    BY <2>1 DEF Dir
  <2>3. g \in Frame
    BY <2>2, NewFrameType
  <2>4. /\ g.page = {} /\ g.rest = {} /\ Len(g.dirs) = 0
        /\ g.coll = f.dirs[k].coll /\ g.id = f.dirs[k].id
    BY DEF NewFrame
  <2>5. Intact(f.dirs[k].coll) => collOf[f.dirs[k].id] = f.dirs[k].coll
    BY <1>1 DEF TrueDirs
  <2> HIDE DEF g
  <2>6. TrueDirs(g.dirs)
    BY <2>4 DEF TrueDirs
  <2>7. g \in IntactFrame
    BY <2>3, <2>4, <2>5, <2>6, FrameIsTrue
  <2>8. QED
    BY <2>7 DEF g
<1>7. QED
  BY <1>3, <1>4, <1>5, <1>6 DEF Closed

\* What the walk appends to the list is true as well.
LEMMA WalkListsIntact ==
    ASSUME ListingInv, stack \in Seq(IntactFrame), list \in Seq(IntactItem), WalkStep
    PROVE  list' \in Seq(IntactItem)
<1>1. CASE ~AddRow
  BY <1>1 DEF WalkStep, FetchPage, NoMoreRows, QueryFails, AttrPage, AttrDone, AclPage
<1>2. CASE AddRow
  <2> DEFINE f == Head(stack)
  <2>1. stack # <<>>
    BY <1>2 DEF AddRow, Running
  <2>2. f \in IntactFrame /\ f \in Frame /\ FrameOK(f, list)
    <3>1. f \in IntactFrame
      BY <2>1
    <3>2. QED
      BY <2>1, <3>1, HeadOK DEF ListingInv
  <2>3. PICK r \in f.page : IF f.fn = "dirColl" THEN addColl(r) ELSE addDataObj(r)
    BY <1>2 DEF AddRow
  <2> HIDE DEF f
  <2>4. TrueRow(f.fn, r) /\ r \in Row /\ f.fn \in {"dirColl", "dirDataObj"}
    BY <2>2, <2>3, FrameIsTrue DEF Frame
  <2>5. /\ f.fn = "dirColl" => CollItem(r.coll) \in Item
        /\ f.fn # "dirColl" => DataItem(r.coll, r.base, r.size) \in Item
    BY <2>2, <2>3, ItemOfRow DEF ListingInv
  <2>6. CASE f.fn = "dirColl"
    <3> DEFINE e == CollItem(r.coll)
    <3>1. list' = Append(list, e)
      BY <2>3, <2>6 DEF addColl
    <3>2. e.type = "coll" /\ e.coll = r.coll /\ NameOf(e) = NameOf(r)
      <4>1. r.base = NoBase
        BY <2>4, <2>6 DEF TrueRow, QueryOf
      <4>2. QED
        BY <4>1 DEF CollItem, NameOf
    <3>3. NameOf(r) \notin touched => PathTaken(r.coll)
      BY <2>4, <2>6 DEF TrueRow, PathTaken, Row
    <3> HIDE DEF e
    <3>4. e \in IntactItem
      BY <2>5, <2>6, <3>2, <3>3 DEF IntactItem, e
    <3>5. QED
      BY <3>1, <3>4
  <2>7. CASE f.fn = "dirDataObj"
    <3> DEFINE e == DataItem(r.coll, r.base, r.size)
    <3>1. list' = Append(list, e) \/ list' = list
      BY <2>3, <2>7 DEF addDataObj
    <3>2. e.type = "dataObj" /\ e.coll = r.coll /\ e.base = r.base /\ e.size = r.size /\ NameOf(e) = NameOf(r)
      BY DEF DataItem, NameOf
    <3>3. NameOf(r) \notin touched => Readable(r.coll, r.base, r.size)
      BY <2>4, <2>7 DEF TrueRow
    <3> HIDE DEF e
    <3>4. e \in IntactItem
      BY <2>5, <2>7, <3>2, <3>3 DEF IntactItem, e
    <3>5. QED
      BY <3>1, <3>4
  <2>8. QED
    BY <2>4, <2>6, <2>7
<1>3. QED
  BY <1>1, <1>2

\* What is true of the catalog stays true while it does not change.
LEMMA IntactSame ==
    ASSUME UNCHANGED <<collOf, repl, touched>>
    PROVE  IntactFrame' = IntactFrame /\ IntactItem' = IntactItem
<1>1. \A c, b, s : Readable(c, b, s)' <=> Readable(c, b, s)
  BY DEF Readable, GoodReplicas
<1>2. (\A c : Intact(c)' <=> Intact(c)) /\ (\A c : PathTaken(c)' <=> PathTaken(c))
  BY DEF Intact, PathTaken
<1>3. QED
  BY <1>1, <1>2 DEF IntactFrame, IntactItem

\* When another agent changes it, there may be less to be true.
LEMMA ReadableStays ==
    ASSUME Editing, NEW c \in Coll, NEW b \in Base, [coll |-> c, base |-> b] \notin touched',
           NEW s, Readable(c, b, s)
    PROVE  Readable(c, b, s)'
<1>1. /\ \A id \in CollId : collOf'[id] = c <=> collOf[id] = c
      /\ \A id \in CollId : collOf[id] = c => repl'[id][b] = repl[id][b]
  BY SameObj
<1>2. PICK id \in CollId : collOf[id] = c /\ \E q \in GoodReplicas(id, b) : q.size = s
  BY DEF Readable
<1>3. collOf'[id] = c /\ repl'[id][b] = repl[id][b]
  BY <1>1, <1>2
<1>4. QED
  BY <1>2, <1>3 DEF Readable, GoodReplicas

\* Changes by other agents leave it true.
LEMMA IntactEdited ==
    ASSUME ListingInv, stack \in Seq(IntactFrame), list \in Seq(IntactItem), Editing
    PROVE  stack' \in Seq(IntactFrame') /\ list' \in Seq(IntactItem')
<1>1. stack' = stack /\ list' = list
  BY DEF Editing, walkVars
<1>2. ASSUME NEW c \in Coll, NEW id \in CollId, Intact(c) => collOf[id] = c, Intact(c)'
      PROVE  collOf'[id] = c
  BY <1>2, SameColl DEF Intact
<1>3. ASSUME NEW f \in IntactFrame, f \in SoundFrame PROVE f \in IntactFrame'
  <2>1. /\ f \in Frame
        /\ Intact(f.coll) => collOf[f.id] = f.coll
        /\ TrueDirs(f.dirs)
        /\ \A r \in f.page \cup f.rest : TrueRow(f.fn, r)
        /\ f.fn = "dirDataObj" => \A r \in f.page \cup f.rest : r.base \in Base
    BY <1>3, FrameIsTrue DEF SoundFrame
  <2>2. f.coll \in Coll /\ f.id \in CollId /\ f.page \cup f.rest \subseteq Row /\ f.dirs \in Seq(Dir)
        /\ f.fn \in {"dirColl", "dirDataObj"}
    BY <2>1 DEF Frame
  <2>3. Intact(f.coll)' => collOf'[f.id] = f.coll
    BY <1>2, <2>1, <2>2
  <2>4. ASSUME NEW k \in 1..Len(f.dirs), Intact(f.dirs[k].coll)'
        PROVE  collOf'[f.dirs[k].id] = f.dirs[k].coll
    <3>1. f.dirs[k] \in Dir
      BY <2>2
    <3>2. f.dirs[k].coll \in Coll /\ f.dirs[k].id \in CollId
      BY <3>1 DEF Dir
    <3>3. Intact(f.dirs[k].coll) => collOf[f.dirs[k].id] = f.dirs[k].coll
      BY <2>1 DEF TrueDirs
    <3>4. QED
      BY <1>2, <2>4, <3>2, <3>3
  <2>5. ASSUME NEW r \in f.page \cup f.rest
        PROVE  /\ QueryOf(r) = f.fn
               /\ NameOf(r) \notin touched' =>
                     IF f.fn = "dirColl" THEN collOf'[r.id] = r.coll
                                         ELSE Readable(r.coll, r.base, r.size)'
    <3>1. TrueRow(f.fn, r) /\ r \in Row
      BY <2>1, <2>2
    <3>2. QueryOf(r) = f.fn /\ r.coll \in Coll /\ r.id \in CollId
      BY <3>1 DEF TrueRow, Row
    <3>3. CASE f.fn = "dirColl"
      <4>1. NameOf(r) = [coll |-> r.coll, base |-> NoBase]
        BY <3>2, <3>3 DEF NameOf, QueryOf
      <4>2. Intact(r.coll) => collOf[r.id] = r.coll
        BY <3>1, <3>3, <4>1 DEF TrueRow, Intact
      <4>3. NameOf(r) \notin touched' => Intact(r.coll)'
        BY <4>1 DEF Intact
      <4>4. QED
        BY <1>2, <3>2, <3>3, <4>2, <4>3
    <3>4. CASE f.fn = "dirDataObj"
      <4>1. r.base \in Base /\ NameOf(r) = [coll |-> r.coll, base |-> r.base]
        BY <2>1, <3>4 DEF NameOf
      <4>2. ASSUME NameOf(r) \notin touched' PROVE Readable(r.coll, r.base, r.size)'
        <5>1. NameOf(r) \notin touched
          BY <3>2, <4>1, <4>2, SameObj
        <5>2. Readable(r.coll, r.base, r.size)
          BY <3>1, <3>4, <5>1 DEF TrueRow
        <5>3. QED
          BY <3>2, <4>1, <4>2, <5>2, ReadableStays
      <4>3. QED
        BY <3>2, <3>4, <4>2
    <3>5. QED
      BY <2>2, <3>3, <3>4
  <2>6. QED
    BY <2>1, <2>3, <2>4, <2>5 DEF IntactFrame
<1>4. ASSUME NEW i \in IntactItem, i \in SoundItem PROVE i \in IntactItem'
  <2>1. /\ i \in Item /\ i.coll \in Coll /\ i.type \in {"coll", "dataObj"}
        /\ i.type = "coll" => i = CollItem(i.coll)
        /\ i.type = "dataObj" => i.base \in Base
        /\ NameOf(i) = [coll |-> i.coll, base |-> i.base]
    BY <1>4 DEF SoundItem, Item, NameOf
  <2>2. CASE i.type = "coll"
    <3>1. i.base = NoBase
      BY <2>1, <2>2 DEF CollItem
    <3>2. ASSUME NameOf(i) \notin touched' PROVE PathTaken(i.coll)'
      <4>1. Intact(i.coll) /\ \A id \in CollId : collOf'[id] = i.coll <=> collOf[id] = i.coll
        BY <2>1, <3>1, <3>2, SameColl
      <4>2. PathTaken(i.coll)
        BY <1>4, <2>1, <2>2, <3>1, <4>1 DEF IntactItem, Intact
      <4>3. QED
        BY <4>1, <4>2 DEF PathTaken
    <3>3. QED
      BY <2>1, <2>2, <3>2 DEF IntactItem
  <2>3. CASE i.type = "dataObj"
    <3>1. ASSUME NameOf(i) \notin touched' PROVE Readable(i.coll, i.base, i.size)'
      <4>1. NameOf(i) \notin touched
        BY <2>1, <2>3, <3>1, SameObj
      <4>2. Readable(i.coll, i.base, i.size)
        BY <1>4, <2>3, <4>1 DEF IntactItem
      <4>3. QED
        BY <2>1, <2>3, <3>1, <4>2, ReadableStays
    <3>2. QED
      BY <2>1, <2>3, <3>1 DEF IntactItem
  <2>4. QED
    BY <2>1, <2>2, <2>3
<1>5. /\ \A k \in 1..Len(stack) : stack[k] \in IntactFrame /\ stack[k] \in SoundFrame
      /\ \A k \in 1..Len(list) : list[k] \in IntactItem /\ list[k] \in SoundItem
  BY DEF ListingInv
<1>6. (\A k \in 1..Len(stack) : stack[k] \in IntactFrame') /\ (\A k \in 1..Len(list) : list[k] \in IntactItem')
  BY <1>3, <1>4, <1>5
<1>7. stack \in Seq(IntactFrame') /\ list \in Seq(IntactItem')
  <2>1. Len(stack) \in Nat /\ Len(list) \in Nat
    OBVIOUS
  <2>2. stack = [k \in 1..Len(stack) |-> stack[k]] /\ list = [k \in 1..Len(list) |-> list[k]]
    OBVIOUS
  <2>3. QED
    BY <1>6, <2>1, <2>2
<1>8. QED
  BY <1>1, <1>7

-----------------------------------------------------------------------------
(* The stack of the walk.                                                  *)

\* Activations that have not run are in order, and so is one that is put in
\* front of them.
LEMMA WaitingTidy ==
    ASSUME NEW stk \in Seq(Frame), Waiting(stk)
    PROVE  TidyStack(stk)
<1> SUFFICES ASSUME stk # <<>> PROVE Tidy(Head(stk)) /\ Waiting(Tail(stk))
  BY DEF TidyStack
<1>1. /\ Len(stk) \in Nat /\ Len(stk) >= 1 /\ Head(stk) = stk[1]
      /\ Len(Tail(stk)) = Len(stk) - 1 /\ \A k \in 1..Len(Tail(stk)) : Tail(stk)[k] = stk[k + 1]
  OBVIOUS
<1>2. 1 \in 1..Len(stk) /\ \A k \in 1..Len(Tail(stk)) : k + 1 \in 1..Len(stk)
  BY <1>1
<1>3. QED
  BY <1>1, <1>2 DEF Waiting, Tidy, Fresh

\* A running activation in order, in front of some that have not run.
LEMMA HeadTidy ==
    ASSUME NEW g \in Frame, NEW rest \in Seq(Frame), Tidy(g), Waiting(rest)
    PROVE  TidyStack(<<g>> \o rest)
<1>1. Head(<<g>> \o rest) = g /\ Tail(<<g>> \o rest) = rest
  OBVIOUS
<1>2. QED
  BY <1>1 DEF TidyStack

\* The calls at the end of an activation, too.
LEMMA AfterLoopTidy ==
    ASSUME NEW f \in Frame, NEW rest \in Seq(Frame), Waiting(rest), AfterLoop(f, rest) \in Seq(Frame)
    PROVE  TidyStack(AfterLoop(f, rest))
<1> DEFINE new == AfterLoop(f, rest)
           n == Len(f.dirs)
<1>1. /\ \A m \in 1..n :
            /\ 2 * m - 1 \in 1..Len(new) /\ 2 * m \in 1..Len(new)
            /\ new[2 * m - 1] = NewFrame("dirColl", f.dirs[m].coll, f.dirs[m].id)
            /\ new[2 * m] = NewFrame("dirDataObj", f.dirs[m].coll, f.dirs[m].id)
      /\ \A k \in 1..Len(rest) : 2 * n + k \in 1..Len(new) /\ new[2 * n + k] = rest[k]
      /\ \A k \in 1..Len(new) :
            \/ \E m \in 1..n : k = 2 * m - 1 \/ k = 2 * m
            \/ \E j \in 1..Len(rest) : k = 2 * n + j
  BY AfterLoopAt
<1>2. \A fn, c, id : Fresh(NewFrame(fn, c, id))
  BY DEF Fresh, NewFrame
<1> HIDE DEF new
<1>3. ASSUME NEW k \in 1..Len(new) PROVE Fresh(new[k])
  <2>1. CASE \E m \in 1..n : k = 2 * m - 1 \/ k = 2 * m
    <3>1. PICK m \in 1..n : k = 2 * m - 1 \/ k = 2 * m
      BY <2>1
    <3>2. \/ new[k] = NewFrame("dirColl", f.dirs[m].coll, f.dirs[m].id)
          \/ new[k] = NewFrame("dirDataObj", f.dirs[m].coll, f.dirs[m].id)
      BY <1>1, <3>1
    <3>3. QED
      BY <1>2, <3>2
  <2>2. CASE \E j \in 1..Len(rest) : k = 2 * n + j
    <3>1. PICK j \in 1..Len(rest) : k = 2 * n + j
      BY <2>2
    <3>2. new[k] = rest[j]
      BY <1>1, <3>1
    <3>3. QED
      BY <3>2 DEF Waiting
  <2>3. QED
    BY <1>1, <2>1, <2>2
<1>4. Waiting(new)
  BY <1>3 DEF Waiting
<1>5. QED
  BY <1>4, WaitingTidy DEF new

\* The activation that AddRow leaves, and where it will go.
LEMMA HandledIs ==
    ASSUME NEW f \in Frame, NEW r \in f.page
    PROVE  /\ Handled(f, r).fn = f.fn /\ Handled(f, r).coll = f.coll /\ Handled(f, r).id = f.id
           /\ Handled(f, r).page = f.page \ {r} /\ Handled(f, r).rest = f.rest
           /\ Handled(f, r).cont = f.cont
           /\ Handled(f, r).phase = IF f.page \ {r} # {} THEN "attr" ELSE "query"
           /\ \A c : Visits(f, c) => Visits(Handled(f, r), c)
           /\ f.fn = "dirColl" => Visits(Handled(f, r), r.coll)
<1> DEFINE g == Handled(f, r)
           d == [coll |-> r.coll, id |-> r.id]
<1>1. /\ g.fn = f.fn /\ g.coll = f.coll /\ g.id = f.id
      /\ g.page = f.page \ {r} /\ g.rest = f.rest /\ g.cont = f.cont
      /\ g.phase = IF f.page \ {r} # {} THEN "attr" ELSE "query"
      /\ f.fn # "dirColl" => g.dirs = f.dirs
      /\ f.fn = "dirColl" => g.dirs = Append(f.dirs, d)
  <2>1. g.id = f.id
    BY DEF Handled, Frame
  <2>2. QED
    BY <2>1, HandledParts
<1>2. f.dirs \in Seq(Dir) /\ Len(f.dirs) \in Nat /\ d.coll = r.coll
  BY DEF Frame
<1> HIDE DEF g, d
<1>3. CASE f.fn # "dirColl"
  BY <1>1, <1>3 DEF Visits, g
<1>4. CASE f.fn = "dirColl"
  <2>1. /\ Len(g.dirs) = Len(f.dirs) + 1 /\ g.dirs[Len(f.dirs) + 1] = d
        /\ \A m \in 1..Len(f.dirs) : g.dirs[m] = f.dirs[m]
    BY <1>1, <1>2, <1>4
  <2>2. Len(f.dirs) + 1 \in 1..Len(g.dirs) /\ \A m \in 1..Len(f.dirs) : m \in 1..Len(g.dirs)
    BY <1>2, <2>1
  <2>3. Visits(g, r.coll)
    BY <1>2, <2>1, <2>2 DEF Visits
  <2>4. \A c : Visits(f, c) => Visits(g, c)
    BY <2>1, <2>2 DEF Visits
  <2>5. QED
    BY <1>1, <2>3, <2>4 DEF g
<1>5. QED
  BY <1>3, <1>4

\* What AddRow does.
LEMMA AddRowIs ==
    ASSUME WalkInv, AddRow
    PROVE  /\ stack # <<>> /\ Head(stack).phase = "acl"
           /\ \E r \in Head(stack).page :
                 /\ IF Head(stack).fn = "dirColl" THEN addColl(r) ELSE addDataObj(r)
                 /\ Handled(Head(stack), r) \in Frame
                 /\ stack' = IF Head(stack).page = {r} /\ ~Head(stack).cont
                             THEN AfterLoop(Handled(Head(stack), r), Tail(stack))
                             ELSE <<Handled(Head(stack), r)>> \o Tail(stack)
<1> DEFINE f == Head(stack)
<1>1. stack # <<>> /\ f.phase = "acl"
  BY DEF AddRow, Running
<1>2. PICK r \in f.page :
         /\ IF f.fn = "dirColl" THEN addColl(r) ELSE addDataObj(r)
         /\ stack' = AfterRow(f, r)
  BY DEF AddRow
<1>3. f \in Frame /\ FrameOK(f, list)
  BY <1>1, HeadOK
<1>4. Handled(f, r) \in Frame
  <2>1. FrameOK(f, list') /\ (f.fn = "dirColl" => ListedIn(list', Len(list'), r.coll))
    BY <1>2, <1>3, ListStep
  <2>2. QED
    BY <1>2, <1>3, <2>1, HandledOK
<1>5. QED
  BY <1>1, <1>2, <1>4 DEF AfterRow

\* The steps of the walk keep the stack in order.
LEMMA TidyWalk ==
    ASSUME WalkInv, TidyStack(stack), WalkStep, stack' \in Seq(Frame)
    PROVE  TidyStack(stack')
<1> DEFINE f == Head(stack)
           rest == Tail(stack)
<1>1. stack \in Seq(Frame)
  BY DEF WalkInv, WalkTypeOK
<1>2. stack # <<>> => f \in Frame /\ rest \in Seq(Frame) /\ Tidy(f) /\ Waiting(rest)
  BY <1>1 DEF TidyStack
<1> HIDE DEF f, rest
<1>3. ASSUME NEW g, stack # <<>>, stack' = <<g>> \o rest, Tidy(g) PROVE TidyStack(stack')
  <2>1. g \in Frame
    <3>1. stack'[1] = g /\ 1 \in 1..Len(stack')
      BY <1>2, <1>3
    <3>2. QED
      BY <3>1
  <2>2. QED
    BY <1>2, <1>3, <2>1, HeadTidy
<1>4. CASE FetchPage
  <2>1. PICK page \in SUBSET Pending(f) : IsPage(page, Pending(f)) /\ stack' = <<Fetched(f, page)>> \o rest
    BY <1>4 DEF FetchPage, f, rest
  <2> DEFINE g == Fetched(f, page)
  <2>2. stack # <<>>
    BY <1>4 DEF FetchPage, Running
  <2>3. g.phase = "attr" /\ g.rest = Pending(f) \ page /\ g.cont = (Cardinality(page) = PageSize)
    BY <1>2, <2>2 DEF Fetched, Frame
  <2> HIDE DEF g
  <2>4. Tidy(g)
    BY <2>1, <2>3 DEF Tidy, IsPage
  <2>5. QED
    BY <1>3, <2>1, <2>2, <2>4 DEF g
<1>5. CASE NoMoreRows \/ QueryFails
  <2>1. stack # <<>> /\ stack' = AfterLoop(f, rest)
    BY <1>5 DEF NoMoreRows, QueryFails, Running, f, rest
  <2>2. QED
    BY <1>2, <2>1, AfterLoopTidy
<1>6. CASE AttrDone
  <2> DEFINE g == [f EXCEPT !.phase = "acl"]
  <2>1. stack # <<>> /\ f.phase = "attr" /\ stack' = <<g>> \o rest
    BY <1>6 DEF AttrDone, Running, f, rest
  <2>2. g.phase = "acl" /\ g.rest = f.rest /\ g.cont = f.cont
    BY <1>2, <2>1 DEF Frame
  <2> HIDE DEF g
  <2>3. Tidy(g)
    BY <1>2, <2>1, <2>2 DEF Tidy
  <2>4. QED
    BY <1>3, <2>1, <2>3
<1>7. CASE AddRow
  <2>1. stack # <<>> /\ f.phase = "acl"
    BY <1>7, AddRowIs DEF f
  <2>2. PICK r \in f.page :
           /\ Handled(f, r) \in Frame
           /\ stack' = IF f.page = {r} /\ ~f.cont
                       THEN AfterLoop(Handled(f, r), rest) ELSE <<Handled(f, r)>> \o rest
    BY <1>7, AddRowIs DEF f, rest
  <2> DEFINE g == Handled(f, r)
  <2>3. /\ g.page = f.page \ {r} /\ g.rest = f.rest /\ g.cont = f.cont
        /\ g.phase = IF f.page \ {r} # {} THEN "attr" ELSE "query"
    BY <1>2, <2>1, HandledIs
  <2>5. CASE f.page = {r} /\ ~f.cont
    <3>1. stack' = AfterLoop(g, rest) /\ g \in Frame
      BY <2>2, <2>5
    <3> HIDE DEF g
    <3>3. QED
      BY <1>2, <2>1, <3>1, AfterLoopTidy
  <2>6. CASE ~(f.page = {r} /\ ~f.cont)
    <3>1. stack' = <<g>> \o rest
      BY <2>2, <2>6
    <3> HIDE DEF g
    <3>2. Tidy(g)
      BY <1>2, <2>1, <2>2, <2>3, <2>6 DEF Tidy
    <3>3. QED
      BY <1>3, <2>1, <3>1, <3>2
  <2>7. QED
    BY <2>5, <2>6
<1>8. CASE AttrPage \/ AclPage
  BY <1>8 DEF AttrPage, AclPage
<1>9. QED
  BY <1>4, <1>5, <1>6, <1>7, <1>8 DEF WalkStep

-----------------------------------------------------------------------------
(* Every name that nobody touched is listed, or will be.                   *)

\* A name in hand is that of a row in hand.
LEMMA HeldNameIs ==
    ASSUME NEW stk, NEW name
    PROVE  HeldName(stk, name) <=> \E r : Held(stk, r) /\ NameOf(r) = name
BY DEF HeldName, Held

\* A name of the archived collection that nobody has touched is found by the
\* query of an activation on the collection it lies in.
LEMMA NameHasRow ==
    ASSUME WalkTypeOK, Rooted, TouchedOK, NEW f \in IntactFrame,
           NEW name \in Archivable \ touched,
           f.fn = QueryOf(name), f.coll = Within(name)
    PROVE  \E r \in Rows(f) : NameOf(r) = name
<1>1. f \in Frame /\ (Intact(f.coll) => collOf[f.id] = f.coll)
  BY FrameIsTrue
<1>2. name \in Name /\ name.coll \in Coll /\ name = [coll |-> name.coll, base |-> name.base]
  BY DEF Archivable, Name
<1>3. f.id \in CollId
  BY <1>1 DEF Frame
<1>4. CASE name.base = NoBase
  <2>1. PICK id \in CollId : collOf[id] = name.coll /\ name.coll # Root
    BY <1>4 DEF Archivable, PathTaken
  <2> DEFINE r == [coll |-> collOf[id], id |-> id, base |-> NoBase, size |-> 0, mtime |-> 0]
  <2>2. f.fn = "dirColl" /\ f.coll = ParentOf[name.coll]
    BY <1>4 DEF QueryOf, Within
  <2>3. r \in Rows(f)
    BY <1>2, <2>1, <2>2 DEF Rows, CollRows
  <2>4. NameOf(r) = name
    BY <1>2, <1>4, <2>1 DEF NameOf
  <2>5. QED
    BY <2>3, <2>4
<1>5. CASE name.base # NoBase
  <2>1. name.base \in Base
    BY <1>2, <1>5 DEF Name
  <2>2. PICK id \in CollId : collOf[id] = name.coll /\ GoodReplicas(id, name.base) # {}
    BY <1>5 DEF Archivable
  <2>3. f.fn = "dirDataObj" /\ f.coll = name.coll
    BY <1>5 DEF QueryOf, Within
  <2>4. Intact(name.coll)
    BY <1>2, <2>1 DEF TouchedOK
  <2>5. f.id = id
    BY <1>1, <1>2, <1>3, <2>2, <2>3, <2>4, CatalogAssumption DEF Rooted, UniquePaths
  <2>6. PICK q \in GoodReplicas(f.id, name.base) : TRUE
    BY <2>2, <2>5
  <2> DEFINE r == [coll |-> f.coll, id |-> f.id, base |-> name.base, size |-> q.size, mtime |-> q.mtime]
  <2>7. r \in Rows(f)
    BY <2>1, <2>3, <2>6 DEF Rows, DataRows
  <2>8. NameOf(r) = name
    BY <1>2, <2>3 DEF NameOf
  <2>9. QED
    BY <2>7, <2>8
<1>6. QED
  BY <1>4, <1>5

\* No name gets lost when a page arrives,
LEMMA FetchCovers ==
    ASSUME WalkInv, Rooted, TouchedOK, stack \in Seq(IntactFrame), TidyStack(stack),
           FetchPage, stack' \in Seq(Frame),
           NEW name \in Archivable \ touched, Covered(stack, list, name)
    PROVE  Covered(stack', list', name)
<1> DEFINE f == Head(stack)
           rest == Tail(stack)
<1>1. stack # <<>> /\ f.phase = "query" /\ list' = list
  BY DEF FetchPage, Running
<1>2. PICK page \in SUBSET Pending(f) : stack' = <<Fetched(f, page)>> \o rest
  BY DEF FetchPage
<1>3. stack \in Seq(Frame) /\ f \in Frame /\ rest \in Seq(Frame) /\ f \in IntactFrame /\ Tidy(f)
      /\ WalkTypeOK
  BY <1>1 DEF WalkInv, WalkTypeOK, TidyStack
<1> DEFINE g == Fetched(f, page)
<1>4. /\ g.fn = f.fn /\ g.coll = f.coll /\ g.dirs = f.dirs /\ g.phase = "attr"
      /\ g.page = page /\ g.rest = Pending(f) \ page
  BY <1>3 DEF Fetched, Frame
<1>5. g \in Frame
  <2>1. stack'[1] = g /\ 1 \in 1..Len(stack')
    BY <1>2, <1>3
  <2>2. QED
    BY <2>1
<1>6. \A r : r \in g.page \cup g.rest <=> r \in Pending(f)
  BY <1>2, <1>4
<1>7. stack' = <<g>> \o rest
  BY <1>2
<1> HIDE DEF f, g, rest
<1>8. /\ \A fn, c : Due(stack, fn, c) <=> (DueIn(f, fn, c) \/ Due(rest, fn, c))
      /\ \A r : Held(stack, r) <=> (r \in f.page \cup f.rest \/ Held(rest, r))
  BY <1>1, <1>3, DueByHead DEF f, rest
<1>9. /\ \A fn, c : Due(stack', fn, c) <=> (DueIn(g, fn, c) \/ Due(rest, fn, c))
      /\ \A r : Held(stack', r) <=> (r \in g.page \cup g.rest \/ Held(rest, r))
  BY <1>3, <1>5, <1>7, ConsDue
<1>10. \A r : Held(stack, r) => Held(stack', r)
  BY <1>1, <1>3, <1>6, <1>8, <1>9 DEF Tidy, Fresh, Pending
<1>11. CASE HeldName(stack, name)
  BY <1>10, <1>11, HeldNameIs DEF Covered
<1>12. CASE Due(stack, QueryOf(name), Within(name))
  <2>1. CASE Fresh(f) /\ f.fn = QueryOf(name) /\ f.coll = Within(name)
    <3>1. PICK r \in Rows(f) : NameOf(r) = name
      BY <1>3, <2>1, NameHasRow
    <3>2. r \in Pending(f)
      BY <2>1, <3>1 DEF Fresh, Pending
    <3>3. Held(stack', r)
      BY <1>6, <1>9, <3>2
    <3>4. QED
      BY <3>1, <3>3, HeldNameIs DEF Covered
  <2>2. CASE Visits(f, Within(name))
    BY <1>4, <1>9, <2>2 DEF DueIn, Visits, Covered
  <2>3. CASE Due(rest, QueryOf(name), Within(name))
    BY <1>9, <2>3 DEF Covered
  <2>4. QED
    BY <1>8, <1>12, <2>1, <2>2, <2>3 DEF DueIn
<1>13. CASE Named(list, name) \/ ~Known(list, Within(name))
  BY <1>1, <1>13 DEF Covered
<1>14. QED
  BY <1>11, <1>12, <1>13 DEF Covered

\* when a query has no more rows,
LEMMA LoopEndCovers ==
    ASSUME WalkInv, Rooted, TouchedOK, stack \in Seq(IntactFrame), TidyStack(stack), NoMoreRows,
           NEW name \in Archivable \ touched, Covered(stack, list, name)
    PROVE  Covered(stack', list', name)
<1> DEFINE f == Head(stack)
           rest == Tail(stack)
<1>1. stack # <<>> /\ f.phase = "query" /\ Pending(f) = {} /\ list' = list /\ stack' = AfterLoop(f, rest)
  BY DEF NoMoreRows, Running
<1>2. stack \in Seq(Frame) /\ f \in Frame /\ rest \in Seq(Frame) /\ f \in IntactFrame /\ Tidy(f)
      /\ WalkTypeOK
  BY <1>1 DEF WalkInv, WalkTypeOK, TidyStack
<1> HIDE DEF f, rest
<1>3. /\ \A fn, c : Due(stack, fn, c) <=> (DueIn(f, fn, c) \/ Due(rest, fn, c))
      /\ \A r : Held(stack, r) <=> (r \in f.page \cup f.rest \/ Held(rest, r))
  BY <1>1, <1>2, DueByHead DEF f, rest
<1>4. /\ \A fn \in {"dirColl", "dirDataObj"} : \A c : Due(stack', fn, c) <=> (Visits(f, c) \/ Due(rest, fn, c))
      /\ \A r : Held(stack', r) <=> Held(rest, r)
  BY <1>1, <1>2, AfterLoopDue
<1>5. f.page = {} /\ f.rest = {}
  BY <1>1, <1>2 DEF Tidy, Pending
<1>6. QueryOf(name) \in {"dirColl", "dirDataObj"}
  BY DEF QueryOf
<1>7. CASE HeldName(stack, name)
  BY <1>3, <1>4, <1>5, <1>7, HeldNameIs DEF Covered
<1>8. CASE Due(stack, QueryOf(name), Within(name))
  <2>1. CASE Fresh(f) /\ f.fn = QueryOf(name) /\ f.coll = Within(name)
    <3>1. PICK r \in Rows(f) : NameOf(r) = name
      BY <1>2, <2>1, NameHasRow
    <3>2. QED
      BY <1>1, <2>1, <3>1 DEF Fresh, Pending
  <2>2. CASE Visits(f, Within(name)) \/ Due(rest, QueryOf(name), Within(name))
    BY <1>4, <1>6, <2>2 DEF Covered
  <2>3. QED
    BY <1>3, <1>8, <2>1, <2>2 DEF DueIn
<1>9. CASE Named(list, name) \/ ~Known(list, Within(name))
  BY <1>1, <1>9 DEF Covered
<1>10. QED
  BY <1>7, <1>8, <1>9 DEF Covered

\* when the attributes of a row have been read,
LEMMA AttrDoneCovers ==
    ASSUME WalkInv, AttrDone, stack' \in Seq(Frame), NEW name, Covered(stack, list, name)
    PROVE  Covered(stack', list', name)
<1> DEFINE f == Head(stack)
           rest == Tail(stack)
           g == [f EXCEPT !.phase = "acl"]
<1>1. stack # <<>> /\ f.phase = "attr" /\ list' = list /\ stack' = <<g>> \o rest
  BY DEF AttrDone, Running
<1>2. stack \in Seq(Frame) /\ f \in Frame /\ rest \in Seq(Frame)
  BY <1>1 DEF WalkInv, WalkTypeOK
<1>3. /\ g \in Frame /\ g.fn = f.fn /\ g.coll = f.coll /\ g.dirs = f.dirs
      /\ g.phase = "acl" /\ g.page = f.page /\ g.rest = f.rest
  BY <1>2 DEF Frame
<1> HIDE DEF f, g, rest
<1>4. /\ \A fn, c : Due(stack, fn, c) <=> (DueIn(f, fn, c) \/ Due(rest, fn, c))
      /\ \A r : Held(stack, r) <=> (r \in f.page \cup f.rest \/ Held(rest, r))
  BY <1>1, <1>2, DueByHead DEF f, rest
<1>5. /\ \A fn, c : Due(stack', fn, c) <=> (DueIn(g, fn, c) \/ Due(rest, fn, c))
      /\ \A r : Held(stack', r) <=> (r \in g.page \cup g.rest \/ Held(rest, r))
  BY <1>1, <1>2, <1>3, ConsDue
<1>6. /\ \A fn, c : Due(stack, fn, c) => Due(stack', fn, c)
      /\ \A r : Held(stack, r) => Held(stack', r)
  BY <1>1, <1>3, <1>4, <1>5 DEF DueIn, Visits, Fresh
<1>7. HeldName(stack, name) => HeldName(stack', name)
  BY <1>6, HeldNameIs
<1>8. QED
  BY <1>1, <1>6, <1>7 DEF Covered

\* and when a row has been handled: it has become an item, and what lies in a
\* collection that it names will be visited.
LEMMA AddRowCovers ==
    ASSUME WalkInv, stack \in Seq(IntactFrame), TidyStack(stack), AddRow,
           NEW name \in Archivable \ touched, Covered(stack, list, name)
    PROVE  Covered(stack', list', name)
<1> DEFINE f == Head(stack)
           rest == Tail(stack)
<1>1. stack # <<>> /\ f.phase = "acl"
  BY AddRowIs
<1>2. PICK r \in f.page :
         /\ IF f.fn = "dirColl" THEN addColl(r) ELSE addDataObj(r)
         /\ Handled(f, r) \in Frame
         /\ stack' = IF f.page = {r} /\ ~f.cont
                     THEN AfterLoop(Handled(f, r), rest) ELSE <<Handled(f, r)>> \o rest
  BY AddRowIs
<1>3. /\ stack \in Seq(Frame) /\ f \in Frame /\ rest \in Seq(Frame) /\ f \in IntactFrame
      /\ Tidy(f) /\ Waiting(rest) /\ list \in Seq(Item) /\ FrameOK(f, list)
  BY <1>1, HeadOK DEF WalkInv, WalkTypeOK, TidyStack
<1>4. TrueRow(f.fn, r)
  BY <1>2, <1>3, FrameIsTrue
<1> DEFINE g == Handled(f, r)
<1>5. /\ g.page = f.page \ {r} /\ g.rest = f.rest
      /\ \A c : Visits(f, c) => Visits(g, c)
      /\ f.fn = "dirColl" => Visits(g, r.coll)
  BY <1>2, <1>3, HandledIs
<1>6. /\ QueryOf(r) = f.fn
      /\ list' = IF Listed(r) THEN Append(list, ItemOf(r)) ELSE list
      /\ ItemOf(r) \in Item
  <2>1. QueryOf(r) = f.fn /\ (f.fn = "dirColl" <=> r.base = NoBase)
    BY <1>4 DEF TrueRow, QueryOf
  <2>2. ItemOf(r) \in Item
    BY <1>2, <1>3, <2>1, ItemOfRow DEF ItemOf
  <2>3. CASE f.fn = "dirColl"
    BY <1>2, <2>1, <2>2, <2>3 DEF addColl, Listed, ItemOf
  <2>4. CASE f.fn # "dirColl"
    BY <1>2, <2>1, <2>2, <2>4 DEF addDataObj, Listed, ItemOf
  <2>5. QED
    BY <2>1, <2>2, <2>3, <2>4
<1>7. g \in Frame /\ stack' = IF f.page = {r} /\ ~f.cont THEN AfterLoop(g, rest) ELSE <<g>> \o rest
  BY <1>2
<1> HIDE DEF f, g, rest
<1>8. /\ \A fn, c : Due(stack, fn, c) <=> (DueIn(f, fn, c) \/ Due(rest, fn, c))
      /\ \A q : Held(stack, q) <=> (q \in f.page \cup f.rest \/ Held(rest, q))
  BY <1>1, <1>3, DueByHead DEF f, rest
<1>9. \A q : ~Held(rest, q)
  BY <1>3 DEF Held, Waiting, Fresh
<1>10. /\ \A fn \in {"dirColl", "dirDataObj"} : \A c :
             (Visits(g, c) \/ Due(rest, fn, c)) => Due(stack', fn, c)
       /\ \A q : (Held(stack, q) /\ q # r) => Held(stack', q)
  <2>1. CASE f.page = {r} /\ ~f.cont
    <3>1. stack' = AfterLoop(g, rest)
      BY <1>7, <2>1
    <3>2. \A fn \in {"dirColl", "dirDataObj"} : \A c :
             Due(stack', fn, c) <=> (Visits(g, c) \/ Due(rest, fn, c))
      BY <1>3, <1>7, <3>1, AfterLoopDue
    <3>3. f.rest = {}
      BY <1>3, <2>1 DEF Tidy
    <3>4. QED
      BY <1>8, <1>9, <2>1, <3>2, <3>3
  <2>2. CASE ~(f.page = {r} /\ ~f.cont)
    <3>1. stack' = <<g>> \o rest
      BY <1>7, <2>2
    <3>2. /\ \A fn, c : Due(stack', fn, c) <=> (DueIn(g, fn, c) \/ Due(rest, fn, c))
          /\ \A q : Held(stack', q) <=> (q \in g.page \cup g.rest \/ Held(rest, q))
      BY <1>3, <1>7, <3>1, ConsDue
    <3>3. QED
      BY <1>5, <1>8, <1>9, <3>2 DEF DueIn
  <2>3. QED
    BY <2>1, <2>2
<1>11. QueryOf(name) \in {"dirColl", "dirDataObj"}
  BY DEF QueryOf
<1>12. \A n \in Name : Named(list, n) => Named(list', n)
  <2>1. \A i \in 1..Len(list) : i \in 1..Len(list') /\ list'[i] = list[i]
    BY <1>3, <1>6
  <2>2. QED
    BY <2>1 DEF Named
<1>13. name \in Name
  BY DEF Archivable
<1>14. CASE Named(list, name)
  BY <1>12, <1>13, <1>14 DEF Covered
<1>15. CASE HeldName(stack, name)
  <2>1. PICK q : Held(stack, q) /\ NameOf(q) = name
    BY <1>15, HeldNameIs
  <2>2. CASE q # r
    BY <1>10, <2>1, <2>2, HeldNameIs DEF Covered
  <2>3. CASE q = r
    <3>1. NameOf(ItemOf(r)) = name
      BY <2>1, <2>3 DEF NameOf, ItemOf, CollItem, DataItem
    <3>2. Listed(r)
      <4>1. name.coll = r.coll /\ name.base = r.base /\ NameOf(r) = [coll |-> r.coll, base |-> r.base]
        BY <2>1, <2>3 DEF NameOf
      <4>2. name.base # NoBase => name # Target
        BY DEF Archivable
      <4>3. QED
        BY <2>1, <2>3, <4>1, <4>2 DEF Listed
    <3>3. list' = Append(list, ItemOf(r))
      BY <1>6, <3>2
    <3>4. Len(list') \in 1..Len(list') /\ list'[Len(list')] = ItemOf(r)
      BY <1>3, <1>6, <3>3
    <3>5. Named(list', name)
      BY <3>1, <3>4 DEF Named
    <3>6. QED
      BY <3>5 DEF Covered
  <2>4. QED
    BY <2>2, <2>3
<1>16. CASE Due(stack, QueryOf(name), Within(name))
  <2>1. Visits(f, Within(name)) \/ Due(rest, QueryOf(name), Within(name))
    BY <1>1, <1>8, <1>16 DEF DueIn, Fresh, f
  <2>2. QED
    BY <1>5, <1>10, <1>11, <2>1 DEF Covered
<1>17. CASE ~Known(list, Within(name))
  <2>1. CASE Known(list', Within(name))
    <3>1. list' = Append(list, ItemOf(r))
      BY <1>6, <1>17, <2>1
    <3>2. ItemOf(r).type = "coll" /\ ItemOf(r).coll = Within(name)
      BY <1>3, <1>6, <1>17, <2>1, <3>1, ItemAtEnd
    <3>3. r.coll = Within(name) /\ f.fn = "dirColl"
      BY <1>6, <3>2 DEF ItemOf, CollItem, DataItem, QueryOf
    <3>4. QED
      BY <1>5, <1>10, <1>11, <3>3 DEF Covered
  <2>2. CASE ~Known(list', Within(name))
    BY <2>2 DEF Covered
  <2>3. QED
    BY <2>1, <2>2
<1>18. QED
  BY <1>14, <1>15, <1>16, <1>17 DEF Covered

\* No step of the walk loses a name, unless a call fails.
LEMMA WalkCovers ==
    ASSUME WalkInv, Rooted, TouchedOK, stack \in Seq(IntactFrame), TidyStack(stack),
           WalkStep, faults' = faults, stack' \in Seq(Frame),
           NEW name \in Archivable \ touched, Covered(stack, list, name)
    PROVE  Covered(stack', list', name)
<1>1. ~QueryFails
  BY DEF QueryFails, WalkInv, WalkTypeOK
<1>2. CASE AttrPage \/ AclPage
  <2>1. stack' = stack /\ list' = list
    BY <1>2 DEF AttrPage, AclPage
  <2>2. QED
    BY <2>1
<1>3. QED
  BY <1>1, <1>2, FetchCovers, LoopEndCovers, AttrDoneCovers, AddRowCovers DEF WalkStep

\* When the walk has ended, every name that nobody has touched is listed: one
\* that is not would lie in a collection that is not, and so on up to Root.
LEMMA AllNamed ==
    ASSUME WalkTypeOK, Rooted, TouchedOK, NEW lst \in Seq(SoundItem),
           \A name \in Archivable \ touched : Covered(<<>>, lst, name)
    PROVE  \A name \in Archivable \ touched : Named(lst, name)
<1> DEFINE S == {c \in Coll \ {Root} : PathTaken(c) /\ Intact(c) /\ ~Known(lst, c)}
<1>1. ASSUME NEW name \in Archivable \ touched, ~Named(lst, name) PROVE Within(name) \in S
  <2>1. ~Known(lst, Within(name))
    <3>1. Len(<<>>) = 0
      OBVIOUS
    <3>2. Covered(<<>>, lst, name)
      OBVIOUS
    <3>3. QED
      BY <1>1, <3>1, <3>2 DEF Covered, HeldName, Due
  <2>2. name \in Name /\ name.coll \in Coll /\ name = [coll |-> name.coll, base |-> name.base]
    BY DEF Archivable, Name
  <2>3. Within(name) # Root
    BY <2>1 DEF Known
  <2>4. CASE name.base = NoBase
    <3>1. PICK id \in CollId : collOf[id] = name.coll
      BY <2>4 DEF Archivable, PathTaken
    <3>2. name.coll # Root /\ Intact(name.coll) /\ PathTaken(name.coll)
      BY <2>2, <2>4 DEF Archivable, Intact
    <3>3. Within(name) = ParentOf[name.coll] /\ ParentOf[name.coll] \in Coll
      BY <2>2, <2>4, <3>2, TreeAssumption DEF Within
    <3>4. PathTaken(ParentOf[name.coll])
      BY <2>2, <3>1, <3>2 DEF Rooted
    <3>5. Intact(ParentOf[name.coll])
      BY <2>2, <3>2 DEF TouchedOK
    <3>6. QED
      BY <2>1, <2>3, <3>3, <3>4, <3>5
  <2>5. CASE name.base # NoBase
    <3>1. PathTaken(name.coll)
      BY <2>5 DEF Archivable, PathTaken
    <3>2. name.base \in Base
      BY <2>2, <2>5 DEF Name
    <3>3. Intact(name.coll)
      BY <2>2, <3>2 DEF TouchedOK
    <3>4. Within(name) = name.coll
      BY <2>5 DEF Within
    <3>5. QED
      BY <2>1, <2>2, <2>3, <3>1, <3>3, <3>4
  <2>6. QED
    BY <2>4, <2>5
<1>2. ASSUME NEW c \in S, ParentOf[c] \notin S PROVE FALSE
  <2> DEFINE name == [coll |-> c, base |-> NoBase]
  <2>1. c \in Coll \ {Root} /\ PathTaken(c) /\ Intact(c) /\ ~Known(lst, c)
    OBVIOUS
  <2>2. name \in Archivable \ touched
    BY <2>1 DEF Archivable, Name, Intact
  <2>3. ~Named(lst, name)
    <3>1. ASSUME NEW i \in 1..Len(lst), NameOf(lst[i]) = name PROVE FALSE
      <4>1. lst[i] \in SoundItem
        OBVIOUS
      <4>2. lst[i].coll = c /\ lst[i].base = NoBase
        BY <3>1 DEF NameOf
      <4>3. lst[i].type = "coll"
        BY <4>1, <4>2, TreeAssumption DEF SoundItem, Item
      <4>4. QED
        BY <2>1, <4>2, <4>3 DEF Known, ListedIn
    <3>2. QED
      BY <3>1 DEF Named
  <2>4. Within(name) = ParentOf[c]
    BY DEF Within
  <2>5. QED
    BY <1>1, <1>2, <2>2, <2>3, <2>4
<1>3. S = {}
  <2>1. S \in SUBSET (Coll \ {Root})
    OBVIOUS
  <2> HIDE DEF S
  <2>2. QED
    BY <1>2, <2>1, TreeAssumption
<1>4. QED
  BY <1>1, <1>3

-----------------------------------------------------------------------------
(* The steps of msiArchiveCreate.                                          *)

\* What is listed stays true, and complete, when neither the catalog nor the
\* list changes.
LEMMA ListedStaysTrue ==
    ASSUME SourceInv, UNCHANGED <<collOf, repl, edits, stack, list, touched>>,
           pc' \notin {"start", "done"} => collOf[RootId] = Root,
           Listing' => Listing
    PROVE  /\ Rooted' /\ TouchedOK'
           /\ stack' \in Seq(IntactFrame') /\ list' \in Seq(IntactItem')
           /\ TidyStack(stack') /\ Coverage'
<1>1. Rooted'
  BY DEF SourceInv, Rooted, UniquePaths, SameSizes, PathTaken
<1>2. TouchedOK'
  BY DEF SourceInv, TouchedOK, Intact, PathTaken
<1>3. IntactFrame' = IntactFrame /\ IntactItem' = IntactItem
  BY IntactSame
<1>4. stack' \in Seq(IntactFrame') /\ list' \in Seq(IntactItem') /\ TidyStack(stack')
  BY <1>3 DEF SourceInv
<1>5. Archivable' = Archivable
  BY DEF Archivable, PathTaken, GoodReplicas
<1>6. Coverage'
  <2>1. ASSUME Listing', NEW name \in Archivable' \ touched' PROVE Covered(stack', list', name)
    <3>1. Covered(stack, list, name)
      BY <1>5, <2>1 DEF SourceInv, Coverage
    <3>2. QED
      BY <3>1
  <2>2. QED
    BY <2>1 DEF Coverage
<1>7. QED
  BY <1>1, <1>2, <1>4, <1>6

\* construct() and the error returns: what is left to show is what was copied.
LEMMA SourceStays ==
    ASSUME SourceInv, CreateInv', UNCHANGED <<catalogVars, walkVars, touched>>,
           pc' \notin {"start", "done"} => collOf[RootId] = Root,
           Listing' => Listing, CopiedIntact'
    PROVE  SourceInv'
<1>1. UNCHANGED <<collOf, repl, edits, stack, list, touched>>
  BY DEF catalogVars, walkVars
<1>2. QED
  BY <1>1, ListedStaysTrue DEF SourceInv

\* Nothing has been copied yet.
LEMMA NothingCopied ==
    ASSUME arc' = NoIndex("bare"), pc' # "read"
    PROVE  CopiedIntact'
<1>1. Len(arc'.entries) = 0
  BY NoIndexOK
<1>2. QED
  BY <1>1 DEF CopiedIntact

\* What was copied stays as it is.
LEMMA CopiedStays ==
    ASSUME CopiedIntact, idx \in Nat, idx' \in Nat, idx' <= idx, touched' = touched,
           Len(arc.entries) \in Nat,
           \A k \in 1..Len(arc'.entries) : k <= idx' =>
              k <= Len(arc.entries) /\ arc'.entries[k] = arc.entries[k],
           pc' # "read"
    PROVE  CopiedIntact'
<1>1. ASSUME NEW k \in 1..Len(arc'.entries), k <= idx', NameOf(arc'.entries[k].item) \notin touched'
      PROVE  arc'.entries[k].got = arc'.entries[k].item.size
  <2>1. k \in 1..Len(arc.entries) /\ k <= idx /\ arc'.entries[k] = arc.entries[k]
    BY <1>1
  <2>2. QED
    BY <1>1, <2>1 DEF CopiedIntact
<1>2. QED
  BY <1>1 DEF CopiedIntact

-----------------------------------------------------------------------------
\* An error before anything was created, or the collection is found.
LEMMA SourceBegins ==
    ASSUME SourceInv, CreateInv', touched' = touched,
           InvalidInput \/ collIDFails \/ createFails \/ collID
    PROVE  SourceInv'
<1>1. /\ pc \in {"start", "create"} /\ pc' \in {"create", "done"}
      /\ UNCHANGED <<catalogVars, walkVars, arc>>
      /\ pc' = "create" => collOf[RootId] = Root
      /\ pc' = "done" => status' # "ok"
  BY DEF InvalidInput, collIDFails, createFails, collID, Return
<1>2. arc' = NoIndex("bare") /\ pc' # "read"
  BY <1>1 DEF SourceInv, CreateInv, Positions
<1>3. CopiedIntact'
  BY <1>2, NothingCopied
<1>4. ~Listing'
  BY <1>1 DEF Listing
<1>5. QED
  BY <1>1, <1>3, <1>4, SourceStays

\* Registering the archive leaves sizes as they were.
LEMMA RegisteredSizes ==
    ASSUME WalkTypeOK, SameSizes, NEW id \in CollId, Target.base \in Base, Registered(id)
    PROVE  SameSizes'
<1> DEFINE b == Target.base
<1>1. PICK r \in {q \in Replica : q.size = 0} :
         repl' = [repl EXCEPT ![id][b] = {r} \cup {[q EXCEPT !.good = FALSE] : q \in @}]
  BY DEF Registered
<1> DEFINE stale == {[q EXCEPT !.good = FALSE] : q \in repl[id][b]}
           new == {r} \cup stale
<1>2. repl \in [CollId -> [Base -> SUBSET Replica]] /\ b \in Base
  BY DEF WalkTypeOK
<1>3. \A q \in stale : q.good = FALSE
  <2>1. ASSUME NEW q \in repl[id][b] PROVE [q EXCEPT !.good = FALSE].good = FALSE
    <3>1. q \in Replica
      BY <1>2, <2>1
    <3>2. QED
      BY <3>1 DEF Replica
  <2>2. QED
    BY <2>1
<1>4. repl' = [repl EXCEPT ![id][b] = new]
  BY <1>1
<1>5. \A q, p \in new : (q.good /\ p.good) => q.size = p.size
  <2> HIDE DEF stale
  <2>1. QED
    BY <1>3
<1> HIDE DEF new
<1>6. \A k \in CollId, c \in Base : repl'[k][c] = IF k = id /\ c = b THEN new ELSE repl[k][c]
  BY <1>2, <1>4
<1>7. QED
  BY <1>5, <1>6 DEF SameSizes

\* The walk begins at the archived collection, where everything is due.
LEMMA SourceCreates ==
    ASSUME SourceInv, CreateInv', touched' = touched, create
    PROVE  SourceInv'
<1>1. /\ pc = "create" /\ pc' = "walk" /\ stack' = WalkStart
      /\ UNCHANGED <<collOf, unused, edits, list, faults, arc>>
      /\ WalkTypeOK /\ list = <<>> /\ arc = NoIndex("bare") /\ Rooted /\ TouchedOK
      /\ collOf[RootId] = Root
  BY DEF create, SourceInv, CreateInv, CreateTypeOK, Positions, Rooted
<1>2. SameSizes'
  <2>1. CASE Target.base = NoBase
    BY <1>1, <2>1 DEF create, Rooted, SameSizes
  <2>2. CASE Target.base # NoBase
    <3>1. PICK id \in CollId : Registered(id)
      BY <2>2 DEF create
    <3>2. Target.base \in Base
      BY <2>2, WalkAssumption
    <3>3. QED
      BY <1>1, <3>1, <3>2, RegisteredSizes DEF Rooted
  <2>3. QED
    BY <2>1, <2>2
<1>3. Rooted'
  BY <1>1, <1>2 DEF Rooted, UniquePaths, PathTaken
<1>4. TouchedOK'
  BY <1>1 DEF TouchedOK, Intact, PathTaken
<1> DEFINE first == NewFrame("dirColl", Root, RootId)
           second == NewFrame("dirDataObj", Root, RootId)
<1>5. Root \in Coll /\ RootId \in CollId
  BY TreeAssumption, CatalogAssumption
<1>6. /\ \A fn, c : DueIn(first, fn, c) <=> (fn = "dirColl" /\ c = Root)
      /\ first.page = {} /\ first.rest = {} /\ first.dirs = <<>> /\ Fresh(first)
      /\ first.fn = "dirColl" /\ first.coll = Root /\ first.id = RootId
  BY <1>5, NewFrameDue
<1>7. /\ \A fn, c : DueIn(second, fn, c) <=> (fn = "dirDataObj" /\ c = Root)
      /\ second.page = {} /\ second.rest = {} /\ second.dirs = <<>> /\ Fresh(second)
      /\ second.fn = "dirDataObj" /\ second.coll = Root /\ second.id = RootId
  BY <1>5, NewFrameDue
<1>8. first \in Frame /\ second \in Frame
  BY <1>5, NewFrameType
<1>9. stack' = <<first, second>>
  BY <1>1 DEF WalkStart
<1> HIDE DEF first, second
<1>10. first \in IntactFrame' /\ second \in IntactFrame'
  BY <1>1, <1>6, <1>7, <1>8 DEF IntactFrame
<1>11. stack' \in Seq(IntactFrame') /\ stack' \in Seq(Frame)
  BY <1>8, <1>9, <1>10
<1>12. list' \in Seq(IntactItem')
  BY <1>1
<1>13. Len(stack') = 2 /\ stack'[1] = first /\ stack'[2] = second /\ Len(list') = 0
  BY <1>1, <1>9
<1>14. Waiting(stack')
  <2>1. \A k \in 1..Len(stack') : k = 1 \/ k = 2
    BY <1>13
  <2>2. QED
    BY <1>6, <1>7, <1>13, <2>1 DEF Waiting
<1>15. TidyStack(stack')
  BY <1>11, <1>14, WaitingTidy
<1>16. ASSUME NEW name PROVE Covered(stack', list', name)
  <2>1. CASE Known(list', Within(name))
    <3>1. Within(name) = Root
      BY <1>13, <2>1 DEF Known, ListedIn
    <3>2. DueIn(first, QueryOf(name), Root) \/ DueIn(second, QueryOf(name), Root)
      BY <1>6, <1>7 DEF QueryOf
    <3>3. 1 \in 1..Len(stack') /\ 2 \in 1..Len(stack')
      BY <1>13
    <3>4. QED
      BY <1>13, <3>1, <3>2, <3>3 DEF Due, Covered
  <2>2. CASE ~Known(list', Within(name))
    BY <2>2 DEF Covered
  <2>3. QED
    BY <2>1, <2>2
<1>17. Coverage'
  BY <1>16 DEF Coverage
<1>18. CopiedIntact'
  BY <1>1, NothingCopied
<1>19. QED
  BY <1>3, <1>4, <1>11, <1>12, <1>15, <1>17, <1>18 DEF SourceInv

\* A step of the walk.
LEMMA SourceWalks ==
    ASSUME SourceInv, CreateInv', touched' = touched, Walk
    PROVE  SourceInv'
<1>1. /\ pc = "walk" /\ pc' = "walk" /\ WalkStep /\ UNCHANGED <<collOf, repl, edits, arc, status>>
      /\ arc = NoIndex("bare")
      /\ ListingInv /\ WalkInv /\ WalkTypeOK /\ Rooted /\ TouchedOK
      /\ stack \in Seq(IntactFrame) /\ list \in Seq(IntactItem) /\ TidyStack(stack)
      /\ stack' \in Seq(Frame)
  BY DEF Walk, SourceInv, CreateInv, ListingInv, WalkInv, WalkTypeOK, catalogVars, createVars, Positions
<1>2. Rooted'
  BY <1>1 DEF Rooted, UniquePaths, SameSizes, PathTaken
<1>3. TouchedOK'
  BY <1>1 DEF TouchedOK, Intact, PathTaken
<1>4. IntactFrame' = IntactFrame /\ IntactItem' = IntactItem
  BY <1>1, IntactSame
<1>5. stack' \in Seq(IntactFrame')
  <2>1. IntactFrame \in SUBSET Frame
    BY DEF IntactFrame
  <2>2. QED
    BY <1>1, <1>4, <2>1, IntactClosed, FramesStayIn
<1>6. list' \in Seq(IntactItem')
  BY <1>1, <1>4, WalkListsIntact
<1>7. TidyStack(stack')
  BY <1>1, TidyWalk
<1>8. Archivable' = Archivable
  BY <1>1 DEF Archivable, PathTaken, GoodReplicas
<1>9. ASSUME Listing', NEW name \in Archivable' \ touched' PROVE Covered(stack', list', name)
  <2>1. faults' = 0 /\ faults \in Nat
    BY <1>1, <1>9 DEF Listing, WalkTypeOK
  <2>2. faults' = faults \/ faults' = faults + 1
    BY <1>1 DEF WalkStep, FetchPage, NoMoreRows, QueryFails, AttrPage, AttrDone, AclPage, AddRow
  <2>3. faults' = faults /\ faults = 0
    BY <2>1, <2>2
  <2>4. Listing
    BY <1>1, <2>3 DEF Listing
  <2>5. name \in Archivable \ touched
    BY <1>8, <1>9
  <2>6. Covered(stack, list, name)
    BY <2>4, <2>5 DEF SourceInv, Coverage
  <2>7. QED
    BY <1>1, <2>3, <2>5, <2>6, WalkCovers
<1>10. Coverage'
  BY <1>9 DEF Coverage
<1>11. CopiedIntact'
  BY <1>1, NothingCopied
<1>12. QED
  BY <1>2, <1>3, <1>5, <1>6, <1>7, <1>10, <1>11 DEF SourceInv

\* construct() writes INDEX.json or a header, or goes on to the end.
LEMMA SourceWrites ==
    ASSUME SourceInv, CreateInv', touched' = touched,
           WriteIndex \/ WriteHeader \/ AllItemsWritten
    PROVE  SourceInv'
<1>1. /\ UNCHANGED <<catalogVars, walkVars, status, faults>>
      /\ pc \in {"walk", "item"} /\ pc' \in {"item", "open", "free"}
      /\ CreateInv /\ CopiedIntact /\ Rooted
  BY DEF WriteIndex, WriteHeader, AllItemsWritten, SourceInv
<1>2. collOf[RootId] = Root /\ (Listing' => Listing)
  BY <1>1 DEF Rooted, Listing
<1>3. /\ idx \in 0..Len(list) /\ list \in Seq(Item) /\ Len(list) \in Nat
      /\ arc.entries \in Seq(Entry) /\ Len(arc.entries) \in Nat
  <2>1. /\ idx \in 0..Len(list) /\ list \in Seq(Item) /\ arc \in ArchiveFile
    BY <1>1 DEF CreateInv, CreateTypeOK, WalkTypeOK
  <2>2. arc.entries \in Seq(Entry)
    BY <2>1 DEF ArchiveFile
  <2>3. QED
    BY <2>1, <2>2
<1>4. CASE WriteIndex
  <2>1. arc' = [arc EXCEPT !.form = "indexed", !.items = list, !.size = dataSize] /\ pc = "walk"
    BY <1>4 DEF WriteIndex
  <2>2. arc = NoIndex("bare")
    BY <1>1, <2>1 DEF CreateInv, Positions
  <2>3. arc \in ArchiveFile
    BY <1>1 DEF CreateInv, CreateTypeOK
  <2>4. Len(arc'.entries) = 0
    BY <2>1, <2>2, <2>3, NoIndexOK DEF ArchiveFile
  <2>5. CopiedIntact'
    BY <1>1, <2>4 DEF CopiedIntact
  <2>6. QED
    BY <1>1, <1>2, <2>5, SourceStays
<1>5. CASE WriteHeader
  <2>1. /\ pc = "item" /\ idx < Len(list) /\ UNCHANGED <<stack, list, dataSize>>
        /\ arc' = [arc EXCEPT !.entries = Append(@, HeaderOf(list[idx + 1]))]
        /\ IF list[idx + 1].type = "coll" THEN idx' = idx + 1 /\ pc' = "item"
                                          ELSE idx' = idx /\ pc' = "open"
    BY <1>5 DEF WriteHeader, walkVars
  <2>2. /\ Len(arc.entries) = idx /\ Len(arc'.entries) = idx + 1
        /\ arc'.entries[idx + 1] = HeaderOf(list[idx + 1])
        /\ \A k \in 1..idx : arc'.entries[k] = arc.entries[k]
        /\ list[idx + 1] \in SoundItem
    BY <1>1, <2>1, HeaderWritten
  <2>3. arc'.entries[idx + 1].item = list[idx + 1] /\ arc'.entries[idx + 1].got = 0
    BY <2>2 DEF HeaderOf
  <2>4. list[idx + 1].type = "coll" => list[idx + 1].size = 0
    BY <2>2 DEF SoundItem, CollItem
  <2>5. ASSUME NEW k \in 1..Len(arc'.entries), k <= idx', NameOf(arc'.entries[k].item) \notin touched'
        PROVE  arc'.entries[k].got = arc'.entries[k].item.size
    <3>1. CASE k <= idx
      <4>1. k \in 1..idx
        BY <1>3, <2>2, <3>1
      <4>2. arc'.entries[k] = arc.entries[k] /\ k \in 1..Len(arc.entries)
        BY <2>2, <4>1
      <4>3. QED
        BY <1>1, <2>5, <3>1, <4>2 DEF CopiedIntact
    <3>2. CASE k > idx
      <4>1. k = idx + 1 /\ list[idx + 1].type = "coll"
        BY <1>3, <2>1, <2>2, <2>5, <3>2
      <4>2. QED
        BY <2>3, <2>4, <4>1
    <3>3. QED
      BY <1>3, <3>1, <3>2
  <2>6. pc' # "read"
    BY <1>1
  <2>7. CopiedIntact'
    BY <2>5, <2>6 DEF CopiedIntact
  <2>8. QED
    BY <1>1, <1>2, <2>7, SourceStays
<1>6. CASE AllItemsWritten
  <2>1. arc' = arc /\ idx' = idx /\ pc' # "read"
    BY <1>6 DEF AllItemsWritten
  <2>2. CopiedIntact'
    BY <1>1, <2>1 DEF CopiedIntact
  <2>3. QED
    BY <1>1, <1>2, <2>2, SourceStays
<1>7. QED
  BY <1>4, <1>5, <1>6

\* construct() reports an error.
LEMMA SourceAbandons ==
    ASSUME SourceInv, CreateInv', touched' = touched,
           AppendFails \/ OpenObjFails \/ ReadFails
    PROVE  SourceInv'
<1>1. /\ UNCHANGED <<catalogVars, walkVars, idx>>
      /\ pc \in {"walk", "item", "open", "read"} /\ pc' = "free"
      /\ faults' = faults \/ faults' = faults + 1
      /\ \/ arc' = arc
         \/ /\ pc = "item" /\ idx < Len(list)
            /\ arc' = [arc EXCEPT !.entries = Append(@, HeaderOf(list[idx + 1]))]
      /\ CreateInv /\ CopiedIntact /\ Rooted
  BY DEF AppendFails, OpenObjFails, ReadFails, Abandon, Fault, SourceInv
<1>2. collOf[RootId] = Root
  BY <1>1 DEF Rooted
<1>3. Listing' => Listing
  <2>1. faults \in Nat
    BY <1>1 DEF CreateInv, CreateTypeOK, WalkTypeOK
  <2>2. QED
    BY <1>1, <2>1 DEF Listing
<1>4. CopiedIntact'
  <2>1. CASE arc' = arc
    BY <1>1, <2>1 DEF CopiedIntact
  <2>2. CASE arc' # arc
    <3>1. /\ pc = "item" /\ idx < Len(list) /\ UNCHANGED <<stack, list, dataSize>>
          /\ arc' = [arc EXCEPT !.entries = Append(@, HeaderOf(list[idx + 1]))]
      BY <1>1, <2>2 DEF walkVars
    <3>2. /\ Len(arc.entries) = idx /\ Len(arc'.entries) = idx + 1
          /\ \A k \in 1..idx : arc'.entries[k] = arc.entries[k]
      BY <1>1, <3>1, HeaderWritten
    <3>3. idx \in Nat
      BY <1>1 DEF CreateInv, CreateTypeOK
    <3>4. ASSUME NEW k \in 1..Len(arc'.entries), k <= idx'
          PROVE  k <= Len(arc.entries) /\ arc'.entries[k] = arc.entries[k]
      <4>1. k \in 1..idx
        BY <1>1, <3>3, <3>4
      <4>2. QED
        BY <3>2, <4>1
    <3>5. QED
      BY <1>1, <3>2, <3>3, <3>4, CopiedStays
  <2>3. QED
    BY <2>1, <2>2
<1>5. QED
  BY <1>1, <1>2, <1>3, <1>4, SourceStays

\* A data object that nobody has touched is opened with the size that the
\* index gives.
LEMMA SourceOpens ==
    ASSUME SourceInv, CreateInv', touched' = touched, OpenObj
    PROVE  SourceInv'
<1>1. /\ pc = "open" /\ pc' = "read" /\ UNCHANGED <<catalogVars, walkVars, faults, arc, idx>>
      /\ CreateInv /\ CopiedIntact /\ Rooted /\ list \in Seq(IntactItem)
  BY DEF OpenObj, SourceInv
<1>2. collOf[RootId] = Root /\ (Listing' => Listing)
  BY <1>1 DEF Rooted, Listing
<1>3. PICK id \in HolderIds : \E r \in GoodReplicas(id, list[idx + 1].base) : src' = r.size
  BY DEF OpenObj
<1>4. PICK r \in GoodReplicas(id, list[idx + 1].base) : src' = r.size
  BY <1>3
<1> DEFINE i == list[idx + 1]
<1>5. idx < Len(list) /\ i.type = "dataObj" /\ idx \in 0..Len(list) /\ list \in Seq(SoundItem)
  BY <1>1 DEF CreateInv, CreateTypeOK, ListingInv, Progress
<1>6. Len(list) \in Nat
  BY <1>1
<1>7. i \in SoundItem /\ i \in IntactItem
  BY <1>1, <1>5, <1>6
<1>8. i.base \in Base /\ i.coll \in Coll
  BY <1>5, <1>7 DEF SoundItem, Item
<1> HIDE DEF i
<1>9. id \in CollId /\ collOf[id] = i.coll /\ r \in repl[id][i.base] /\ r.good
  BY <1>3, <1>4 DEF HolderIds, GoodReplicas, i
<1>10. ASSUME NameOf(i) \notin touched PROVE src' = i.size
  <2>1. Readable(i.coll, i.base, i.size)
    BY <1>5, <1>7, <1>10 DEF IntactItem, i
  <2>2. PICK k \in CollId : collOf[k] = i.coll /\ \E q \in GoodReplicas(k, i.base) : q.size = i.size
    BY <2>1 DEF Readable
  <2>3. k = id
    BY <1>1, <1>8, <1>9, <2>2, CatalogAssumption DEF Rooted, UniquePaths
  <2>4. PICK q \in GoodReplicas(id, i.base) : q.size = i.size
    BY <2>2, <2>3
  <2>5. q \in repl[id][i.base] /\ q.good
    BY <2>4 DEF GoodReplicas
  <2>6. q.size = r.size
    BY <1>1, <1>8, <1>9, <2>5 DEF Rooted, SameSizes
  <2>7. QED
    BY <1>4, <2>4, <2>6
<1>11. CopiedIntact'
  <2>1. list'[idx' + 1] = i
    BY <1>1 DEF walkVars, i
  <2>2. QED
    BY <1>1, <1>10, <2>1 DEF CopiedIntact
<1>12. QED
  BY <1>1, <1>2, <1>11, SourceStays

\* The copying loop: what is copied when it ends is what the object had.
LEMMA SourceCopies ==
    ASSUME SourceInv, CreateInv', touched' = touched, CopyChunk \/ CopyDone
    PROVE  SourceInv'
<1>1. /\ pc = "read" /\ pc' \in {"read", "item"}
      /\ UNCHANGED <<catalogVars, walkVars, faults, src>>
      /\ CreateInv /\ CopiedIntact /\ Rooted
  BY DEF CopyChunk, CopyDone, SourceInv
<1>2. collOf[RootId] = Root /\ (Listing' => Listing)
  BY <1>1 DEF Rooted, Listing
<1>3. list' = list
  BY <1>1 DEF walkVars
<1>4. CASE CopyChunk
  <2>1. /\ Len(arc.entries) = idx + 1 /\ idx \in Nat
        /\ Len(arc'.entries) = idx + 1
        /\ \A k \in 1..idx : arc'.entries[k] = arc.entries[k]
    BY <1>1, <1>4, ChunkCopied
  <2>2. idx' = idx /\ pc' = pc
    BY <1>4 DEF CopyChunk
  <2>3. ASSUME NEW k \in 1..Len(arc'.entries), k <= idx', NameOf(arc'.entries[k].item) \notin touched'
        PROVE  arc'.entries[k].got = arc'.entries[k].item.size
    <3>1. k \in 1..idx /\ k \in 1..Len(arc.entries) /\ k <= idx
      BY <2>1, <2>2, <2>3
    <3>2. arc'.entries[k] = arc.entries[k]
      BY <2>1, <3>1
    <3>3. QED
      BY <1>1, <2>3, <3>1, <3>2 DEF CopiedIntact
  <2>4. CopiedIntact'
    BY <1>1, <1>3, <2>2, <2>3 DEF CopiedIntact
  <2>5. QED
    BY <1>1, <1>2, <2>4, SourceStays
<1>5. CASE CopyDone
  <2>1. arc' = arc /\ idx' = idx + 1 /\ off = src /\ pc' = "item"
    BY <1>5 DEF CopyDone
  <2>2. /\ Len(arc.entries) = idx + 1 /\ idx < Len(list) /\ arc.form = "indexed"
        /\ arc.entries[idx + 1].got = AtMost(off, list[idx + 1].size)
        /\ arc.entries[idx + 1].item = arc.items[idx + 1] /\ arc.items = list
        /\ idx \in Nat /\ src \in Nat
    <3>1. /\ Len(arc.entries) = idx + 1 /\ idx < Len(list) /\ arc.form = "indexed"
          /\ arc.entries[idx + 1].got = AtMost(off, list[idx + 1].size)
          /\ idx \in Nat /\ src \in Nat
      BY <1>1 DEF CreateInv, CreateTypeOK, Progress, Positions
    <3>2. idx + 1 \in 1..Len(arc.entries)
      BY <3>1
    <3>3. QED
      BY <1>1, <3>1, <3>2 DEF CreateInv, Written
  <2>3. ASSUME NEW k \in 1..Len(arc.entries), k <= idx + 1, NameOf(arc.entries[k].item) \notin touched
        PROVE  arc.entries[k].got = arc.entries[k].item.size
    <3>1. CASE k <= idx
      BY <1>1, <2>3, <3>1 DEF CopiedIntact
    <3>2. CASE k > idx
      <4>1. k = idx + 1
        BY <2>2, <2>3, <3>2
      <4>2. src = list[idx + 1].size
        BY <1>1, <2>2, <2>3, <4>1 DEF CopiedIntact
      <4>3. QED
        BY <2>1, <2>2, <4>1, <4>2 DEF AtMost
    <3>3. QED
      BY <2>2, <3>1, <3>2
  <2>4. CopiedIntact'
    BY <2>1, <2>3 DEF CopiedIntact
  <2>5. QED
    BY <1>1, <1>2, <2>4, SourceStays
<1>6. QED
  BY <1>4, <1>5

\* The archive is freed.
LEMMA SourceEnds ==
    ASSUME SourceInv, CreateInv', touched' = touched, Free \/ FreeFails
    PROVE  SourceInv'
<1>1. /\ pc = "free" /\ pc' = "done" /\ UNCHANGED <<catalogVars, walkVars, arc, idx, status>>
      /\ faults' = faults \/ faults' = faults + 1
      /\ CopiedIntact /\ faults \in Nat
  BY DEF Free, FreeFails, Fault, SourceInv, CreateInv, CreateTypeOK, WalkTypeOK
<1>2. Listing' => Listing
  BY <1>1 DEF Listing
<1>3. CopiedIntact'
  BY <1>1 DEF CopiedIntact
<1>4. QED
  BY <1>1, <1>2, <1>3, SourceStays

\* Another agent changes the catalog.
LEMMA SourceEdited ==
    ASSUME SourceInv, Editing
    PROVE  SourceInv'
<1>1. /\ pc # "done" /\ CatalogEdit
      /\ UNCHANGED <<stack, inner, list, dataSize, faults, pc, status, arc, stored, idx, src, off, fds, fatal>>
      /\ touched \subseteq touched'
  BY DEF Editing, walkVars, createVars
<1>2. CreateInv'
  BY EditStep DEF SourceInv, Editing
<1>3. ListingInv /\ WalkTypeOK /\ Rooted /\ TouchedOK
  BY DEF SourceInv, CreateInv, ListingInv, WalkInv
<1>4. Rooted'
  BY <1>1, <1>3, EditRooted
<1>5. TouchedOK'
  BY <1>3, EditTouched
<1>6. stack' \in Seq(IntactFrame') /\ list' \in Seq(IntactItem')
  BY <1>3, IntactEdited DEF SourceInv
<1>7. TidyStack(stack')
  BY <1>1 DEF SourceInv
<1>8. ASSUME NEW name \in Archivable', name \notin touched' PROVE name \in Archivable \ touched
  <2>1. name \in Name /\ name.coll \in Coll /\ name = [coll |-> name.coll, base |-> name.base]
    BY <1>8 DEF Archivable, Name
  <2>2. CASE name.base = NoBase
    <3>1. Intact(name.coll) /\ \A id \in CollId : collOf'[id] = name.coll <=> collOf[id] = name.coll
      BY <1>8, <2>1, <2>2, SameColl
    <3>2. PICK id \in CollId : name.coll # Root /\ collOf'[id] = name.coll
      BY <1>8, <2>2 DEF Archivable, PathTaken
    <3>3. QED
      BY <2>1, <2>2, <3>1, <3>2 DEF Archivable, PathTaken, Intact
  <2>3. CASE name.base # NoBase
    <3>1. name.base \in Base
      BY <2>1, <2>3 DEF Name
    <3>2. /\ name \notin touched
          /\ \A id \in CollId : collOf'[id] = name.coll <=> collOf[id] = name.coll
          /\ \A id \in CollId : collOf[id] = name.coll => repl'[id][name.base] = repl[id][name.base]
      BY <1>8, <2>1, <3>1, SameObj
    <3>3. /\ name # Target
          /\ \E id \in CollId : collOf'[id] = name.coll /\ {r \in repl'[id][name.base] : r.good} # {}
      BY <1>8, <2>3 DEF Archivable, GoodReplicas
    <3>4. PICK id \in CollId : collOf'[id] = name.coll /\ {r \in repl'[id][name.base] : r.good} # {}
      BY <3>3
    <3>5. collOf[id] = name.coll /\ GoodReplicas(id, name.base) # {}
      BY <3>2, <3>4 DEF GoodReplicas
    <3>6. QED
      BY <2>1, <2>3, <3>2, <3>3, <3>5 DEF Archivable
  <2>4. QED
    BY <2>2, <2>3
<1>9. ASSUME Listing', NEW name \in Archivable' \ touched' PROVE Covered(stack', list', name)
  <2>1. Listing
    BY <1>1, <1>9 DEF Listing
  <2>2. Covered(stack, list, name)
    BY <1>8, <1>9, <2>1 DEF SourceInv, Coverage
  <2>3. QED
    BY <1>1, <2>2
<1>10. Coverage'
  BY <1>9 DEF Coverage
<1>11. CopiedIntact'
  BY <1>1 DEF SourceInv, CopiedIntact
<1>12. QED
  BY <1>2, <1>4, <1>5, <1>6, <1>7, <1>10, <1>11 DEF SourceInv

\* msiArchiveExtract leaves everything alone that msiArchiveCreate has used.
LEMMA ExtractingIs ==
    ASSUME Extracting
    PROVE  /\ pc = "done"
           /\ UNCHANGED <<catalogVars, walkVars, pc, status, arc, idx, src, off, fds, fatal, touched>>
           /\ UNCHANGED <<stored, request>>
           /\ faults' = faults \/ (faults < MaxFaults /\ faults' = faults + 1)
<1>1. /\ pc = "done"
      /\ UNCHANGED <<catalogVars, walkVars, pc, status, arc, idx, src, off, fds, fatal, touched>>
      /\ E!ExtractStep
  BY DEF Extracting
<1>2. /\ UNCHANGED <<stored, request>>
      /\ faults' = faults \/ (faults < MaxFaults /\ faults' = faults + 1)
  BY <1>1 DEF E!ExtractStep, E!InvalidInput, E!Open, E!OpenFails, E!OpenRejects, E!Index,
              E!EnoughSpace, E!NotEnoughSpace, E!MakePath, E!NextItem, E!NoNextItem,
              E!MakeHolder, E!SingleTooLarge, E!ExtractColl, E!CreateObj, E!CreateObjFails,
              E!WriteChunk, E!WriteFails, E!WriteDone, E!Metadata, E!Close, E!Fault,
              E!callVars, E!boundVars
<1>3. QED
  BY <1>1, <1>2

\* msiArchiveExtract leaves msiArchiveCreate and the archive as they are.
LEMMA SourceExtracted ==
    ASSUME SourceInv, Extracting
    PROVE  SourceInv'
<1>1. /\ pc = "done"
      /\ UNCHANGED <<catalogVars, walkVars, pc, status, arc, idx, src, off, fds, fatal, touched>>
      /\ stored' = stored
      /\ faults' = faults \/ faults' = faults + 1
      /\ CreateInv /\ CopiedIntact
  BY ExtractingIs DEF SourceInv
<1>2. /\ ListingInv' /\ WalkTypeOK' /\ UNCHANGED <<collOf, repl, edits, stack, list, dataSize>>
      /\ faults \in Nat /\ (faults' = 0 => faults = 0 /\ faults' = faults)
  BY <1>1, ConstructKeeps
<1>3. CreateTypeOK' /\ WellFormed(stored)'
  BY <1>1, <1>2 DEF CreateInv, CreateTypeOK
<1>4. Positions' /\ Written' /\ Progress' /\ Descriptors'
  BY <1>1, <1>2 DEF CreateInv, Positions, Written, Progress, Descriptors
<1>5. Outcome'
  <2>1. PathTaken(Target.coll)' <=> PathTaken(Target.coll)
    BY <1>2 DEF PathTaken
  <2>2. fatal' => faults' # 0
    BY <1>1, <1>2 DEF CreateInv, Outcome
  <2>3. QED
    BY <1>1, <1>2, <2>1, <2>2 DEF CreateInv, Outcome
<1>6. CreateInv'
  BY <1>2, <1>3, <1>4, <1>5 DEF CreateInv
<1>7. Listing' => Listing
  BY <1>1, <1>2 DEF Listing
<1>8. CopiedIntact'
  BY <1>1, <1>2 DEF CopiedIntact
<1>9. QED
  BY <1>1, <1>6, <1>7, <1>8, SourceStays

\* At the start nothing is listed, and nobody has touched anything.
LEMMA SourceInit == ASSUME SystemInit PROVE SourceInv
<1>1. CreateInit /\ touched = {}
  BY DEF SystemInit
<1>2. CreateInv
  BY <1>1, CreateInvInit
<1>3. /\ pc = "start" /\ stack = <<>> /\ list = <<>> /\ arc = NoIndex("bare") /\ CatalogInit
  BY <1>1 DEF CreateInit
<1>4. PICK k \in InitCatalogs : collOf = k.collOf /\ repl = k.repl
  BY <1>3 DEF CatalogInit
<1>5. Rooted
  <2>1. UniquePaths
    BY <1>4, CatalogAssumption DEF UniquePaths
  <2>2. SameSizes
    BY <1>4, CatalogAssumption DEF SameSizes
  <2>3. \A id \in CollId : collOf[id] = Root => id = RootId
    BY <1>4, CatalogTreeAssumption
  <2>4. \A id \in CollId : collOf[id] \in Coll \ {Root} => PathTaken(ParentOf[collOf[id]])
    BY <1>4, CatalogTreeAssumption DEF PathTaken
  <2>5. QED
    BY <1>3, <2>1, <2>2, <2>3, <2>4 DEF Rooted
<1>6. TouchedOK
  BY <1>1 DEF TouchedOK, Intact
<1>7. stack \in Seq(IntactFrame) /\ list \in Seq(IntactItem) /\ TidyStack(stack)
  BY <1>3 DEF TidyStack
<1>8. Coverage
  BY <1>3 DEF Coverage, Listing
<1>9. CopiedIntact
  <2>1. Len(arc.entries) = 0
    BY <1>3, NoIndexOK
  <2>2. QED
    BY <1>3, <2>1 DEF CopiedIntact
<1>10. QED
  BY <1>2, <1>5, <1>6, <1>7, <1>8, <1>9 DEF SourceInv

\* Every step.
LEMMA SourceNext == ASSUME SourceInv, [SystemNext]_systemVars PROVE SourceInv'
<1>1. CASE Creating
  <2>1. CreateStep /\ touched' = touched
    BY <1>1 DEF Creating
  <2>2. CreateInv'
    BY <2>1, CreateInvNext DEF SourceInv, CreateNext
  <2>3. CASE InvalidInput \/ collID \/ collIDFails \/ createFails
    BY <2>1, <2>2, <2>3, SourceBegins
  <2>4. CASE create \/ Walk
    BY <2>1, <2>2, <2>4, SourceCreates, SourceWalks
  <2>5. CASE Construct
    BY <2>1, <2>2, <2>5, SourceWrites, SourceAbandons, SourceOpens, SourceCopies, SourceEnds DEF Construct
  <2>6. QED
    BY <2>1, <2>3, <2>4, <2>5 DEF CreateStep
<1>2. CASE Editing
  BY <1>2, SourceEdited
<1>3. CASE Extracting
  BY <1>3, SourceExtracted
<1>4. CASE SystemOver \/ UNCHANGED systemVars
  <2>1. UNCHANGED <<catalogVars, walkVars, faults, createVars, touched>>
    BY <1>4 DEF SystemOver, systemVars, vars
  <2>2. UNCHANGED <<catalogVars, walkVars, faults, touched, pc, status, arc, stored, idx, src, off, fds, fatal>>
    BY <2>1 DEF createVars
  <2>3. CreateInv'
    <3>1. UNCHANGED vars
      BY <2>1 DEF vars
    <3>2. QED
      BY <3>1, CreateInvNext DEF SourceInv
  <2>4. UNCHANGED <<collOf, list>>
    BY <2>2 DEF catalogVars, walkVars
  <2>5. CopiedIntact'
    BY <2>2, <2>4 DEF SourceInv, CopiedIntact
  <2>6. (Listing' => Listing) /\ (pc' \notin {"start", "done"} => collOf[RootId] = Root)
    BY <2>2 DEF Listing, SourceInv, Rooted
  <2>7. QED
    BY <2>2, <2>3, <2>5, <2>6, SourceStays
<1>5. QED
  BY <1>1, <1>2, <1>3, <1>4 DEF SystemNext

-----------------------------------------------------------------------------
(* The steps of msiArchiveExtract.                                         *)

\* The names are those of msiArchiveCreate.
LEMMA SameNames == \A item : E!NameOf(item) = NameOf(item) /\ E!Holder(item) = Holder(item)
BY DEF E!NameOf, NameOf, E!Holder, Holder

\* What msiArchiveCreate has left can be read by position.
LEMMA StoredIs ==
    ASSUME CreateInv
    PROVE  /\ stored.items \in Seq(Item) /\ stored.entries \in Seq(Entry)
           /\ Len(stored.items) \in Nat /\ Len(stored.entries) \in Nat
           /\ \A k \in 1..Len(stored.entries) :
                 /\ k \in 1..Len(stored.items) /\ stored.items[k] \in Item
                 /\ stored.entries[k].item = stored.items[k]
                 /\ stored.entries[k].got \in Nat
<1>1. stored \in ArchiveFile /\ WellFormed(stored)
  BY DEF CreateInv, CreateTypeOK
<1>2. stored.items \in Seq(Item) /\ stored.entries \in Seq(Entry)
  BY <1>1 DEF ArchiveFile
<1>3. Len(stored.items) \in Nat /\ Len(stored.entries) \in Nat
  BY <1>2
<1>4. ASSUME NEW k \in 1..Len(stored.entries)
      PROVE  /\ k \in 1..Len(stored.items) /\ stored.items[k] \in Item
             /\ stored.entries[k].item = stored.items[k]
             /\ stored.entries[k].got \in Nat
  <2>1. k \in 1..Len(stored.items)
    BY <1>1, <1>3 DEF WellFormed
  <2>2. stored.entries[k].item = stored.items[k]
    BY <1>1 DEF WellFormed
  <2>3. stored.entries[k] \in Entry /\ stored.items[k] \in Item
    BY <1>2, <2>1
  <2>4. QED
    BY <2>1, <2>2, <2>3 DEF Entry
<1>5. QED
  BY <1>2, <1>3, <1>4

\* Before the first item is taken up there is nothing in the target.
LEMMA NothingArrived ==
    ASSUME xcur' = 0, OnlyItems',
           \/ xpc' \notin {"next", "extract", "write", "meta", "close", "done"}
           \/ xpc' = "next" /\ (faults' = 0 => Root \in tcolls')
           \/ xstatus' # "ok"
    PROVE  AllArrived'
<1>1. DOMAIN tobjs' = {}
  BY DEF OnlyItems, DataNames
<1>2. \A k \in 1..xcur' : FALSE
  OBVIOUS
<1>3. QED
  BY <1>1, <1>2 DEF AllArrived

\* While nothing is taken up and nothing is changed, the target holds no more
\* than it may.
LEMMA OnlyItemsStay ==
    ASSUME TargetInv, stored' = stored \/ xcur = 0, UNCHANGED <<xcur, tcolls, tobjs, tmeta>>
    PROVE  OnlyItems' /\ \A name \in DOMAIN tobjs' : tobjs'[name] \in Content
<1>1. \A name \in DOMAIN tobjs' : tobjs'[name] \in Content
  BY DEF TargetInv
<1>2. CASE stored' = stored
  BY <1>1, <1>2 DEF TargetInv, OnlyItems, DataNames
<1>3. CASE xcur = 0
  <2>1. 1..xcur = {} /\ 1..xcur' = {}
    BY <1>3
  <2>2. QED
    BY <1>1, <2>1 DEF TargetInv, OnlyItems, DataNames
<1>4. QED
  BY <1>2, <1>3

\* Steps that come before the first item.
LEMMA TargetBegins ==
    ASSUME CreateInv, TargetInv, pc' = "done", pc = "done", UNCHANGED <<stored, request>>,
           xpc \in {"open", "space", "mkpath"}, UNCHANGED <<tobjs, tmeta>>, xcur' = 0,
           tcolls' = tcolls \/ tcolls' = tcolls \cup {Root},
           \/ xpc' \in {"space", "mkpath", "crashed"} /\ xstatus' = xstatus
           \/ xpc' = "next" /\ xstatus' = xstatus /\ (faults' = 0 => Root \in tcolls')
           \/ xpc' = "done" /\ xstatus' # "ok"
    PROVE  TargetInv'
<1>1. xcur = 0 /\ xstatus = "ok" /\ request = Everything
  BY DEF TargetInv, Position
<1>2. Position'
  <2>1. xcur' \in 0..Len(stored'.entries)
    BY StoredIs
  <2>2. QED
    BY <1>1, <2>1 DEF Position, Busy
<1>3. OnlyItems' /\ \A name \in DOMAIN tobjs' : tobjs'[name] \in Content
  BY <1>1 DEF TargetInv, OnlyItems, DataNames
<1>4. AllArrived'
  BY <1>3, NothingArrived
<1>5. InHand'
  BY DEF InHand
<1>6. QED
  BY <1>2, <1>3, <1>4, <1>5 DEF TargetInv

\* A step that ends the loop with an error, or after a call has failed.
LEMMA TargetBreaks ==
    ASSUME CreateInv, TargetInv, pc' = "done", pc = "done", UNCHANGED <<stored, request>>,
           UNCHANGED <<xcur, tcolls, tobjs, tmeta>>, xpc' = "close",
           xstatus' # "ok" \/ faults' # 0
    PROVE  TargetInv'
<1>1. Position'
  BY DEF TargetInv, Position, Busy
<1>2. AllArrived' /\ InHand'
  BY DEF AllArrived, InHand
<1>3. QED
  BY <1>1, <1>2, OnlyItemsStay DEF TargetInv

\* The next item is taken up.
LEMMA TargetTakes ==
    ASSUME CreateInv, TargetInv, pc = "done", pc' = "done", E!NextItem
    PROVE  TargetInv'
<1>1. /\ xpc = "next" /\ xcur < Len(stored.entries) /\ xcur' = xcur + 1
      /\ UNCHANGED <<xstatus, stored, request, tcolls, tobjs, tmeta, faults>>
      /\ xpc' = IF ~E!Selected(stored.items[xcur + 1]) THEN "next"
                ELSE IF request.op = "all" THEN "extract" ELSE "single"
  BY DEF E!NextItem, E!callVars, E!targetVars, E!boundVars
<1>2. request = Everything /\ request.op = "all" /\ xcur \in Nat /\ xstatus = "ok"
  BY <1>1, StoredIs DEF TargetInv, Position, Everything
<1>3. xpc' = "extract"
  BY <1>1, <1>2 DEF E!Selected
<1>4. xcur' \in 0..Len(stored'.entries)
  BY <1>1, <1>2, StoredIs
<1>5. Position'
  BY <1>1, <1>2, <1>3, <1>4 DEF TargetInv, Position, Busy
<1>6. \A k \in 1..xcur : k \in 1..xcur'
  BY <1>1, <1>2
<1>7. OnlyItems'
  BY <1>1, <1>6 DEF TargetInv, OnlyItems, DataNames
<1>8. \A name \in DOMAIN tobjs' : tobjs'[name] \in Content
  BY <1>1 DEF TargetInv
<1>9. AllArrived'
  <2> SUFFICES ASSUME xstatus' = "ok", faults' = 0 PROVE AllArrived'
    BY DEF AllArrived
  <2>1. /\ Root \in tcolls
        /\ \A k \in 1..xcur : Present(k) /\ NameOf(stored.items[k]) \in tmeta
        /\ \A name \in DOMAIN tobjs : Full(name)
    BY <1>1 DEF TargetInv, AllArrived, Busy, Writing
  <2>2. \A k \in 1..xcur' : k = xcur' \/ k \in 1..xcur
    BY <1>1, <1>2
  <2>3. \A k \in 1..xcur : Present(k)'
    BY <1>1, <2>1 DEF Present
  <2>4. \A name \in DOMAIN tobjs' : Full(name)'
    BY <1>1, <1>6, <2>1 DEF Full
  <2>5. QED
    BY <1>1, <1>3, <2>1, <2>2, <2>3, <2>4 DEF AllArrived, Busy
<1>10. InHand'
  BY <1>3 DEF InHand
<1>11. QED
  BY <1>5, <1>7, <1>8, <1>9, <1>10 DEF TargetInv

\* A collection has been made, or is there already.
LEMMA TargetMakesColl ==
    ASSUME CreateInv, TargetInv, pc = "done", pc' = "done", xpc = "extract", xpc' = "meta",
           stored.entries[xcur].item.type = "coll", xstatus' = "ok",
           tcolls' = tcolls \cup {stored.items[xcur].coll},
           UNCHANGED <<stored, request, xcur, tobjs, tmeta, faults>>
    PROVE  TargetInv'
<1>1. xcur \in 1..Len(stored.entries) /\ xcur \in Nat /\ xcur \in 1..xcur
  BY StoredIs DEF TargetInv, Position, Busy
<1>2. stored.items[xcur].type = "coll" /\ stored.items[xcur] \in Item
  BY <1>1, StoredIs
<1>3. Position'
  BY <1>1 DEF TargetInv, Position, Busy
<1>4. OnlyItems'
  BY <1>1, <1>2 DEF TargetInv, OnlyItems, DataNames
<1>5. \A name \in DOMAIN tobjs' : tobjs'[name] \in Content
  BY DEF TargetInv
<1>6. AllArrived'
  <2> SUFFICES ASSUME xstatus' = "ok", faults' = 0 PROVE AllArrived'
    BY DEF AllArrived
  <2>1. /\ Root \in tcolls
        /\ \A k \in 1..xcur : k = xcur \/ (Present(k) /\ NameOf(stored.items[k]) \in tmeta)
        /\ \A name \in DOMAIN tobjs : Full(name)
    BY DEF TargetInv, AllArrived, Busy, Writing, Position
  <2>2. Present(xcur)' /\ \A k \in 1..xcur : Present(k) => Present(k)'
    BY <1>2 DEF Present
  <2>3. \A name \in DOMAIN tobjs' : Full(name)'
    BY <2>1 DEF Full
  <2>4. QED
    BY <2>1, <2>2, <2>3 DEF AllArrived, Busy
<1>7. InHand'
  BY <1>2 DEF InHand, Present
<1>8. QED
  BY <1>3, <1>4, <1>5, <1>6, <1>7 DEF TargetInv

\* A data object is created, or gets another chunk.
LEMMA TargetPuts ==
    ASSUME CreateInv, TargetInv, pc = "done", pc' = "done", xpc \in {"extract", "write"},
           xpc' = "write", stored.items[xcur].type = "dataObj",
           NEW content \in Content, E!Put(NameOf(stored.items[xcur]), content),
           (xstatus = "ok" /\ faults = 0) =>
              content.of = NameOf(stored.items[xcur]) /\ content.len = content.units,
           UNCHANGED <<stored, request, xstatus, xcur, tcolls, tmeta, faults>>
    PROVE  TargetInv'
<1> DEFINE n == NameOf(stored.items[xcur])
<1>1. xcur \in 1..Len(stored.entries) /\ xcur \in Nat /\ xcur \in 1..xcur /\ xstatus = "ok"
  BY StoredIs DEF TargetInv, Position, Busy
<1>2. tobjs' = [m \in DOMAIN tobjs \cup {n} |-> IF m = n THEN content ELSE tobjs[m]]
  BY DEF E!Put
<1> HIDE DEF n
<1>3. /\ DOMAIN tobjs' = DOMAIN tobjs \cup {n} /\ tobjs'[n] = content
      /\ \A m \in DOMAIN tobjs : m # n => tobjs'[m] = tobjs[m]
  BY <1>2
<1>4. Position'
  BY <1>1 DEF TargetInv, Position, Busy
<1>5. n \in DataNames
  BY <1>1 DEF DataNames, n
<1>6. OnlyItems'
  <2>1. DataNames' = DataNames
    BY DEF DataNames
  <2>2. QED
    BY <1>3, <1>5, <2>1 DEF TargetInv, OnlyItems
<1>7. \A name \in DOMAIN tobjs' : tobjs'[name] \in Content
  BY <1>3 DEF TargetInv
<1>8. AllArrived'
  <2> SUFFICES ASSUME xstatus' = "ok", faults' = 0 PROVE AllArrived'
    BY DEF AllArrived
  <2>1. /\ Root \in tcolls
        /\ \A k \in 1..xcur : k = xcur \/ (Present(k) /\ NameOf(stored.items[k]) \in tmeta)
        /\ \A name \in DOMAIN tobjs : Full(name) \/ Writing(name)
    BY DEF TargetInv, AllArrived, Busy, Position
  <2>2. Present(xcur)' /\ \A k \in 1..xcur : Present(k) => Present(k)'
    BY <1>3 DEF Present, n
  <2>3. \A name \in DOMAIN tobjs : name # n => Full(name)
    BY <2>1 DEF Writing, n
  <2>4. ASSUME NEW name \in DOMAIN tobjs' PROVE Full(name)' \/ Writing(name)'
    <3>1. CASE name = n
      BY <1>1, <1>3, <3>1 DEF Writing, n
    <3>2. CASE name # n
      <4>1. name \in DOMAIN tobjs /\ tobjs'[name] = tobjs[name] /\ Full(name)
        BY <1>3, <2>3, <3>2
      <4>2. Full(name)'
        BY <4>1 DEF Full
      <4>3. QED
        BY <4>2
    <3>3. QED
      BY <3>1, <3>2
  <2>5. QED
    BY <2>1, <2>2, <2>4 DEF AllArrived, Busy
<1>9. InHand'
  BY <1>3 DEF InHand, Present, n
<1>10. QED
  BY <1>4, <1>6, <1>7, <1>8, <1>9 DEF TargetInv

\* A data object has been written to its end.
LEMMA TargetFills ==
    ASSUME CreateInv, TargetInv, pc = "done", pc' = "done", E!WriteDone
    PROVE  TargetInv'
<1>1. /\ xpc = "write" /\ xpc' = "meta" /\ xstatus' = "ok"
      /\ tobjs[NameOf(stored.items[xcur])].units = stored.entries[xcur].item.size
      /\ UNCHANGED <<stored, request, xcur, tcolls, tobjs, tmeta, faults>>
  BY SameNames DEF E!WriteDone, E!callVars, E!targetVars, E!boundVars, E!Written, E!Current,
                   E!CurrentEntry
<1>2. xcur \in 1..Len(stored.entries) /\ xcur \in Nat /\ xcur \in 1..xcur /\ xstatus = "ok"
  BY <1>1, StoredIs DEF TargetInv, Position, Busy
<1>3. stored.items[xcur].size = stored.entries[xcur].item.size
  BY <1>2, StoredIs
<1>4. Position'
  BY <1>1, <1>2 DEF TargetInv, Position, Busy
<1>5. OnlyItems' /\ \A name \in DOMAIN tobjs' : tobjs'[name] \in Content
  BY <1>1, OnlyItemsStay
<1>6. AllArrived'
  <2> SUFFICES ASSUME xstatus' = "ok", faults' = 0 PROVE AllArrived'
    BY DEF AllArrived
  <2>1. /\ Root \in tcolls /\ Present(xcur) /\ stored.items[xcur].type = "dataObj"
        /\ \A k \in 1..xcur : k = xcur \/ (Present(k) /\ NameOf(stored.items[k]) \in tmeta)
        /\ \A name \in DOMAIN tobjs : Full(name) \/ Writing(name)
    BY <1>1, <1>2 DEF TargetInv, AllArrived, InHand, Busy
  <2>2. ASSUME NEW name \in DOMAIN tobjs, Writing(name) PROVE Full(name)
    <3>1. /\ name = NameOf(stored.items[xcur]) /\ tobjs[name].of = name
          /\ tobjs[name].len = tobjs[name].units /\ tobjs[name].units = stored.items[xcur].size
      BY <1>1, <1>3, <2>2 DEF Writing
    <3>2. tobjs[name] \in Content
      BY DEF TargetInv
    <3>3. tobjs[name] = [of |-> name, units |-> stored.items[xcur].size, len |-> stored.items[xcur].size]
      BY <3>1, <3>2 DEF Content
    <3>4. QED
      BY <1>2, <2>1, <3>1, <3>3 DEF Full
  <2>3. \A name \in DOMAIN tobjs' : Full(name)'
    BY <1>1, <2>1, <2>2 DEF Full
  <2>4. \A k \in 1..xcur : Present(k) => Present(k)'
    BY <1>1 DEF Present
  <2>5. QED
    BY <1>1, <1>2, <2>1, <2>3, <2>4 DEF AllArrived, Busy
<1>7. InHand'
  BY <1>1 DEF TargetInv, InHand, Present
<1>8. QED
  BY <1>4, <1>5, <1>6, <1>7 DEF TargetInv

\* The metadata of an item is restored, or not.
LEMMA TargetMarks ==
    ASSUME CreateInv, TargetInv, pc = "done", pc' = "done", E!Metadata
    PROVE  TargetInv'
<1>1. /\ xpc = "meta" /\ xpc' = IF request.op = "all" THEN "next" ELSE "close"
      /\ UNCHANGED <<stored, request, xcur, tcolls, tobjs, xstatus>>
      /\ \/ tmeta' = tmeta \cup {NameOf(stored.items[xcur])} /\ faults' = faults
         \/ faults' = faults + 1 /\ tmeta' = tmeta
  BY SameNames DEF E!Metadata, E!callVars, E!boundVars, E!Fault, E!Current
<1>2. /\ xcur \in 1..Len(stored.entries) /\ xcur \in Nat /\ xcur \in 1..xcur /\ xstatus = "ok"
      /\ request.op = "all" /\ request = Everything
  BY <1>1, StoredIs DEF TargetInv, Position, Busy, Everything
<1>3. xpc = "meta" /\ xpc' = "next" /\ faults \in Nat
  BY <1>1, <1>2 DEF E!Metadata, CreateInv, CreateTypeOK, WalkTypeOK
<1>4. Position'
  BY <1>1, <1>2, <1>3 DEF TargetInv, Position, Busy
<1>5. OnlyItems'
  BY <1>1, <1>2 DEF TargetInv, OnlyItems, DataNames
<1>6. \A name \in DOMAIN tobjs' : tobjs'[name] \in Content
  BY <1>1 DEF TargetInv
<1>7. AllArrived'
  <2> SUFFICES ASSUME xstatus' = "ok", faults' = 0 PROVE AllArrived'
    BY DEF AllArrived
  <2>1. tmeta' = tmeta \cup {NameOf(stored.items[xcur])} /\ faults = 0
    BY <1>1, <1>3
  <2>2. /\ Root \in tcolls /\ Present(xcur)
        /\ \A k \in 1..xcur : k = xcur \/ (Present(k) /\ NameOf(stored.items[k]) \in tmeta)
        /\ \A name \in DOMAIN tobjs : Full(name)
    BY <1>2, <1>3, <2>1 DEF TargetInv, AllArrived, InHand, Busy, Writing
  <2>3. \A k \in 1..xcur : Present(k) => Present(k)'
    BY <1>1 DEF Present
  <2>4. \A name \in DOMAIN tobjs' : Full(name)'
    BY <1>1, <2>2 DEF Full
  <2>5. QED
    BY <1>1, <1>3, <2>1, <2>2, <2>3, <2>4 DEF AllArrived, Busy
<1>8. InHand'
  BY <1>3 DEF InHand
<1>9. QED
  BY <1>4, <1>5, <1>6, <1>7, <1>8 DEF TargetInv

\* Every step of msiArchiveExtract.
LEMMA TargetExtracted ==
    ASSUME CreateInv, TargetInv, Extracting
    PROVE  TargetInv'
<1>1. /\ pc = "done" /\ pc' = "done" /\ E!ExtractStep
      /\ UNCHANGED <<stored, request>>
      /\ faults' = faults \/ (faults < MaxFaults /\ faults' = faults + 1)
  BY ExtractingIs DEF Extracting
<1>2. /\ request = Everything /\ request.op = "all" /\ request.space = 0
      /\ Busy => xcur # 0
      /\ xpc \in {"open", "space", "mkpath"} => xcur = 0
      /\ xpc \in {"open", "space", "mkpath", "next", "extract", "write", "meta",
                 "close", "done", "crashed"}
      /\ xcur \in 0..Len(stored.entries)
  BY DEF TargetInv, Position, Everything
<1>3. faults \in Nat /\ (faults' = faults + 1 => faults' # 0)
  BY DEF CreateInv, CreateTypeOK, WalkTypeOK
<1>4. CASE E!InvalidInput \/ E!OpenFails \/ E!OpenRejects
  <2>1. /\ xpc = "open" /\ UNCHANGED <<xcur, tcolls, tobjs, tmeta>>
        /\ \/ xpc' = "crashed" /\ xstatus' = xstatus
           \/ xpc' = "done" /\ xstatus' # "ok"
    BY <1>4 DEF E!InvalidInput, E!OpenFails, E!OpenRejects, E!Return, E!targetVars
  <2>2. QED
    BY <1>1, <1>2, <2>1, TargetBegins
<1>5. CASE E!Open
  <2>1. /\ xpc = "open" /\ UNCHANGED <<xstatus, tcolls, tobjs, tmeta>> /\ xcur' = 0 /\ xpc' = "space"
    BY <1>2, <1>5 DEF E!Open, E!targetVars
  <2>2. QED
    BY <1>1, <1>2, <2>1, TargetBegins
<1>6. CASE E!EnoughSpace \/ E!NotEnoughSpace
  <2>1. /\ xpc = "space" /\ UNCHANGED <<xcur, tcolls, tobjs, tmeta>>
        /\ \/ xpc' = "mkpath" /\ xstatus' = xstatus
           \/ xpc' = "done" /\ xstatus' # "ok"
    BY <1>6 DEF E!EnoughSpace, E!NotEnoughSpace, E!Return, E!targetVars
  <2>2. QED
    BY <1>1, <1>2, <2>1, TargetBegins
<1>7. CASE E!MakePath
  <2>1. /\ xpc = "mkpath" /\ UNCHANGED <<xstatus, xcur, tobjs, tmeta>> /\ xpc' = "next"
        /\ \/ tcolls' = tcolls \cup {Root}
           \/ tcolls' = tcolls /\ faults' = faults + 1
    BY <1>7 DEF E!MakePath, E!Fault
  <2>2. QED
    BY <1>1, <1>2, <1>3, <2>1, TargetBegins
<1>8. CASE E!NextItem
  BY <1>1, <1>8, TargetTakes
<1>9. CASE E!NoNextItem
  <2>1. /\ xpc = "next" /\ xpc' = "close" /\ UNCHANGED <<xstatus, xcur, tcolls, tobjs, tmeta>>
        /\ (xcur = Len(stored.entries) /\ faults' = faults) \/ faults' = faults + 1
    BY <1>9 DEF E!NoNextItem, E!Fault, E!boundVars, E!targetVars
  <2>2. CASE faults' = faults + 1
    BY <1>1, <1>3, <2>1, <2>2, TargetBreaks
  <2>3. CASE xcur = Len(stored.entries) /\ faults' = faults
    <3>1. Position'
      BY <1>1, <2>1 DEF TargetInv, Position, Busy
    <3>2. OnlyItems' /\ \A name \in DOMAIN tobjs' : tobjs'[name] \in Content
      BY <1>1, <2>1, OnlyItemsStay
    <3>3. AllArrived'
      BY <1>1, <2>1, <2>3 DEF TargetInv, AllArrived, Busy, Present, Full, Writing
    <3>4. InHand'
      BY <2>1 DEF InHand
    <3>5. QED
      BY <3>1, <3>2, <3>3, <3>4 DEF TargetInv
  <2>4. QED
    BY <2>1, <2>2, <2>3
<1>10. CASE E!ExtractColl
  <2>1. /\ xpc = "extract" /\ UNCHANGED <<xcur, tobjs, tmeta>>
        /\ stored.entries[xcur].item.type = "coll"
        /\ \/ /\ tcolls' = tcolls \cup {stored.items[xcur].coll}
              /\ xstatus' = "ok" /\ xpc' = "meta" /\ faults' = faults
           \/ xstatus' # "ok" /\ xpc' = "close" /\ tcolls' = tcolls
    BY <1>10 DEF E!ExtractColl, E!Break, E!Current, E!CurrentEntry, E!boundVars
  <2>2. QED
    BY <1>1, <2>1, TargetMakesColl, TargetBreaks
<1>11. CASE E!CreateObjFails \/ E!WriteFails
  <2>1. UNCHANGED <<xcur, tcolls, tobjs, tmeta>> /\ xpc' = "close" /\ xstatus' # "ok"
    BY <1>11 DEF E!CreateObjFails, E!WriteFails, E!Break, E!targetVars
  <2>2. QED
    BY <1>1, <2>1, TargetBreaks
<1>12. CASE E!CreateObj
  <2> DEFINE n == NameOf(stored.items[xcur])
             content == [of |-> NameOf(stored.entries[xcur].item), units |-> 0, len |-> 0]
  <2>1. /\ xpc = "extract" /\ xpc' = "write" /\ UNCHANGED <<xstatus, xcur, tcolls, tmeta, faults>>
        /\ stored.entries[xcur].item.type = "dataObj" /\ E!Put(n, content)
    BY <1>12, SameNames DEF E!CreateObj, E!Current, E!CurrentEntry, E!boundVars
  <2>2. xcur \in 1..Len(stored.entries)
    BY <1>2, <2>1, StoredIs DEF Busy
  <2>3. stored.entries[xcur].item = stored.items[xcur] /\ stored.items[xcur] \in Item
    BY <2>2, StoredIs
  <2>4. content.of = n /\ content.len = content.units /\ content \in Content
    BY <2>3 DEF Content, Name, NameOf, Item
  <2> HIDE DEF content
  <2>5. QED
    BY <1>1, <2>1, <2>3, <2>4, TargetPuts
<1>13. CASE E!WriteChunk
  <2> DEFINE n == NameOf(stored.items[xcur])
             old == tobjs[n]
             m == E!AtMost(old.units + Buf, E!Readable)
             content == [old EXCEPT !.units = m, !.len = IF @ < m THEN m ELSE @]
  <2>1. /\ xpc = "write" /\ xpc' = "write" /\ UNCHANGED <<xstatus, xcur, tcolls, tmeta, faults>>
        /\ old.units < E!Readable /\ E!Put(n, content)
    BY <1>13, SameNames DEF E!WriteChunk, E!Current, E!Written, E!boundVars
  <2>2. xcur \in 1..Len(stored.entries)
    BY <1>2, <2>1, StoredIs DEF Busy
  <2>3. /\ stored.entries[xcur].item = stored.items[xcur] /\ stored.items[xcur] \in Item
        /\ stored.entries[xcur].got \in Nat
    BY <2>2, StoredIs
  <2>4. E!Readable \in Nat
    BY <2>3 DEF E!Readable, E!CurrentEntry, Item
  <2>5. n \in DOMAIN tobjs /\ stored.items[xcur].type = "dataObj" /\ old \in Content
    BY <2>1 DEF TargetInv, InHand, Present
  <2>6. m \in Nat /\ old.units <= m
    BY <2>1, <2>4, <2>5, CreateAssumption DEF Content, E!AtMost
  <2> DEFINE len == IF old.len < m THEN m ELSE old.len
  <2>a. content = [old EXCEPT !.units = m, !.len = len]
    BY <2>5 DEF Content
  <2> HIDE DEF m, old
  <2>b. len \in Nat /\ (old.len = old.units => len = m)
    BY <2>5, <2>6 DEF Content
  <2> HIDE DEF len, content
  <2>7. /\ content \in Content /\ content.of = old.of
        /\ old.len = old.units => content.len = content.units
    <3>1. [old EXCEPT !.units = m, !.len = len] \in Content
      BY <2>5, <2>6, <2>b DEF Content
    <3>2. /\ [old EXCEPT !.units = m, !.len = len].of = old.of
          /\ [old EXCEPT !.units = m, !.len = len].units = m
          /\ [old EXCEPT !.units = m, !.len = len].len = len
      BY <2>5 DEF Content
    <3>3. QED
      BY <3>1, <3>2, <2>a, <2>b
  <2>8. (xstatus = "ok" /\ faults = 0) => old.of = n /\ old.len = old.units
    <3> SUFFICES ASSUME xstatus = "ok", faults = 0 PROVE old.of = n /\ old.len = old.units
      OBVIOUS
    <3> HIDE DEF n
    <3>1. Full(n) \/ Writing(n)
      BY <1>1, <2>5 DEF TargetInv, AllArrived
    <3>2. CASE Full(n)
      <4>1. PICK k \in 1..xcur : tobjs[n] = [of |-> n, units |-> stored.items[k].size,
                                            len |-> stored.items[k].size]
        BY <3>2 DEF Full
      <4>2. QED
        BY <4>1 DEF old
    <3>3. CASE Writing(n)
      BY <3>3 DEF Writing, old
    <3>4. QED
      BY <3>1, <3>2, <3>3
  <2>9. QED
    BY <1>1, <2>1, <2>5, <2>7, <2>8, TargetPuts
<1>14. CASE E!WriteDone
  BY <1>1, <1>14, TargetFills
<1>15. CASE E!Metadata
  BY <1>1, <1>15, TargetMarks
<1>16. CASE E!Close
  <2>1. xpc = "close" /\ xpc' = "done" /\ UNCHANGED <<xstatus, xcur, tcolls, tobjs, tmeta, faults>>
    BY <1>16 DEF E!Close, E!boundVars, E!targetVars
  <2>2. Position'
    BY <1>1, <2>1 DEF TargetInv, Position, Busy
  <2>3. OnlyItems' /\ \A name \in DOMAIN tobjs' : tobjs'[name] \in Content
    BY <1>1, <2>1, OnlyItemsStay
  <2>4. AllArrived'
    BY <1>1, <2>1 DEF TargetInv, AllArrived, Busy, Present, Full, Writing
  <2>5. InHand'
    BY <2>1 DEF InHand
  <2>6. QED
    BY <2>2, <2>3, <2>4, <2>5 DEF TargetInv
<1>17. ~E!Index /\ ~E!MakeHolder /\ ~E!SingleTooLarge
  BY <1>2 DEF E!Index, E!MakeHolder, E!SingleTooLarge
<1>18. QED
  BY <1>1, <1>4, <1>5, <1>6, <1>7, <1>8, <1>9, <1>10, <1>11, <1>12, <1>13, <1>14, <1>15, <1>16, <1>17
     DEF E!ExtractStep

\* As long as msiArchiveCreate works nothing is extracted.
LEMMA TargetWaits ==
    ASSUME TargetInv, CreateInv', pc # "done", UNCHANGED extractVars
    PROVE  TargetInv'
<1>1. UNCHANGED <<xpc, xstatus, xcur, tcolls, tobjs, tmeta, request>>
  BY DEF extractVars
<1>2. xpc = "open" /\ xcur = 0 /\ request = Everything /\ xstatus = "ok"
  BY DEF TargetInv, Position
<1>3. Position'
  <2>1. stored' \in ArchiveFile
    BY DEF CreateInv, CreateTypeOK
  <2>2. Len(stored'.entries) \in Nat
    BY <2>1 DEF ArchiveFile
  <2>3. xcur' \in 0..Len(stored'.entries)
    BY <1>1, <1>2, <2>2
  <2>4. QED
    BY <1>1, <1>2, <2>3 DEF Position, Busy
<1>4. OnlyItems' /\ \A name \in DOMAIN tobjs' : tobjs'[name] \in Content
  BY <1>1, <1>2, OnlyItemsStay
<1>5. AllArrived'
  BY <1>1, <1>2, <1>4, NothingArrived
<1>6. InHand'
  BY <1>1, <1>2 DEF InHand
<1>7. QED
  BY <1>3, <1>4, <1>5, <1>6 DEF TargetInv

\* Nothing has been extracted at first.
LEMMA TargetInit == ASSUME SystemInit, CreateInv PROVE TargetInv
<1>1. /\ xpc = "open" /\ xstatus = "ok" /\ xcur = 0 /\ request = Everything
      /\ tcolls = {} /\ tobjs = <<>> /\ tmeta = {}
  BY DEF SystemInit, NoContents
<1>2. Position
  <2>1. Len(stored.entries) \in Nat
    BY StoredIs
  <2>2. QED
    BY <1>1, <2>1 DEF Position, Busy
<1>3. DOMAIN tobjs = {}
  BY <1>1
<1>4. OnlyItems /\ \A name \in DOMAIN tobjs : tobjs[name] \in Content
  BY <1>1, <1>3 DEF OnlyItems
<1>5. AllArrived
  <2>1. \A k \in 1..xcur : FALSE
    BY <1>1
  <2>2. QED
    BY <1>1, <1>3, <2>1 DEF AllArrived
<1>6. InHand
  BY <1>1 DEF InHand
<1>7. QED
  BY <1>2, <1>4, <1>5, <1>6 DEF TargetInv

\* Every step.
LEMMA TargetNext ==
    ASSUME CreateInv, CreateInv', TargetInv, [SystemNext]_systemVars
    PROVE  TargetInv'
<1>1. CASE Creating
  <2>1. pc # "done"
    BY <1>1 DEF Creating, CreateStep, Construct, InvalidInput, collID, collIDFails, create, createFails,
                Walk, WriteIndex, AppendFails, WriteHeader, OpenObj, OpenObjFails, CopyChunk,
                ReadFails, CopyDone, AllItemsWritten, Free, FreeFails
  <2>2. QED
    BY <1>1, <2>1, TargetWaits DEF Creating
<1>2. CASE Editing
  BY <1>2, TargetWaits DEF Editing
<1>3. CASE Extracting
  BY <1>3, TargetExtracted
<1>4. CASE SystemOver \/ UNCHANGED systemVars
  <2>1. UNCHANGED vars /\ UNCHANGED extractVars
    BY <1>4 DEF SystemOver, systemVars
  <2>2. /\ UNCHANGED <<xpc, xstatus, xcur, tcolls, tobjs, tmeta, request>>
        /\ UNCHANGED <<pc, stored, faults>>
    BY <2>1 DEF extractVars, vars, createVars
  <2>3. Position'
    BY <2>2 DEF TargetInv, Position, Busy
  <2>4. OnlyItems' /\ \A name \in DOMAIN tobjs' : tobjs'[name] \in Content
    BY <2>2, OnlyItemsStay
  <2>5. AllArrived'
    BY <2>2 DEF TargetInv, AllArrived, Busy, Present, Full, Writing
  <2>6. InHand'
    BY <2>2 DEF TargetInv, InHand, Present
  <2>7. QED
    BY <2>3, <2>4, <2>5, <2>6 DEF TargetInv
<1>5. QED
  BY <1>1, <1>2, <1>3, <1>4 DEF SystemNext

-----------------------------------------------------------------------------
(* Both calls.                                                             *)

\* The inductive invariant of the two calls together.
SystemInv == SourceInv /\ TargetInv

\* It holds of every behaviour of the two calls, whatever fails and whatever
\* other agents change while the archive is created.
THEOREM SystemInvariance == SystemSpec => []SystemInv
<1>1. SystemInit => SystemInv
  BY SourceInit, TargetInit DEF SystemInv, SourceInv
<1>2. SystemInv /\ [SystemNext]_systemVars => SystemInv'
  <2> SUFFICES ASSUME SystemInv, [SystemNext]_systemVars PROVE SystemInv'
    OBVIOUS
  <2>1. SourceInv'
    BY SourceNext DEF SystemInv
  <2>2. CreateInv /\ CreateInv'
    BY <2>1 DEF SystemInv, SourceInv
  <2>3. TargetInv'
    BY <2>2, TargetNext DEF SystemInv
  <2>4. QED
    BY <2>1, <2>3 DEF SystemInv
<1>3. QED
  BY <1>1, <1>2, PTL DEF SystemSpec

\* When both calls have succeeded, the index and its entries are the list of
\* the walk, and every item of it has arrived.
LEMMA WhatArrived ==
    ASSUME SystemInv, BothSucceeded
    PROVE  /\ list \in Seq(IntactItem) /\ list \in Seq(SoundItem) /\ Len(list) \in Nat
           /\ stored.items = list /\ Len(stored.entries) = Len(list) /\ xcur = Len(list)
           /\ \A k \in 1..Len(list) : Present(k) /\ NameOf(list[k]) \in tmeta
           /\ \A name \in DOMAIN tobjs : Full(name)
           /\ \A k \in 1..Len(list) :
                 /\ stored.entries[k].item = list[k]
                 /\ NameOf(list[k]) \notin touched => stored.entries[k].got = list[k].size
           /\ \A name \in Archivable \ touched : Named(list, name)
           /\ Root \in tcolls
<1>1. /\ pc = "done" /\ status = "ok" /\ xpc = "done" /\ xstatus = "ok" /\ faults = 0
      /\ CreateInv /\ ListingInv /\ SourceInv /\ TargetInv
  BY DEF BothSucceeded, SystemInv, SourceInv, CreateInv
<1>2. list \in Seq(IntactItem) /\ list \in Seq(SoundItem) /\ Len(list) \in Nat
  BY <1>1 DEF SourceInv, ListingInv
<1>3. /\ stored = [arc EXCEPT !.whole = TRUE] /\ arc.form = "indexed"
      /\ idx = Len(list) /\ Len(arc.entries) = Len(list)
  BY <1>1 DEF CreateInv, Outcome
<1>4. arc \in ArchiveFile /\ stack = <<>> /\ arc.items = list
  BY <1>1, <1>3 DEF CreateInv, CreateTypeOK, Written
<1>5. stored.items = list /\ stored.entries = arc.entries /\ Len(stored.entries) = Len(list)
  BY <1>3, <1>4 DEF ArchiveFile
<1>6. /\ xcur = Len(list) /\ Root \in tcolls
      /\ \A k \in 1..xcur : Present(k) /\ NameOf(stored.items[k]) \in tmeta
      /\ \A name \in DOMAIN tobjs : Full(name)
  BY <1>1, <1>5 DEF TargetInv, AllArrived, Busy, Writing
<1>7. \A k \in 1..Len(list) : Present(k) /\ NameOf(list[k]) \in tmeta
  BY <1>5, <1>6
<1>8. ASSUME NEW k \in 1..Len(list)
      PROVE  /\ stored.entries[k].item = list[k]
             /\ NameOf(list[k]) \notin touched => stored.entries[k].got = list[k].size
  <2>1. k \in 1..Len(arc.entries) /\ k \in Nat /\ k <= idx
    BY <1>2, <1>3
  <2>2. arc.entries[k].item = arc.items[k]
    BY <1>1, <2>1 DEF CreateInv, Written
  <2>3. NameOf(arc.entries[k].item) \notin touched => arc.entries[k].got = arc.entries[k].item.size
    BY <1>1, <2>1 DEF SourceInv, CopiedIntact
  <2>4. QED
    BY <1>4, <1>5, <2>2, <2>3
<1>9. \A name \in Archivable \ touched : Named(list, name)
  <2>1. \A name \in Archivable \ touched : Covered(<<>>, list, name)
    BY <1>1, <1>4 DEF SourceInv, Coverage, Listing
  <2>2. WalkTypeOK /\ Rooted /\ TouchedOK
    BY <1>1 DEF SourceInv, CreateInv, CreateTypeOK
  <2>3. QED
    BY <1>2, <2>1, <2>2, AllNamed
<1>10. QED
  BY <1>2, <1>5, <1>6, <1>7, <1>8, <1>9

\* An item tells by its name whether it is a collection.
LEMMA ItemKinds ==
    ASSUME list \in Seq(SoundItem), NEW k \in 1..Len(list)
    PROVE  /\ list[k] \in Item
           /\ list[k].type = "coll" => list[k].base = NoBase
           /\ list[k].type # "coll" => /\ list[k].type = "dataObj" /\ list[k].base \in Base
                                       /\ list[k].base # NoBase /\ NameOf(list[k]) # Target
<1>1. list[k] \in SoundItem
  OBVIOUS
<1>2. QED
  BY <1>1, TreeAssumption DEF SoundItem, CollItem, Item

\* All items of a data object that nobody touched have the size of its good
\* replicas.
LEMMA OneSize ==
    ASSUME Rooted, list \in Seq(IntactItem), list \in Seq(SoundItem),
           NEW j \in 1..Len(list), NEW k \in 1..Len(list),
           NameOf(list[j]) = NameOf(list[k]), NameOf(list[k]) \notin touched,
           list[k].type = "dataObj", collOf \in [CollId -> Coll \cup {NoColl}],
           repl \in [CollId -> [Base -> SUBSET Replica]], NoColl \notin Coll
    PROVE  /\ list[j].size = list[k].size
           /\ Readable(list[k].coll, list[k].base, list[k].size)
<1>1. list[j] \in IntactItem /\ list[k] \in IntactItem
  OBVIOUS
<1>2. /\ list[j] \in Item /\ list[k] \in Item
      /\ list[j].coll = list[k].coll /\ list[j].base = list[k].base
      /\ list[k].base \in Base /\ list[j].type = "dataObj"
  BY ItemKinds DEF NameOf
<1>3. /\ Readable(list[k].coll, list[k].base, list[k].size)
      /\ Readable(list[k].coll, list[k].base, list[j].size)
  BY <1>1, <1>2 DEF IntactItem
<1>4. PICK id \in CollId : /\ collOf[id] = list[k].coll
                           /\ \E q \in GoodReplicas(id, list[k].base) : q.size = list[k].size
  BY <1>3 DEF Readable
<1>5. PICK ix \in CollId : /\ collOf[ix] = list[k].coll
                           /\ \E q \in GoodReplicas(ix, list[k].base) : q.size = list[j].size
  BY <1>3 DEF Readable
<1>6. id = ix
  BY <1>2, <1>4, <1>5 DEF Rooted, UniquePaths, Item
<1>7. list[j].size = list[k].size
  BY <1>2, <1>4, <1>5, <1>6 DEF Rooted, SameSizes, GoodReplicas
<1>8. QED
  BY <1>3, <1>7

\* Such a name is restored.
LEMMA NameRestored ==
    ASSUME SystemInv, BothSucceeded, NEW name \in Archivable \ touched
    PROVE  Restored(name)
<1>1. /\ list \in Seq(IntactItem) /\ list \in Seq(SoundItem) /\ Len(list) \in Nat
      /\ stored.items = list /\ Len(stored.entries) = Len(list) /\ xcur = Len(list)
      /\ \A m \in 1..Len(list) : Present(m) /\ NameOf(list[m]) \in tmeta
      /\ \A m \in DOMAIN tobjs : Full(m)
      /\ \A m \in 1..Len(list) :
            /\ stored.entries[m].item = list[m]
            /\ NameOf(list[m]) \notin touched => stored.entries[m].got = list[m].size
      /\ Named(list, name)
  BY WhatArrived
<1>2. /\ Rooted /\ collOf \in [CollId -> Coll \cup {NoColl}] /\ NoColl \notin Coll
      /\ repl \in [CollId -> [Base -> SUBSET Replica]] /\ CreateInv
  BY CatalogAssumption DEF SystemInv, SourceInv, CreateInv, CreateTypeOK, WalkTypeOK
<1>3. PICK i \in 1..Len(list) : NameOf(list[i]) = name
  BY <1>1 DEF Named
<1>4. name \in tmeta /\ Present(i) /\ name.coll = list[i].coll /\ name.base = list[i].base
  BY <1>1, <1>3 DEF NameOf
<1>5. CASE name.base = NoBase
  <2>1. list[i].type = "coll"
    BY <1>1, <1>4, <1>5, ItemKinds
  <2>2. name.coll \in tcolls
    BY <1>1, <1>4, <2>1 DEF Present
  <2>3. QED
    BY <1>4, <1>5, <2>2 DEF Restored
<1>6. CASE name.base # NoBase
  <2>1. list[i].type = "dataObj"
    BY <1>1, <1>4, <1>6, ItemKinds
  <2>2. name \in DOMAIN tobjs
    BY <1>1, <1>3, <1>4, <2>1 DEF Present
  <2>3. PICK k \in 1..xcur : /\ list[k].type = "dataObj" /\ NameOf(list[k]) = name
                             /\ tobjs[name] = [of |-> name, units |-> list[k].size,
                                               len |-> list[k].size]
    BY <1>1, <2>2 DEF Full
  <2>4. k \in 1..Len(list)
    BY <1>1
  <2>5. /\ Readable(list[k].coll, list[k].base, list[k].size)
        /\ list[k].coll = name.coll /\ list[k].base = name.base
    BY <1>1, <1>2, <2>3, <2>4, OneSize DEF NameOf
  <2>6. PICK id \in CollId : \E r \in GoodReplicas(id, name.base) :
            collOf[id] = name.coll /\ r.size = list[k].size
    BY <2>5 DEF Readable
  <2>7. Archived(name, list[k].size)
    <3>1. ASSUME NEW j \in DOMAIN stored.entries, NameOf(stored.entries[j].item) = name
          PROVE  stored.entries[j].got = list[k].size
      <4>1. j \in 1..Len(list)
        BY <1>1, <1>2, StoredIs
      <4>2. NameOf(list[j]) = name /\ stored.entries[j].got = list[j].size
        BY <1>1, <3>1, <4>1
      <4>3. list[j].size = list[k].size
        BY <1>1, <1>2, <2>3, <2>4, <4>1, <4>2, OneSize
      <4>4. QED
        BY <4>2, <4>3
    <3>2. QED
      BY <3>1 DEF Archived
  <2>8. PICK r \in GoodReplicas(id, name.base) : collOf[id] = name.coll /\ r.size = list[k].size
    BY <2>6
  <2>9. QED
    BY <1>4, <1>6, <2>2, <2>3, <2>7, <2>8 DEF Restored
<1>7. QED
  BY <1>5, <1>6

\* What has been listed under a name that nobody changed is a name of the
\* collection.
LEMMA OnlyArchivable ==
    ASSUME SystemInv, HoldersFirst(list), NEW k \in 1..Len(list)
    PROVE  NameOf(list[k]) \in Archivable \cup touched
<1> SUFFICES ASSUME NameOf(list[k]) \notin touched
             PROVE  NameOf(list[k]) \in Archivable
  OBVIOUS
<1>1. list \in Seq(IntactItem) /\ list \in Seq(SoundItem)
  BY DEF SystemInv, SourceInv, CreateInv, ListingInv
<1>2. list[k] \in IntactItem /\ list[k] \in Item
  BY <1>1, ItemKinds
<1>3. NameOf(list[k]) \in Name /\ NameOf(list[k]).coll = list[k].coll
      /\ NameOf(list[k]).base = list[k].base
  BY <1>2 DEF NameOf, Name, Item
<1>4. CASE list[k].type = "coll"
  <2>1. list[k].coll # Root
    BY <1>4 DEF HoldersFirst
  <2>2. PathTaken(list[k].coll)
    BY <1>2, <1>4 DEF IntactItem
  <2>3. QED
    BY <1>1, <1>3, <1>4, <2>1, <2>2, ItemKinds DEF Archivable
<1>5. CASE list[k].type # "coll"
  <2>1. Readable(list[k].coll, list[k].base, list[k].size)
    BY <1>2, <1>5 DEF IntactItem
  <2>2. \E id \in CollId : collOf[id] = list[k].coll /\ GoodReplicas(id, list[k].base) # {}
    BY <2>1 DEF Readable
  <2>3. QED
    BY <1>1, <1>3, <1>5, <2>2, ItemKinds DEF Archivable
<1>6. QED
  BY <1>4, <1>5

\* The index that is left in the archive object is that of the walk, or there
\* is none.
StoredListed == stored.items = <<>> \/ stored.items = list

\* The step that gives msiArchiveCreate's last version of the archive object.
LEMMA FreeListed ==
    ASSUME CreateInv, Free \/ FreeFails
    PROVE  StoredListed'
<1>1. arc \in ArchiveFile /\ UNCHANGED list
  BY DEF CreateInv, CreateTypeOK, Free, FreeFails, walkVars
<1>2. arc.items = <<>> \/ arc.items = list
  BY DEF CreateInv, Written, NoIndex
<1>3. stored'.items = <<>> \/ stored'.items = arc.items
  <2>1. CASE Free
    BY <1>1, <2>1 DEF Free, ArchiveFile
  <2>2. CASE FreeFails
    <3>1. stored' \in Cut(arc)
      BY <2>2 DEF FreeFails
    <3>2. CASE stored' = NoIndex("bare")
      BY <3>2 DEF NoIndex
    <3>3. CASE \E n \in 0..Len(arc.entries) :
                   stored' = [arc EXCEPT !.entries = SubSeq(arc.entries, 1, n)]
      BY <1>1, <3>3 DEF ArchiveFile
    <3>4. QED
      BY <3>1, <3>2, <3>3 DEF Cut
  <2>3. QED
    BY <2>1, <2>2
<1>4. QED
  BY <1>1, <1>2, <1>3 DEF StoredListed

LEMMA ListedNext ==
    ASSUME StoredListed, SystemInv, SystemInv', [SystemNext]_systemVars
    PROVE  StoredListed'
<1>1. CreateInv /\ CreateInv'
  BY DEF SystemInv, SourceInv
<1>2. CASE pc' # "done"
  <2>1. stored' = NoIndex("none") \/ stored' = NoIndex("bare")
    BY <1>1, <1>2 DEF CreateInv, CreateTypeOK, Positions
  <2>2. QED
    BY <2>1 DEF StoredListed, NoIndex
<1>3. CASE UNCHANGED <<stored, list>>
  BY <1>3 DEF StoredListed
<1>4. CASE pc' = "done" /\ Creating
  <2>1. CreateStep
    BY <1>4 DEF Creating
  <2>2. CASE Free \/ FreeFails
    BY <1>1, <2>2, FreeListed
  <2>3. CASE InvalidInput \/ collIDFails \/ createFails
    BY <1>3, <2>3 DEF InvalidInput, collIDFails, createFails, walkVars
  <2>4. CASE collID \/ create \/ WriteIndex \/ AppendFails \/ WriteHeader \/ OpenObj \/ OpenObjFails
    BY <1>4, <2>4 DEF collID, create, WriteIndex, AppendFails, WriteHeader, OpenObj,
                      OpenObjFails, Abandon
  <2>5. CASE Walk \/ CopyChunk \/ ReadFails \/ CopyDone \/ AllItemsWritten
    BY <1>4, <2>5 DEF Walk, createVars, CopyChunk, ReadFails, CopyDone, AllItemsWritten, Abandon
  <2>6. QED
    BY <2>1, <2>2, <2>3, <2>4, <2>5 DEF CreateStep, Construct
<1>5. CASE pc' = "done" /\ Extracting
  <2>1. UNCHANGED <<stored, list>>
    BY <1>5, ExtractingIs DEF walkVars
  <2>2. QED
    BY <1>3, <2>1
<1>6. CASE Editing
  BY <1>3, <1>6 DEF Editing, walkVars, createVars
<1>7. CASE SystemOver \/ UNCHANGED systemVars
  BY <1>3, <1>7 DEF SystemOver, systemVars, vars, walkVars, createVars
<1>8. QED
  BY <1>2, <1>4, <1>5, <1>6, <1>7 DEF SystemNext

\* Whatever fails and whatever other agents do, nothing gets into the target
\* but what the collection holds and what was changed while the archive was
\* created: not the archive itself, unless somebody touched its name.
THEOREM NothingElseArrives == SystemSpec => []NothingElseRestored
<1>1. SystemInit => StoredListed
  BY DEF SystemInit, CreateInit, StoredListed, NoIndex
<1>2. SystemInv /\ SystemInv' /\ StoredListed /\ [SystemNext]_systemVars => StoredListed'
  BY ListedNext
<1>3. SystemInv /\ StoredListed => NothingElseRestored
  <2> SUFFICES ASSUME SystemInv, StoredListed
               PROVE  NothingElseRestored
    OBVIOUS
  <2>1. /\ CreateInv /\ OnlyItems /\ xcur \in 0..Len(stored.entries)
        /\ HoldersFirst(stored.items)
    BY DEF SystemInv, SourceInv, CreateInv, WellFormed, TargetInv, Position
  <2>2. \A k \in 1..xcur : k \in 1..Len(stored.items)
    BY <2>1, StoredIs
  <2>3. ASSUME NEW k \in 1..xcur
        PROVE  NameOf(stored.items[k]) \in Archivable \cup touched
    <3>1. k \in 1..Len(stored.items)
      BY <2>2
    <3>2. stored.items = list
      BY <3>1 DEF StoredListed
    <3>3. QED
      BY <2>1, <3>1, <3>2, OnlyArchivable
  <2>4. tmeta \subseteq Archivable \cup touched
    BY <2>1, <2>3 DEF OnlyItems
  <2>5. DOMAIN tobjs \subseteq Archivable \cup touched
    BY <2>1, <2>3 DEF OnlyItems, DataNames
  <2>6. ASSUME NEW c \in tcolls \ {Root}
        PROVE  [coll |-> c, base |-> NoBase] \in Archivable \cup touched
    <3>1. PICK k \in 1..xcur : stored.items[k].type = "coll" /\ stored.items[k].coll = c
      BY <2>1 DEF OnlyItems
    <3>2. k \in 1..Len(stored.items) /\ stored.items = list
      BY <2>2, <3>1 DEF StoredListed
    <3>3. list \in Seq(SoundItem) /\ list[k].base = NoBase
      BY <2>1, <3>1, <3>2, ItemKinds DEF CreateInv, ListingInv
    <3>4. NameOf(stored.items[k]) = [coll |-> c, base |-> NoBase]
      BY <3>1, <3>2, <3>3 DEF NameOf
    <3>5. QED
      BY <2>3, <3>4
  <2>7. QED
    BY <2>4, <2>5, <2>6 DEF NothingElseRestored, Made
<1>4. QED
  BY <1>1, <1>2, <1>3, SystemInvariance, PTL DEF SystemSpec

\* If both calls succeed, every collection and data object that nobody changed
\* while the archive was created is restored as it is, wherever in the walk or
\* the copying the changes of others fell.
THEOREM UntouchedIsRestored == SystemSpec => []UntouchedRestored
<1>1. SystemInv => UntouchedRestored
  BY NameRestored DEF UntouchedRestored
<1>2. QED
  BY <1>1, SystemInvariance, PTL

\* Archiving and extracting a collection that nobody changes reproduces it
\* exactly: nothing is missing, nothing is added, and data objects with several
\* replicas, stale ones or an archive in the collection itself do no harm.
THEOREM RoundTripHolds == SystemSpec => []RoundTrip
<1>1. SystemInv => RoundTrip
  <2> SUFFICES ASSUME SystemInv, BothSucceeded, edits = 0
               PROVE  /\ \A name \in Archivable : Restored(name)
                      /\ tmeta = Archivable
                      /\ DOMAIN tobjs \subseteq Archivable
                      /\ tcolls = {Root} \cup {name.coll : name \in Archivable}
    BY DEF RoundTrip
  <2>1. touched = {}
    BY DEF SystemInv, SourceInv, TouchedOK
  <2>2. \A name \in Archivable : Restored(name)
    BY <2>1, NameRestored
  <2>3. /\ stored.items = list /\ Len(list) \in Nat /\ xcur = Len(list) /\ Root \in tcolls
        /\ list \in Seq(SoundItem) /\ list \in Seq(IntactItem)
    BY WhatArrived
  <2>4. \A k \in 1..Len(list) : NameOf(list[k]) \in Archivable
    <3>1. HoldersFirst(list)
      BY <2>3 DEF SystemInv, SourceInv, CreateInv, WellFormed
    <3>2. QED
      BY <2>1, <3>1, OnlyArchivable
  <2>5. OnlyItems
    BY DEF SystemInv, TargetInv
  <2>6. tmeta = Archivable
    <3>1. tmeta \subseteq Archivable
      BY <2>3, <2>4, <2>5 DEF OnlyItems
    <3>2. Archivable \subseteq tmeta
      BY <2>2 DEF Restored
    <3>3. QED
      BY <3>1, <3>2
  <2>7. DOMAIN tobjs \subseteq Archivable
    BY <2>3, <2>4, <2>5 DEF OnlyItems, DataNames
  <2>8. ASSUME NEW c \in tcolls, c # Root
        PROVE  \E name \in Archivable : c = name.coll
    <3>1. PICK k \in 1..Len(list) : c = list[k].coll
      BY <2>3, <2>5, <2>8 DEF OnlyItems
    <3>2. NameOf(list[k]).coll = c
      BY <3>1 DEF NameOf
    <3>3. QED
      BY <2>4, <3>2
  <2>9. ASSUME NEW name \in Archivable
        PROVE  name.coll \in tcolls
    <3>1. CASE name.base = NoBase
      BY <2>2, <3>1 DEF Restored
    <3>2. CASE name.base # NoBase /\ name.coll # Root
      <4> DEFINE up == [coll |-> name.coll, base |-> NoBase]
      <4>1. name \in Name /\ PathTaken(name.coll)
        BY <3>2 DEF Archivable, PathTaken
      <4>2. up \in Archivable
        BY <3>2, <4>1 DEF Archivable, Name
      <4>3. QED
        BY <2>2, <4>2 DEF Restored
    <3>3. CASE name.coll = Root
      BY <2>3, <3>3
    <3>4. QED
      BY <3>1, <3>2, <3>3
  <2>10. tcolls = {Root} \cup {name.coll : name \in Archivable}
    BY <2>3, <2>8, <2>9
  <2>11. QED
    BY <2>2, <2>6, <2>7, <2>10
<1>2. QED
  BY <1>1, SystemInvariance, PTL
=============================================================================
