------------------------ MODULE ArchiveCreateProofs ------------------------
(***************************************************************************)
(* What holds of msiArchiveCreate, first of its walk by itself and then of *)
(* all of it, for every collection tree, catalog, page size, buffer size   *)
(* and any number of failing calls and changes by other agents.            *)
(***************************************************************************)
EXTENDS ArchiveCreate, ArchiveItemsProofs, SequenceTheorems, FiniteSetTheorems, TLAPS

-----------------------------------------------------------------------------
(* The walk: the inductive invariant.                                      *)

\* The contents of c may be listed next.
Known(lst, c) == c = Root \/ ListedIn(lst, Len(lst), c)

\* An activation works on a known collection; what it still has to handle
\* lies in that collection; what it will visit has been listed.
FrameOK(f, lst) ==
    /\ Known(lst, f.coll)
    /\ \A k \in 1..Len(f.dirs) : ListedIn(lst, Len(lst), f.dirs[k].coll)
    /\ \A r \in f.page \cup f.rest :
          IF f.fn = "dirColl" THEN r.coll # Root /\ ParentOf[r.coll] = f.coll
                              ELSE r.coll = f.coll

FramesOK(stk, lst) == \A k \in 1..Len(stk) : FrameOK(stk[k], lst)

\* Only the running activation has a statement open.
CallersIdle(stk) == \A k \in 2..Len(stk) : ~stk[k].cont

WalkInv ==
    /\ WalkTypeOK
    /\ FramesOK(stack, list)
    /\ CallersIdle(stack)
    /\ HoldersFirst(list)

-----------------------------------------------------------------------------
(* Lemmas about the index.                                                 *)

\* Sizes rounded up to blocks are natural numbers.
LEMMA BlockCeilNat == \A s \in Nat : BlockCeil(s) \in Nat
<1> SUFFICES ASSUME NEW s \in Nat PROVE BlockCeil(s) \in Nat
  OBVIOUS
<1> DEFINE x == s + Block - 1
<1>1. Block \in Nat /\ Block > 0 /\ x \in Nat /\ x >= Block - 1
  BY BlockAssumption
<1>2. x % Block \in 0..(Block - 1)
  BY <1>1
<1>3. x - (x % Block) \in Nat
  BY <1>1, <1>2
<1>4. QED
  BY <1>3 DEF BlockCeil

\* An item at the end hides none of the collections listed before.
LEMMA ListedStays ==
    ASSUME NEW lst \in Seq(Item), NEW e \in Item, NEW c,
           NEW n \in 0..Len(lst), ListedIn(lst, n, c)
    PROVE  ListedIn(Append(lst, e), n, c) /\ ListedIn(Append(lst, e), Len(Append(lst, e)), c)
<1>1. \A j \in 1..Len(lst) : Append(lst, e)[j] = lst[j]
  OBVIOUS
<1>2. Len(Append(lst, e)) = Len(lst) + 1 /\ Len(lst) \in Nat
  OBVIOUS
<1>3. QED
  BY <1>1, <1>2 DEF ListedIn

\* An activation stays in order when an item is added.
LEMMA FrameStaysOK ==
    ASSUME NEW lst \in Seq(Item), NEW e \in Item, NEW f \in Frame, FrameOK(f, lst)
    PROVE  FrameOK(f, Append(lst, e))
<1>1. Len(lst) \in 0..Len(lst)
  OBVIOUS
<1>2. Known(Append(lst, e), f.coll)
  BY <1>1, ListedStays DEF FrameOK, Known
<1>3. \A k \in 1..Len(f.dirs) :
         ListedIn(Append(lst, e), Len(Append(lst, e)), f.dirs[k].coll)
  BY <1>1, ListedStays DEF FrameOK
<1>4. QED
  BY <1>2, <1>3 DEF FrameOK

\* An item whose collection is known can be listed next.
LEMMA AppendKeepsOrder ==
    ASSUME NEW lst \in Seq(Item), NEW e \in Item, HoldersFirst(lst),
           e.type = "coll" => e.coll # Root, Known(lst, Holder(e))
    PROVE  HoldersFirst(Append(lst, e))
<1> DEFINE new == Append(lst, e)
<1>1. /\ Len(new) = Len(lst) + 1 /\ Len(lst) \in Nat
      /\ \A j \in 1..Len(lst) : new[j] = lst[j]
      /\ new[Len(lst) + 1] = e
  OBVIOUS
<1>2. ASSUME NEW k \in 1..Len(new)
      PROVE  /\ new[k].type = "coll" => new[k].coll # Root
             /\ Holder(new[k]) = Root \/ ListedIn(new, k - 1, Holder(new[k]))
  <2>1. CASE k \in 1..Len(lst)
    <3>1. /\ lst[k].type = "coll" => lst[k].coll # Root
          /\ Holder(lst[k]) = Root \/ ListedIn(lst, k - 1, Holder(lst[k]))
      BY <2>1 DEF HoldersFirst
    <3>2. k - 1 \in 0..Len(lst) /\ new[k] = lst[k]
      BY <1>1, <2>1
    <3>3. ListedIn(lst, k - 1, Holder(lst[k])) => ListedIn(new, k - 1, Holder(lst[k]))
      BY <3>2, ListedStays
    <3>4. QED
      BY <3>1, <3>2, <3>3
  <2>2. CASE k = Len(lst) + 1
    <3>1. k - 1 = Len(lst) /\ Len(lst) \in 0..Len(lst) /\ new[k] = e
      BY <1>1, <2>2
    <3>2. ListedIn(lst, Len(lst), Holder(e)) => ListedIn(new, k - 1, Holder(e))
      BY <3>1, ListedStays
    <3>3. QED
      BY <3>1, <3>2 DEF Known
  <2>3. QED
    BY <1>1, <2>1, <2>2
<1>3. QED
  BY <1>2 DEF HoldersFirst

-----------------------------------------------------------------------------
(* Lemmas about the stack.                                                 *)

\* A new activation has the type of an activation.
LEMMA NewFrameType ==
    ASSUME NEW fn \in {"dirColl", "dirDataObj"}, NEW c \in Coll, NEW id \in CollId
    PROVE  NewFrame(fn, c, id) \in Frame
BY DEF NewFrame, Frame

\* A new activation on a known collection is in order.
LEMMA NewFrameOK ==
    ASSUME NEW fn, NEW c, NEW id, NEW lst, Known(lst, c)
    PROVE  FrameOK(NewFrame(fn, c, id), lst) /\ ~NewFrame(fn, c, id).cont
BY DEF NewFrame, FrameOK

\* The calls that follow the loop of f are new activations on listed
\* collections.
LEMMA CallsOK ==
    ASSUME NEW f \in Frame, NEW lst, FrameOK(f, lst)
    PROVE  /\ Calls(f.dirs) \in Seq(Frame)
           /\ FramesOK(Calls(f.dirs), lst)
           /\ \A k \in 1..Len(Calls(f.dirs)) : ~Calls(f.dirs)[k].cont
<1> DEFINE dirs == f.dirs
           calls == Calls(f.dirs)
<1>1. dirs \in Seq(Dir) /\ Len(dirs) \in Nat
  BY DEF Frame
<1>2. ASSUME NEW k \in 1..(2 * Len(dirs))
      PROVE  calls[k] \in Frame /\ FrameOK(calls[k], lst) /\ ~calls[k].cont
  <2>1. CASE k % 2 = 1
    <3> DEFINE d == dirs[(k + 1) \div 2]
    <3>1. (k + 1) \div 2 \in 1..Len(dirs)
      BY <1>1, <2>1
    <3>2. d \in Dir /\ Known(lst, d.coll)
      BY <1>1, <3>1 DEF FrameOK, Known
    <3>3. calls[k] = NewFrame("dirColl", d.coll, d.id)
      BY <1>1, <2>1 DEF Calls
    <3>4. QED
      BY <3>2, <3>3, NewFrameType, NewFrameOK DEF Dir
  <2>2. CASE k % 2 # 1
    <3> DEFINE d == dirs[k \div 2]
    <3>1. k \div 2 \in 1..Len(dirs)
      BY <1>1, <2>2
    <3>2. d \in Dir /\ Known(lst, d.coll)
      BY <1>1, <3>1 DEF FrameOK, Known
    <3>3. calls[k] = NewFrame("dirDataObj", d.coll, d.id)
      BY <1>1, <2>2 DEF Calls
    <3>4. QED
      BY <3>2, <3>3, NewFrameType, NewFrameOK DEF Dir
  <2>3. QED
    BY <2>1, <2>2
<1>3. 2 * Len(dirs) \in Nat
  BY <1>1
<1>4. calls = [k \in 1..(2 * Len(dirs)) |-> calls[k]]
  BY DEF Calls
<1>5. calls \in Seq(Frame) /\ Len(calls) = 2 * Len(dirs)
  BY <1>2, <1>3, <1>4
<1>6. QED
  BY <1>2, <1>5 DEF FramesOK

\* What a stack looks like after its head is replaced by other activations.
LEMMA ReplaceHead ==
    ASSUME NEW stk \in Seq(Frame), stk # <<>>, NEW lst,
           FramesOK(stk, lst), CallersIdle(stk),
           NEW top \in Seq(Frame), FramesOK(top, lst), CallersIdle(top)
    PROVE  /\ top \o Tail(stk) \in Seq(Frame)
           /\ FramesOK(top \o Tail(stk), lst)
           /\ CallersIdle(top \o Tail(stk))
<1> DEFINE rest == Tail(stk)
           new == top \o rest
<1>1. /\ rest \in Seq(Frame) /\ Len(rest) = Len(stk) - 1
      /\ Len(stk) \in Nat /\ Len(top) \in Nat
      /\ \A k \in 1..Len(rest) : rest[k] = stk[k + 1]
  OBVIOUS
<1>2. /\ new \in Seq(Frame) /\ Len(new) = Len(top) + Len(rest)
      /\ \A k \in 1..Len(new) :
            new[k] = IF k <= Len(top) THEN top[k] ELSE rest[k - Len(top)]
  BY <1>1
<1>3. ASSUME NEW k \in 1..Len(new), k > Len(top)
      PROVE  FrameOK(new[k], lst) /\ ~new[k].cont
  <2>1. k - Len(top) \in 1..Len(rest) /\ k - Len(top) + 1 \in 2..Len(stk)
    BY <1>1, <1>2, <1>3
  <2>2. new[k] = stk[k - Len(top) + 1]
    BY <1>1, <1>2, <1>3, <2>1
  <2>3. QED
    BY <1>1, <2>1, <2>2 DEF FramesOK, CallersIdle
<1>4. FramesOK(new, lst)
  <2>1. ASSUME NEW k \in 1..Len(new), k <= Len(top) PROVE FrameOK(new[k], lst)
    BY <1>1, <1>2, <2>1 DEF FramesOK
  <2>2. QED
    BY <1>1, <1>2, <1>3, <2>1 DEF FramesOK
<1>5. ASSUME NEW k \in 2..Len(new) PROVE ~new[k].cont
  <2>1. CASE k > Len(top)
    BY <1>2, <1>3, <2>1
  <2>2. CASE k <= Len(top)
    BY <1>1, <1>2, <2>2 DEF CallersIdle
  <2>3. QED
    BY <1>1, <2>1, <2>2
<1>6. CallersIdle(new)
  BY <1>5 DEF CallersIdle
<1>7. QED
  BY <1>2, <1>4, <1>6

\* The loop of the running activation ends: its calls take its place.
LEMMA AfterLoopOK ==
    ASSUME NEW stk \in Seq(Frame), stk # <<>>, NEW lst,
           FramesOK(stk, lst), CallersIdle(stk),
           NEW f \in Frame, FrameOK(f, lst)
    PROVE  /\ AfterLoop(f, Tail(stk)) \in Seq(Frame)
           /\ FramesOK(AfterLoop(f, Tail(stk)), lst)
           /\ CallersIdle(AfterLoop(f, Tail(stk)))
<1>1. /\ Calls(f.dirs) \in Seq(Frame)
      /\ FramesOK(Calls(f.dirs), lst)
      /\ \A k \in 1..Len(Calls(f.dirs)) : ~Calls(f.dirs)[k].cont
  BY CallsOK
<1>2. CallersIdle(Calls(f.dirs))
  BY <1>1 DEF CallersIdle
<1>3. QED
  BY <1>1, <1>2, ReplaceHead DEF AfterLoop

\* The running activation goes on in another state.
LEMMA NewHeadOK ==
    ASSUME NEW stk \in Seq(Frame), stk # <<>>, NEW lst,
           FramesOK(stk, lst), CallersIdle(stk),
           NEW f \in Frame, FrameOK(f, lst)
    PROVE  /\ <<f>> \o Tail(stk) \in Seq(Frame)
           /\ FramesOK(<<f>> \o Tail(stk), lst)
           /\ CallersIdle(<<f>> \o Tail(stk))
<1>1. <<f>> \in Seq(Frame) /\ Len(<<f>>) = 1 /\ <<f>>[1] = f
  OBVIOUS
<1>2. FramesOK(<<f>>, lst) /\ CallersIdle(<<f>>)
  BY <1>1 DEF FramesOK, CallersIdle
<1>3. QED
  BY <1>1, <1>2, ReplaceHead

\* The running activation is in order.
LEMMA HeadOK ==
    ASSUME WalkInv, stack # <<>>
    PROVE  Head(stack) \in Frame /\ FrameOK(Head(stack), list) /\ stack \in Seq(Frame)
BY DEF WalkInv, WalkTypeOK, FramesOK

-----------------------------------------------------------------------------
(* The steps of the walk.                                                  *)

\* Every row of a query lies in the collection that is queried.
LEMMA RowsOK ==
    ASSUME WalkTypeOK, NEW f \in Frame, NEW r \in Rows(f)
    PROVE  /\ r \in Row
           /\ IF f.fn = "dirColl" THEN r.coll # Root /\ ParentOf[r.coll] = f.coll
                                   ELSE r.coll = f.coll
<1>1. f.coll \in Coll /\ f.id \in CollId
  BY DEF Frame
<1>2. CASE f.fn = "dirColl"
  <2>1. PICK id \in CollId :
           /\ collOf[id] \in Coll \ {Root} /\ ParentOf[collOf[id]] = f.coll
           /\ r = [coll |-> collOf[id], id |-> id, base |-> NoBase, size |-> 0, mtime |-> 0]
    BY <1>2 DEF Rows, CollRows
  <2>2. QED
    BY <1>2, <2>1 DEF Row
<1>3. CASE f.fn # "dirColl"
  <2>1. PICK b \in Base : \E q \in GoodReplicas(f.id, b) :
           r = [coll |-> f.coll, id |-> f.id, base |-> b, size |-> q.size, mtime |-> q.mtime]
    BY <1>3 DEF Rows, DataRows
  <2>2. PICK q \in GoodReplicas(f.id, b) :
           r = [coll |-> f.coll, id |-> f.id, base |-> b, size |-> q.size, mtime |-> q.mtime]
    BY <2>1
  <2>3. q \in Replica
    BY <1>1, <2>2 DEF GoodReplicas, WalkTypeOK
  <2>4. q.size \in Nat /\ q.mtime \in Nat
    BY <2>3, CatalogAssumption DEF Replica
  <2>5. QED
    BY <1>1, <1>3, <2>2, <2>4 DEF Row
<1>4. QED
  BY <1>2, <1>3

\* So does every row that the server will still return.
LEMMA PendingOK ==
    ASSUME WalkInv, NEW f \in Frame, FrameOK(f, list), NEW r \in Pending(f)
    PROVE  /\ r \in Row
           /\ IF f.fn = "dirColl" THEN r.coll # Root /\ ParentOf[r.coll] = f.coll
                                   ELSE r.coll = f.coll
<1>1. CASE f.cont
  BY <1>1 DEF Pending, FrameOK, Frame
<1>2. CASE ~f.cont
  BY <1>2, RowsOK DEF Pending, WalkInv
<1>3. QED
  BY <1>1, <1>2

\* A step that leaves the list, the catalog and the counters' types alone
\* only has to leave a good stack.
LEMMA StackOnly ==
    ASSUME WalkInv, UNCHANGED <<catalogVars, list, dataSize>>,
           stack' \in Seq(Frame), FramesOK(stack', list), CallersIdle(stack'),
           inner' \in Nat, faults' \in Nat
    PROVE  WalkInv'
BY DEF WalkInv, WalkTypeOK, catalogVars, FramesOK, FrameOK, CallersIdle, Known, ListedIn, HoldersFirst

\* A page of rows arrives.
LEMMA FetchPageStep ==
    ASSUME WalkInv, FetchPage, UNCHANGED catalogVars PROVE WalkInv'
<1> DEFINE f == Head(stack)
<1>1. stack # <<>>
  BY DEF FetchPage, Running
<1>2. f \in Frame /\ FrameOK(f, list) /\ stack \in Seq(Frame)
  BY <1>1, HeadOK
<1>3. PICK page \in SUBSET Pending(f) : stack' = <<Fetched(f, page)>> \o Tail(stack)
  BY DEF FetchPage
<1>4. \A r \in Pending(f) :
         /\ r \in Row
         /\ IF f.fn = "dirColl" THEN r.coll # Root /\ ParentOf[r.coll] = f.coll
                                 ELSE r.coll = f.coll
  BY <1>2, PendingOK
<1>5. page \in SUBSET Row /\ Pending(f) \ page \in SUBSET Row
  BY <1>3, <1>4
<1> DEFINE g == Fetched(f, page)
           open == Cardinality(page) = PageSize
<1>6. /\ g.fn = f.fn /\ g.coll = f.coll /\ g.dirs = f.dirs
      /\ g.page = page /\ g.rest = Pending(f) \ page
  BY <1>2 DEF Fetched, Frame
<1>7. g \in Frame
  <2>1. open \in BOOLEAN
    OBVIOUS
  <2> HIDE DEF open
  <2>2. g = [f EXCEPT !.phase = "attr", !.page = page, !.rest = Pending(f) \ page, !.cont = open]
    BY DEF Fetched, open
  <2>3. QED
    BY <1>2, <1>5, <2>1, <2>2 DEF Frame
<1>8. FrameOK(g, list)
  BY <1>2, <1>3, <1>4, <1>6 DEF FrameOK
<1>9. /\ stack' \in Seq(Frame) /\ FramesOK(stack', list) /\ CallersIdle(stack')
  <2> HIDE DEF g
  <2>1. QED
    BY <1>1, <1>2, <1>3, <1>7, <1>8, NewHeadOK DEF WalkInv, g
<1>10. QED
  BY <1>9, StackOnly DEF FetchPage, WalkInv, WalkTypeOK

\* The query loop ends.
LEMMA LoopEndsStep ==
    ASSUME WalkInv, NoMoreRows \/ QueryFails, UNCHANGED catalogVars PROVE WalkInv'
<1>1. stack # <<>> /\ stack' = AfterLoop(Head(stack), Tail(stack))
  BY DEF NoMoreRows, QueryFails, Running
<1>2. /\ stack' \in Seq(Frame) /\ FramesOK(stack', list) /\ CallersIdle(stack')
  BY <1>1, HeadOK, AfterLoopOK DEF WalkInv
<1>3. UNCHANGED <<inner, list, dataSize>> /\ faults' \in Nat
  BY DEF NoMoreRows, QueryFails, WalkInv, WalkTypeOK
<1>4. QED
  BY <1>2, <1>3, StackOnly DEF WalkInv, WalkTypeOK

\* A full page of attributes or ACLs arrives.
LEMMA InnerPageStep ==
    ASSUME WalkInv, AttrPage \/ AclPage, UNCHANGED catalogVars PROVE WalkInv'
BY StackOnly DEF AttrPage, AclPage, WalkInv, WalkTypeOK

\* The attributes of a row have been read.
LEMMA AttrDoneStep ==
    ASSUME WalkInv, AttrDone, UNCHANGED catalogVars PROVE WalkInv'
<1> DEFINE f == Head(stack)
           g == [f EXCEPT !.phase = "acl"]
<1>1. stack # <<>> /\ stack' = <<g>> \o Tail(stack)
  BY DEF AttrDone, Running
<1>2. f \in Frame /\ FrameOK(f, list) /\ stack \in Seq(Frame)
  BY <1>1, HeadOK
<1>3. g \in Frame /\ FrameOK(g, list)
  BY <1>2 DEF Frame, FrameOK
<1>4. /\ stack' \in Seq(Frame) /\ FramesOK(stack', list) /\ CallersIdle(stack')
  <2> HIDE DEF g
  <2>1. QED
    BY <1>1, <1>2, <1>3, NewHeadOK DEF WalkInv
<1>5. QED
  BY <1>4, StackOnly DEF AttrDone, WalkInv, WalkTypeOK

\* The item that AddRow appends is a good next item.
LEMMA ItemOfRow ==
    ASSUME WalkInv, NEW f \in Frame, FrameOK(f, list), NEW r \in f.page
    PROVE  /\ r \in Row
           /\ f.fn = "dirColl" =>
                /\ CollItem(r.coll) \in Item
                /\ r.coll # Root
                /\ Known(list, Holder(CollItem(r.coll)))
           /\ f.fn # "dirColl" =>
                /\ DataItem(r.coll, r.base, r.size) \in Item
                /\ Known(list, Holder(DataItem(r.coll, r.base, r.size)))
<1>1. r \in Row
  BY DEF Frame
<1>2. r.coll \in Coll /\ r.base \in Base \cup {NoBase} /\ r.size \in Nat
  BY <1>1 DEF Row
<1>3. IF f.fn = "dirColl" THEN r.coll # Root /\ ParentOf[r.coll] = f.coll
                          ELSE r.coll = f.coll
  BY DEF FrameOK
<1>4. Known(list, f.coll)
  BY DEF FrameOK
<1>5. f.fn = "dirColl" => /\ CollItem(r.coll) \in Item
                          /\ r.coll # Root
                          /\ Known(list, Holder(CollItem(r.coll)))
  BY <1>2, <1>3, <1>4 DEF CollItem, Item, Holder
<1>6. f.fn # "dirColl" => /\ DataItem(r.coll, r.base, r.size) \in Item
                          /\ Known(list, Holder(DataItem(r.coll, r.base, r.size)))
  BY <1>2, <1>3, <1>4 DEF DataItem, Item, Holder
<1>7. QED
  BY <1>1, <1>5, <1>6

\* What addColl and addDataObj do to the list.
LEMMA ListStep ==
    ASSUME WalkInv, NEW f \in Frame, FrameOK(f, list), NEW r \in f.page,
           IF f.fn = "dirColl" THEN addColl(r) ELSE addDataObj(r)
    PROVE  /\ list' \in Seq(Item) /\ dataSize' \in Nat /\ HoldersFirst(list')
           /\ \A g \in Frame : FrameOK(g, list) => FrameOK(g, list')
           /\ f.fn = "dirColl" => ListedIn(list', Len(list'), r.coll)
<1>1. list \in Seq(Item) /\ dataSize \in Nat /\ HoldersFirst(list)
  BY DEF WalkInv, WalkTypeOK
<1>2. CASE f.fn = "dirColl"
  <2> DEFINE e == CollItem(r.coll)
  <2>1. list' = Append(list, e) /\ dataSize' = dataSize
    BY <1>2 DEF addColl
  <2>2. e \in Item /\ r.coll # Root /\ Known(list, Holder(e))
    BY <1>2, ItemOfRow
  <2>3. e.type = "coll" /\ e.coll = r.coll
    BY DEF CollItem
  <2> HIDE DEF e
  <2>4. HoldersFirst(list')
    BY <1>1, <2>1, <2>2, <2>3, AppendKeepsOrder
  <2>5. ASSUME NEW g \in Frame, FrameOK(g, list) PROVE FrameOK(g, list')
    <3>1. FrameOK(g, Append(list, e))
      BY <1>1, <2>2, <2>5, FrameStaysOK
    <3>2. QED
      BY <3>1, <2>1
  <2>6. Len(list') = Len(list) + 1 /\ list'[Len(list) + 1] = e /\ list' \in Seq(Item)
    BY <1>1, <2>1, <2>2
  <2>7. ListedIn(list', Len(list'), r.coll)
    BY <1>1, <2>3, <2>6 DEF ListedIn
  <2>8. QED
    BY <1>1, <2>1, <2>4, <2>5, <2>6, <2>7
<1>3. CASE f.fn # "dirColl" /\ list' = list
  <2>1. dataSize' = dataSize \/ dataSize' = dataSize + BlockCeil(r.size)
    BY <1>3 DEF addDataObj
  <2>2. r.size \in Nat
    BY ItemOfRow DEF Row
  <2> DEFINE blocks == BlockCeil(r.size)
  <2>3. blocks \in Nat
    BY <2>2, BlockCeilNat
  <2>4. dataSize' \in Nat
    <3> HIDE DEF blocks
    <3>1. dataSize' = dataSize \/ dataSize' = dataSize + blocks
      BY <2>1 DEF blocks
    <3>2. QED
      BY <1>1, <2>3, <3>1
  <2>5. QED
    BY <1>1, <1>3, <2>4
<1>4. CASE f.fn # "dirColl" /\ list' # list
  <2> DEFINE e == DataItem(r.coll, r.base, r.size)
  <2>1. list' = Append(list, e) /\ dataSize' = dataSize + BlockCeil(r.size)
    BY <1>4 DEF addDataObj
  <2>2. e \in Item /\ Known(list, Holder(e)) /\ r.size \in Nat
    BY <1>4, ItemOfRow DEF Row
  <2>3. e.type # "coll"
    BY DEF DataItem
  <2> HIDE DEF e
  <2>4. HoldersFirst(list')
    BY <1>1, <2>1, <2>2, <2>3, AppendKeepsOrder
  <2>5. ASSUME NEW g \in Frame, FrameOK(g, list) PROVE FrameOK(g, list')
    <3>1. FrameOK(g, Append(list, e))
      BY <1>1, <2>2, <2>5, FrameStaysOK
    <3>2. QED
      BY <3>1, <2>1
  <2> DEFINE blocks == BlockCeil(r.size)
  <2>6. blocks \in Nat
    BY <2>2, BlockCeilNat
  <2>7. list' \in Seq(Item) /\ dataSize' \in Nat
    <3> HIDE DEF blocks
    <3>1. dataSize' = dataSize + blocks
      BY <2>1 DEF blocks
    <3>2. QED
      BY <1>1, <2>1, <2>2, <2>6, <3>1
  <2>8. QED
    BY <1>4, <2>4, <2>5, <2>7
<1>5. QED
  BY <1>2, <1>3, <1>4

\* The activation after the loop body.
LEMMA HandledOK ==
    ASSUME NEW f \in Frame, NEW r \in f.page, NEW lst, FrameOK(f, lst),
           f.fn = "dirColl" => ListedIn(lst, Len(lst), r.coll)
    PROVE  Handled(f, r) \in Frame /\ FrameOK(Handled(f, r), lst)
<1> DEFINE d == [coll |-> r.coll, id |-> r.id]
           dirs == IF f.fn = "dirColl" THEN Append(f.dirs, d) ELSE f.dirs
           phase == IF f.page \ {r} # {} THEN "attr" ELSE "query"
           g == Handled(f, r)
<1>1. r \in Row /\ f.dirs \in Seq(Dir) /\ f.page \ {r} \in SUBSET Row
  BY DEF Frame
<1>2. d \in Dir
  BY <1>1 DEF Row, Dir
<1>3. dirs \in Seq(Dir) /\ phase \in {"query", "attr", "acl"}
  BY <1>1, <1>2
<1>4. g = [f EXCEPT !.page = f.page \ {r}, !.dirs = dirs, !.phase = phase]
  BY DEF Handled
<1>5. \A k \in 1..Len(dirs) : ListedIn(lst, Len(lst), dirs[k].coll)
  <2>1. CASE f.fn = "dirColl"
    <3>1. /\ Len(dirs) = Len(f.dirs) + 1 /\ dirs[Len(f.dirs) + 1] = d
          /\ \A k \in 1..Len(f.dirs) : dirs[k] = f.dirs[k]
      BY <1>1, <1>2, <2>1
    <3>2. d.coll = r.coll
      OBVIOUS
    <3> HIDE DEF dirs, d
    <3>3. QED
      BY <1>1, <2>1, <3>1, <3>2 DEF FrameOK
  <2>2. CASE f.fn # "dirColl"
    BY <2>2 DEF FrameOK
  <2>3. QED
    BY <2>1, <2>2
<1> HIDE DEF dirs, phase, d
<1>6. /\ g.fn = f.fn /\ g.coll = f.coll /\ g.dirs = dirs
      /\ g.page = f.page \ {r} /\ g.rest = f.rest
  BY <1>4 DEF Frame
<1>7. g \in Frame
  BY <1>1, <1>3, <1>4 DEF Frame
<1>8. FrameOK(g, lst)
  BY <1>5, <1>6 DEF FrameOK
<1>9. QED
  BY <1>7, <1>8

\* The item of a row is added and the activation goes on.
LEMMA AddRowStep ==
    ASSUME WalkInv, AddRow, UNCHANGED catalogVars PROVE WalkInv'
<1> DEFINE f == Head(stack)
<1>1. stack # <<>>
  BY DEF AddRow, Running
<1>2. f \in Frame /\ FrameOK(f, list) /\ stack \in Seq(Frame)
  BY <1>1, HeadOK
<1>3. PICK r \in f.page :
         /\ IF f.fn = "dirColl" THEN addColl(r) ELSE addDataObj(r)
         /\ stack' = AfterRow(f, r)
  BY DEF AddRow
<1>4. /\ list' \in Seq(Item) /\ dataSize' \in Nat /\ HoldersFirst(list')
      /\ \A g \in Frame : FrameOK(g, list) => FrameOK(g, list')
      /\ f.fn = "dirColl" => ListedIn(list', Len(list'), r.coll)
  BY <1>2, <1>3, ListStep
<1>5. FramesOK(stack, list') /\ CallersIdle(stack) /\ FrameOK(f, list')
  <2>1. \A k \in 1..Len(stack) : stack[k] \in Frame /\ FrameOK(stack[k], list)
    BY <1>2 DEF WalkInv, FramesOK
  <2>2. QED
    BY <1>2, <1>4, <2>1 DEF FramesOK, WalkInv
<1> DEFINE g == Handled(f, r)
<1>6. g \in Frame /\ FrameOK(g, list')
  BY <1>2, <1>3, <1>4, <1>5, HandledOK
<1>7. stack' \in {AfterLoop(g, Tail(stack)), <<g>> \o Tail(stack)}
  BY <1>3 DEF AfterRow
<1> HIDE DEF g, f
<1>8. /\ stack' \in Seq(Frame) /\ FramesOK(stack', list') /\ CallersIdle(stack')
  BY <1>1, <1>2, <1>5, <1>6, <1>7, AfterLoopOK, NewHeadOK
<1>9. inner' \in Nat /\ faults' \in Nat
  BY DEF AddRow, WalkInv, WalkTypeOK
<1>10. /\ collOf' \in [CollId -> Coll \cup {NoColl}]
       /\ repl' \in [CollId -> [Base -> SUBSET Replica]]
       /\ unused' \in SUBSET CollId
       /\ edits' \in Nat
  BY DEF WalkInv, WalkTypeOK, catalogVars
<1>11. WalkTypeOK'
  BY <1>4, <1>8, <1>9, <1>10 DEF WalkTypeOK
<1>12. FramesOK(stack, list)' /\ CallersIdle(stack)' /\ HoldersFirst(list)'
  BY <1>4, <1>8 DEF FramesOK, FrameOK, Known, ListedIn, CallersIdle, HoldersFirst
<1>13. QED
  BY <1>11, <1>12 DEF WalkInv

\* Every step of the walk preserves the invariant.
LEMMA WalkStepInv ==
    ASSUME WalkInv, WalkStep, UNCHANGED catalogVars PROVE WalkInv'
BY FetchPageStep, LoopEndsStep, InnerPageStep, AttrDoneStep, AddRowStep DEF WalkStep

-----------------------------------------------------------------------------
(* Other agents do not disturb the walk: they only change the catalog.     *)

\* Other agents keep the types of the catalog.
LEMMA EditType ==
    ASSUME WalkTypeOK, CatalogEdit
    PROVE  /\ collOf' \in [CollId -> Coll \cup {NoColl}]
           /\ repl' \in [CollId -> [Base -> SUBSET Replica]]
           /\ unused' \in SUBSET CollId
           /\ edits' \in Nat
<1>1. /\ collOf \in [CollId -> Coll \cup {NoColl}]
      /\ repl \in [CollId -> [Base -> SUBSET Replica]]
      /\ unused \in SUBSET CollId
      /\ edits \in Nat
  BY DEF WalkTypeOK
<1>2. PICK id \in CollId :
        \/ \E b \in Base : PutObj(id, b) \/ ReplicateObj(id, b) \/ RmObj(id, b)
        \/ \E c \in Coll \ {Root} : MkColl(id, c) \/ MvColl(id, c)
        \/ RmColl(id)
  BY DEF CatalogEdit
<1>3. edits' \in Nat
  BY <1>1, <1>2 DEF PutObj, ReplicateObj, RmObj, MkColl, MvColl, RmColl, Edit
<1>4. ASSUME NEW b \in Base, PutObj(id, b)
      PROVE  UNCHANGED <<collOf, unused>> /\ repl' \in [CollId -> [Base -> SUBSET Replica]]
  <2>1. PICK s \in Size, t \in Stamp :
          repl' = [repl EXCEPT ![id][b] =
              {[good |-> TRUE, size |-> s, mtime |-> t]}
                 \cup {[r EXCEPT !.good = FALSE] : r \in @}]
    BY <1>4 DEF PutObj
  <2> DEFINE stale == {[r EXCEPT !.good = FALSE] : r \in repl[id][b]}
             new == [good |-> TRUE, size |-> s, mtime |-> t]
  <2>2. new \in Replica /\ stale \subseteq Replica
    <3>1. new \in Replica
      BY DEF Replica
    <3>2. ASSUME NEW q \in repl[id][b] PROVE [q EXCEPT !.good = FALSE] \in Replica
      <4>1. q \in Replica
        BY <1>1, <3>2
      <4>2. QED
        BY <4>1 DEF Replica
    <3>3. QED
      BY <3>1, <3>2
  <2>3. repl' = [repl EXCEPT ![id][b] = {new} \cup stale]
    BY <2>1
  <2> HIDE DEF stale, new
  <2>4. QED
    BY <1>1, <1>4, <2>2, <2>3 DEF PutObj
<1>5. ASSUME NEW b \in Base, ReplicateObj(id, b)
      PROVE  UNCHANGED <<collOf, unused>> /\ repl' \in [CollId -> [Base -> SUBSET Replica]]
  <2>1. PICK q \in GoodReplicas(id, b) : \E t \in Stamp :
          repl' = [repl EXCEPT ![id][b] = @ \cup {[q EXCEPT !.mtime = t]}]
    BY <1>5 DEF ReplicateObj
  <2>2. PICK t \in Stamp :
          repl' = [repl EXCEPT ![id][b] = @ \cup {[q EXCEPT !.mtime = t]}]
    BY <2>1
  <2> DEFINE new == [q EXCEPT !.mtime = t]
  <2>3. new \in Replica
    BY <1>1 DEF Replica, GoodReplicas
  <2>4. repl' = [repl EXCEPT ![id][b] = @ \cup {new}]
    BY <2>2
  <2> HIDE DEF new
  <2>5. QED
    BY <1>1, <1>5, <2>3, <2>4 DEF ReplicateObj
<1>6. ASSUME NEW b \in Base, RmObj(id, b)
      PROVE  UNCHANGED <<collOf, unused>> /\ repl' \in [CollId -> [Base -> SUBSET Replica]]
  BY <1>1, <1>6 DEF RmObj
<1>7. ASSUME NEW c \in Coll, MkColl(id, c) \/ MvColl(id, c)
      PROVE  /\ collOf' \in [CollId -> Coll \cup {NoColl}]
             /\ unused' \in SUBSET CollId /\ repl' = repl
  BY <1>1, <1>7 DEF MkColl, MvColl
<1>8. ASSUME RmColl(id)
      PROVE  /\ collOf' \in [CollId -> Coll \cup {NoColl}]
             /\ unused' \in SUBSET CollId /\ repl' = repl
  BY <1>1, <1>8 DEF RmColl
<1>9. QED
  BY <1>1, <1>2, <1>3, <1>4, <1>5, <1>6, <1>7, <1>8

\* Changes of the catalog preserve the invariant.
LEMMA EditInv ==
    ASSUME WalkInv, CatalogEdit, UNCHANGED <<walkVars, faults>> PROVE WalkInv'
<1>1. WalkTypeOK'
  BY EditType DEF WalkInv, WalkTypeOK, walkVars
<1>2. stack' = stack /\ list' = list
  BY DEF walkVars
<1>3. FramesOK(stack, list)' /\ CallersIdle(stack)' /\ HoldersFirst(list)'
  BY <1>2 DEF WalkInv
<1>4. QED
  BY <1>1, <1>3 DEF WalkInv

-----------------------------------------------------------------------------
(* The walk: the theorems.                                                 *)

\* The invariant holds when dirColl is called.
LEMMA InvInit == WalkInit => WalkInv
<1> SUFFICES ASSUME WalkInit PROVE WalkInv
  OBVIOUS
<1>1. /\ collOf \in [CollId -> Coll \cup {NoColl}]
      /\ repl \in [CollId -> [Base -> SUBSET Replica]]
      /\ unused \in SUBSET CollId
      /\ edits \in Nat
  <2>1. PICK k \in InitCatalogs : collOf = k.collOf /\ repl = k.repl /\ unused = k.unused
    BY DEF WalkInit, CatalogInit
  <2>2. QED
    BY <2>1, CatalogAssumption DEF WalkInit, CatalogInit
<1> DEFINE first == NewFrame("dirColl", Root, RootId)
           second == NewFrame("dirDataObj", Root, RootId)
<1>2. first \in Frame /\ second \in Frame
  BY NewFrameType, TreeAssumption, CatalogAssumption
<1>3. /\ FrameOK(first, list) /\ ~first.cont
      /\ FrameOK(second, list) /\ ~second.cont
  BY NewFrameOK DEF Known
<1>4. stack = <<first, second>>
  BY DEF WalkInit, WalkStart
<1> HIDE DEF first, second
<1>5. stack \in Seq(Frame) /\ FramesOK(stack, list) /\ CallersIdle(stack)
  BY <1>2, <1>3, <1>4 DEF FramesOK, CallersIdle
<1>6. /\ list \in Seq(Item) /\ HoldersFirst(list)
      /\ inner \in Nat /\ dataSize \in Nat /\ faults \in Nat
  BY DEF WalkInit, HoldersFirst
<1>7. QED
  BY <1>1, <1>5, <1>6 DEF WalkInv, WalkTypeOK

\* Every step of the walk and every change of the catalog preserves it.
LEMMA InvNext == WalkInv /\ [WalkNext]_walkAllVars => WalkInv'
<1> SUFFICES ASSUME WalkInv, [WalkNext]_walkAllVars PROVE WalkInv'
  OBVIOUS
<1>1. CASE WalkStep /\ UNCHANGED catalogVars
  BY <1>1, WalkStepInv
<1>2. CASE CatalogEdit /\ UNCHANGED <<walkVars, faults>>
  BY <1>2, EditInv
<1>3. CASE UNCHANGED walkAllVars
  <2>1. UNCHANGED catalogVars /\ UNCHANGED walkVars /\ UNCHANGED faults
    BY <1>3 DEF walkAllVars
  <2>2. WalkTypeOK'
    BY <2>1 DEF WalkInv, WalkTypeOK, walkVars, catalogVars
  <2>3. FramesOK(stack, list)' /\ CallersIdle(stack)' /\ HoldersFirst(list)'
    BY <2>1 DEF WalkInv, walkVars, FramesOK, FrameOK, Known, ListedIn, CallersIdle, HoldersFirst
  <2>4. QED
    BY <2>2, <2>3 DEF WalkInv
<1>4. QED
  BY <1>1, <1>2, <1>3 DEF WalkNext, WalkReturned

\* The invariant holds throughout the walk, whatever other agents do meanwhile.
THEOREM WalkInvariance == WalkSpec => []WalkInv
BY InvInit, InvNext, PTL DEF WalkSpec

\* Type correctness of the walk.
THEOREM WalkTypeCorrect == WalkSpec => []WalkTypeOK
<1>1. WalkInv => WalkTypeOK
  BY DEF WalkInv
<1>2. QED
  BY <1>1, WalkInvariance, PTL

\* The index lists every collection before what is in it, whatever the tree,
\* the pages and the changes that other agents make during the walk.
THEOREM IndexIsOrdered == WalkSpec => []HoldersListedFirst
<1>1. WalkInv => HoldersListedFirst
  BY DEF WalkInv, HoldersListedFirst
<1>2. QED
  BY <1>1, WalkInvariance, PTL

\* At most three statements are open, that of collID and two of the walk, however
\* deep the tree is.
THEOREM StatementsStayBounded == WalkSpec => []StatementsBounded
<1>1. ASSUME WalkInv PROVE StatementsBounded
  <2> DEFINE open == {k \in 1..Len(stack) : stack[k].cont}
  <2>1. open \subseteq {1}
    BY <1>1 DEF WalkInv, WalkTypeOK, CallersIdle
  <2>2. IsFiniteSet({1}) /\ Cardinality({1}) = 1
    BY FS_Singleton
  <2>3. IsFiniteSet(open) /\ Cardinality(open) <= 1
    BY <2>1, <2>2, FS_Subset
  <2>4. Cardinality(open) \in Nat
    BY <2>3, FS_CardinalityType
  <2>5. OpenStatements = Cardinality(open) + (IF inner > 0 THEN 1 ELSE 0) + 1
    BY DEF OpenStatements, CollIDStatements
  <2> HIDE DEF open
  <2>6. QED
    BY <2>3, <2>4, <2>5 DEF StatementsBounded
<1>2. QED
  BY <1>1, WalkInvariance, PTL

-----------------------------------------------------------------------------
(* No collection is listed twice.                                          *)

\* A path has one id.
UniquePaths ==
    \A i, j \in CollId : (collOf[i] = collOf[j] /\ collOf[i] # NoColl) => i = j

\* Nothing that lies directly in c is listed as a collection.
Childless(lst, c) ==
    \A j \in 1..Len(lst) : lst[j].type = "coll" => ParentOf[lst[j].coll] # c

ListOnce(lst) ==
    \A i, j \in 1..Len(lst) :
        (lst[i].type = "coll" /\ lst[j].type = "coll" /\ lst[i].coll = lst[j].coll) => i = j

\* An activation that has not run yet.
Fresh(f) == f.phase = "query" /\ ~f.cont /\ f.page = {} /\ f.rest = {} /\ f.dirs = <<>>

\* The callers have not run yet; each collection is visited by one of them,
\* and what lies in it has still to be listed.
AllFresh(stk, lst) ==
    /\ \A k \in 1..Len(stk) : /\ Fresh(stk[k])
                              /\ stk[k].fn = "dirColl" => Childless(lst, stk[k].coll)
    /\ \A i, j \in 1..Len(stk) :
          (stk[i].fn = "dirColl" /\ stk[j].fn = "dirColl" /\ stk[i].coll = stk[j].coll) => i = j

\* The same of the collections that the running activation will visit.
Behind(f, rest, lst) ==
    /\ AllFresh(rest, lst)
    /\ \A k \in 1..Len(rest) :
          (f.fn = "dirColl" /\ rest[k].fn = "dirColl") => rest[k].coll # f.coll
    /\ \A m \in 1..Len(f.dirs) :
          /\ Childless(lst, f.dirs[m].coll)
          /\ f.fn = "dirColl" => f.dirs[m].coll # f.coll
          /\ \A k \in 1..Len(rest) : rest[k].fn = "dirColl" => rest[k].coll # f.dirs[m].coll
    /\ \A m, n \in 1..Len(f.dirs) : f.dirs[m].coll = f.dirs[n].coll => m = n

\* The rows that the running activation still has are of different collections
\* and not listed; before its query runs, nothing in its collection is listed.
Front(f, lst) ==
    f.fn = "dirColl" =>
        /\ (f.phase = "query" /\ ~f.cont) => Childless(lst, f.coll)
        /\ f.page \cap f.rest = {}
        /\ \A p, q \in f.page \cup f.rest : p.coll = q.coll => p = q
        /\ \A p \in f.page \cup f.rest : ~ListedIn(lst, Len(lst), p.coll)

OnceStack(stk, lst) ==
    stk # <<>> => Behind(Head(stk), Tail(stk), lst) /\ Front(Head(stk), lst)

OnceInv ==
    /\ WalkInv
    /\ UniquePaths
    /\ OnceStack(stack, list)
    /\ ListOnce(list)

\* A stack of activations that have not run yet.
LEMMA FreshOnce ==
    ASSUME NEW stk \in Seq(Frame), NEW lst, AllFresh(stk, lst)
    PROVE  OnceStack(stk, lst)
<1> SUFFICES ASSUME stk # <<>> PROVE Behind(Head(stk), Tail(stk), lst) /\ Front(Head(stk), lst)
  BY DEF OnceStack
<1> DEFINE f == Head(stk)
           rest == Tail(stk)
<1>1. /\ Len(stk) \in Nat /\ Len(stk) >= 1 /\ f = stk[1]
      /\ rest \in Seq(Frame) /\ Len(rest) = Len(stk) - 1
      /\ \A k \in 1..Len(rest) : rest[k] = stk[k + 1]
  OBVIOUS
<1> HIDE DEF rest, f
<1>2. AllFresh(rest, lst)
  <2>1. \A k \in 1..Len(rest) : k + 1 \in 1..Len(stk) /\ rest[k] = stk[k + 1]
    BY <1>1
  <2>2. \A k \in 1..Len(rest) : /\ Fresh(rest[k])
                                /\ rest[k].fn = "dirColl" => Childless(lst, rest[k].coll)
    BY <2>1 DEF AllFresh
  <2>3. ASSUME NEW i \in 1..Len(rest), NEW j \in 1..Len(rest),
               rest[i].fn = "dirColl", rest[j].fn = "dirColl", rest[i].coll = rest[j].coll
        PROVE  i = j
    <3>1. i + 1 = j + 1
      BY <2>1, <2>3 DEF AllFresh
    <3>2. QED
      BY <3>1
  <2>4. QED
    BY <2>2, <2>3 DEF AllFresh
<1>3. Fresh(f) /\ (f.fn = "dirColl" => Childless(lst, f.coll))
  BY <1>1 DEF AllFresh
<1>4. Len(f.dirs) = 0 /\ f.page \cup f.rest = {}
  BY <1>3 DEF Fresh
<1>5. \A k \in 1..Len(rest) : (f.fn = "dirColl" /\ rest[k].fn = "dirColl") => rest[k].coll # f.coll
  BY <1>1 DEF AllFresh
<1>6. Behind(f, rest, lst)
  BY <1>2, <1>4, <1>5 DEF Behind
<1>7. Front(f, lst)
  BY <1>3, <1>4 DEF Front
<1>8. QED
  BY <1>6, <1>7 DEF f, rest

\* The calls that follow a loop have not run, and visit different collections.
LEMMA CallsFresh ==
    ASSUME NEW f \in Frame, NEW rest \in Seq(Frame), NEW lst, Behind(f, rest, lst)
    PROVE  AllFresh(AfterLoop(f, rest), lst)
<1> DEFINE dirs == f.dirs
           calls == Calls(f.dirs)
           new == AfterLoop(f, rest)
           n == 2 * Len(dirs)
<1>1. dirs \in Seq(Dir) /\ Len(dirs) \in Nat /\ Len(rest) \in Nat /\ n \in Nat
  BY DEF Frame
<1>2. calls = [k \in 1..n |-> calls[k]]
  BY DEF Calls
<1>3. ASSUME NEW k \in 1..n
      PROVE  /\ calls[k] \in Frame /\ Fresh(calls[k])
             /\ calls[k].fn = "dirColl" =>
                  /\ k % 2 = 1 /\ (k + 1) \div 2 \in 1..Len(dirs)
                  /\ calls[k].coll = dirs[(k + 1) \div 2].coll
  <2>1. CASE k % 2 = 1
    <3> DEFINE d == dirs[(k + 1) \div 2]
    <3>1. (k + 1) \div 2 \in 1..Len(dirs)
      BY <1>1, <2>1
    <3>2. calls[k] = NewFrame("dirColl", d.coll, d.id)
      BY <2>1 DEF Calls
    <3>3. d \in Dir
      BY <1>1, <3>1
    <3>4. NewFrame("dirColl", d.coll, d.id) \in Frame
      BY <3>3, NewFrameType DEF Dir
    <3>5. QED
      BY <2>1, <3>1, <3>2, <3>4 DEF NewFrame, Fresh
  <2>2. CASE k % 2 # 1
    <3> DEFINE d == dirs[k \div 2]
    <3>1. k \div 2 \in 1..Len(dirs)
      BY <1>1, <2>2
    <3>2. calls[k] = NewFrame("dirDataObj", d.coll, d.id)
      BY <2>2 DEF Calls
    <3>3. d \in Dir
      BY <1>1, <3>1
    <3>4. NewFrame("dirDataObj", d.coll, d.id) \in Frame
      BY <3>3, NewFrameType DEF Dir
    <3>5. QED
      BY <3>2, <3>4 DEF NewFrame, Fresh
  <2>3. QED
    BY <2>1, <2>2
<1>4. calls \in Seq(Frame) /\ Len(calls) = n
  <2>1. \A k \in 1..n : calls[k] \in Frame
    BY <1>3
  <2> HIDE DEF n, calls
  <2>2. QED
    BY <1>1, <1>2, <2>1
<1> HIDE DEF calls, dirs, n
<1>5. /\ Len(new) = n + Len(rest)
      /\ \A k \in 1..(n + Len(rest)) : new[k] = IF k <= n THEN calls[k] ELSE rest[k - n]
  <2>1. new = calls \o rest
    BY DEF AfterLoop, calls
  <2> HIDE DEF new
  <2>2. QED
    BY <1>1, <1>4, <2>1
<1> HIDE DEF new
<1>6. ASSUME NEW k \in 1..(n + Len(rest))
      PROVE  /\ Fresh(new[k])
             /\ new[k].fn = "dirColl" => Childless(lst, new[k].coll)
  <2>1. CASE k <= n
    <3>1. k \in 1..n /\ new[k] = calls[k]
      BY <1>1, <1>5, <2>1
    <3>2. QED
      BY <1>3, <3>1 DEF Behind, dirs
  <2>2. CASE k > n
    <3>1. k - n \in 1..Len(rest) /\ new[k] = rest[k - n]
      BY <1>1, <1>5, <2>2
    <3>2. QED
      BY <3>1 DEF Behind, AllFresh
  <2>3. QED
    BY <1>1, <2>1, <2>2
<1>7. ASSUME NEW i \in 1..(n + Len(rest)), NEW j \in 1..(n + Len(rest)),
             new[i].fn = "dirColl", new[j].fn = "dirColl", new[i].coll = new[j].coll
      PROVE  i = j
  <2>1. ASSUME NEW a \in 1..n, NEW b \in 1..Len(rest),
               calls[a].fn = "dirColl", rest[b].fn = "dirColl", calls[a].coll = rest[b].coll
        PROVE  FALSE
    BY <1>3, <2>1 DEF Behind, dirs
  <2>2. CASE i <= n /\ j <= n
    <3>1. i \in 1..n /\ j \in 1..n /\ new[i] = calls[i] /\ new[j] = calls[j]
      BY <1>1, <1>5, <2>2
    <3>2. /\ i % 2 = 1 /\ (i + 1) \div 2 \in 1..Len(dirs)
          /\ j % 2 = 1 /\ (j + 1) \div 2 \in 1..Len(dirs)
          /\ dirs[(i + 1) \div 2].coll = dirs[(j + 1) \div 2].coll
      BY <1>3, <1>7, <3>1
    <3>3. (i + 1) \div 2 = (j + 1) \div 2
      BY <3>2 DEF Behind, dirs
    <3>4. QED
      BY <3>1, <3>2, <3>3
  <2>3. CASE i <= n /\ j > n
    <3>1. i \in 1..n /\ j - n \in 1..Len(rest) /\ new[i] = calls[i] /\ new[j] = rest[j - n]
      BY <1>1, <1>5, <2>3
    <3>2. QED
      BY <1>7, <2>1, <3>1
  <2>4. CASE i > n /\ j <= n
    <3>1. j \in 1..n /\ i - n \in 1..Len(rest) /\ new[j] = calls[j] /\ new[i] = rest[i - n]
      BY <1>1, <1>5, <2>4
    <3>2. QED
      BY <1>7, <2>1, <3>1
  <2>5. CASE i > n /\ j > n
    <3>1. /\ i - n \in 1..Len(rest) /\ j - n \in 1..Len(rest)
          /\ new[i] = rest[i - n] /\ new[j] = rest[j - n]
      BY <1>1, <1>5, <2>5
    <3>2. i - n = j - n
      BY <1>7, <3>1 DEF Behind, AllFresh
    <3>3. QED
      BY <1>1, <3>2
  <2>6. QED
    BY <1>1, <2>2, <2>3, <2>4, <2>5
<1>8. QED
  BY <1>5, <1>6, <1>7 DEF AllFresh, new

\* The running activation goes on: what is behind it does not change when it
\* keeps its collection and its visits, and the list stays.
LEMMA SameBehind ==
    ASSUME NEW f, NEW g, NEW rest, NEW lst, Behind(f, rest, lst),
           g.fn = f.fn, g.coll = f.coll, g.dirs = f.dirs
    PROVE  Behind(g, rest, lst)
BY DEF Behind

\* The stack has g as its head.
LEMMA NewHeadOnce ==
    ASSUME NEW g \in Frame, NEW rest \in Seq(Frame), NEW lst, Behind(g, rest, lst), Front(g, lst)
    PROVE  OnceStack(<<g>> \o rest, lst)
<1>1. Head(<<g>> \o rest) = g /\ Tail(<<g>> \o rest) = rest
  OBVIOUS
<1>2. QED
  BY <1>1 DEF OnceStack

\* An item at the end leaves the collections without listed children that it
\* is not in.
LEMMA ChildlessStays ==
    ASSUME NEW lst \in Seq(Item), NEW e \in Item, NEW c, Childless(lst, c),
           e.type = "coll" => ParentOf[e.coll] # c
    PROVE  Childless(Append(lst, e), c)
<1>1. /\ Len(Append(lst, e)) = Len(lst) + 1 /\ Len(lst) \in Nat
      /\ \A j \in 1..Len(lst) : Append(lst, e)[j] = lst[j]
      /\ Append(lst, e)[Len(lst) + 1] = e
  OBVIOUS
<1>2. QED
  BY <1>1 DEF Childless

\* A collection that is neither Root nor listed has no listed children.
LEMMA UnlistedChildless ==
    ASSUME NEW lst \in Seq(Item), HoldersFirst(lst), NEW c, c # Root, ~ListedIn(lst, Len(lst), c)
    PROVE  Childless(lst, c)
<1> SUFFICES ASSUME NEW j \in 1..Len(lst), lst[j].type = "coll", ParentOf[lst[j].coll] = c
             PROVE  FALSE
  BY DEF Childless
<1>1. Holder(lst[j]) = c
  BY DEF Holder
<1>2. ListedIn(lst, j - 1, c)
  BY <1>1 DEF HoldersFirst
<1>3. QED
  BY <1>2 DEF ListedIn

\* A page of collections: none of them is listed, none comes twice.
LEMMA FetchOnce ==
    ASSUME OnceInv, FetchPage, UNCHANGED catalogVars
    PROVE  OnceStack(stack', list')
<1> DEFINE f == Head(stack)
           rest == Tail(stack)
<1>1. /\ stack # <<>> /\ f.phase = "query" /\ list' = list /\ WalkInv
  BY DEF FetchPage, Running, OnceInv
<1>2. f \in Frame /\ stack \in Seq(Frame)
  BY <1>1, HeadOK
<1>3. rest \in Seq(Frame)
  BY <1>1, <1>2
<1>4. PICK page \in SUBSET Pending(f) : stack' = <<Fetched(f, page)>> \o rest
  BY DEF FetchPage
<1>5. Behind(f, rest, list) /\ Front(f, list)
  BY <1>1 DEF OnceInv, OnceStack
<1> DEFINE g == Fetched(f, page)
<1>6. /\ g.fn = f.fn /\ g.coll = f.coll /\ g.dirs = f.dirs /\ g.phase = "attr"
      /\ g.page = page /\ g.rest = Pending(f) \ page
  BY <1>2 DEF Fetched, Frame
<1>7. g \in Frame
  <2>1. \A r \in Pending(f) : r \in Row
    BY <1>1, <1>2, HeadOK, PendingOK
  <2>2. page \in SUBSET Row /\ Pending(f) \ page \in SUBSET Row
    BY <2>1
  <2> DEFINE open == Cardinality(page) = PageSize
  <2>3. open \in BOOLEAN
    OBVIOUS
  <2>4. g = [f EXCEPT !.phase = "attr", !.page = page, !.rest = Pending(f) \ page, !.cont = open]
    BY DEF Fetched
  <2> HIDE DEF open, f
  <2>5. QED
    BY <1>2, <2>2, <2>3, <2>4 DEF Frame
<1> HIDE DEF g, f, rest
<1>8. Behind(g, rest, list)
  BY <1>5, <1>6, SameBehind
<1>9. ASSUME f.fn = "dirColl"
      PROVE  /\ \A p, q \in Pending(f) : p.coll = q.coll => p = q
             /\ \A p \in Pending(f) : ~ListedIn(list, Len(list), p.coll)
  <2>1. CASE f.cont
    BY <1>5, <1>9, <2>1 DEF Front, Pending
  <2>2. CASE ~f.cont
    <3>1. Pending(f) = CollRows(f.coll)
      BY <1>9, <2>2 DEF Pending, Rows
    <3>2. ASSUME NEW p \in Pending(f)
          PROVE  \E id \in CollId :
                   /\ collOf[id] \in Coll \ {Root} /\ ParentOf[collOf[id]] = f.coll
                   /\ p = [coll |-> collOf[id], id |-> id, base |-> NoBase, size |-> 0, mtime |-> 0]
      BY <3>1 DEF CollRows
    <3>3. ASSUME NEW p \in Pending(f), NEW q \in Pending(f), p.coll = q.coll PROVE p = q
      <4>1. PICK i \in CollId :
               /\ collOf[i] \in Coll \ {Root}
               /\ p = [coll |-> collOf[i], id |-> i, base |-> NoBase, size |-> 0, mtime |-> 0]
        BY <3>2
      <4>2. PICK j \in CollId :
               q = [coll |-> collOf[j], id |-> j, base |-> NoBase, size |-> 0, mtime |-> 0]
        BY <3>2
      <4>3. collOf[i] = collOf[j] /\ collOf[i] # NoColl
        BY <3>3, <4>1, <4>2, CatalogAssumption
      <4>4. i = j
        BY <4>3 DEF OnceInv, UniquePaths
      <4>5. QED
        BY <4>1, <4>2, <4>4
    <3>4. ASSUME NEW p \in Pending(f), ListedIn(list, Len(list), p.coll) PROVE FALSE
      <4>1. ParentOf[p.coll] = f.coll
        BY <3>2
      <4>2. Childless(list, f.coll)
        BY <1>1, <1>5, <1>9, <2>2 DEF Front, f
      <4>3. QED
        BY <3>4, <4>1, <4>2 DEF ListedIn, Childless
    <3>5. QED
      BY <3>3, <3>4
  <2>3. QED
    BY <2>1, <2>2
<1>10. Front(g, list)
  <2>1. g.page \cup g.rest \subseteq Pending(f) /\ g.page \cap g.rest = {}
    BY <1>4, <1>6
  <2>2. QED
    BY <1>6, <1>9, <2>1 DEF Front
<1>11. OnceStack(<<g>> \o rest, list)
  BY <1>3, <1>7, <1>8, <1>10, NewHeadOnce DEF rest
<1>12. QED
  BY <1>1, <1>4, <1>11 DEF g, f, rest

\* The loop ends, or an attribute or ACL query goes on.
LEMMA OtherOnce ==
    ASSUME OnceInv, NoMoreRows \/ QueryFails \/ AttrPage \/ AttrDone \/ AclPage,
           UNCHANGED catalogVars
    PROVE  OnceStack(stack', list') /\ list' = list
<1> DEFINE f == Head(stack)
           rest == Tail(stack)
<1>1. stack # <<>> /\ list' = list /\ WalkInv
  BY DEF NoMoreRows, QueryFails, AttrPage, AttrDone, AclPage, Running, OnceInv
<1>2. f \in Frame /\ stack \in Seq(Frame)
  BY <1>1, HeadOK
<1>3. rest \in Seq(Frame)
  BY <1>1, <1>2
<1>4. Behind(f, rest, list) /\ Front(f, list)
  BY <1>1 DEF OnceInv, OnceStack
<1>5. CASE NoMoreRows \/ QueryFails
  <2>1. stack' = AfterLoop(f, rest)
    BY <1>5 DEF NoMoreRows, QueryFails
  <2>2. stack' \in Seq(Frame)
    BY <1>1, <1>2, <2>1, HeadOK, AfterLoopOK DEF WalkInv
  <2>3. AllFresh(stack', list)
    BY <1>2, <1>3, <1>4, <2>1, CallsFresh
  <2>4. QED
    BY <1>1, <2>2, <2>3, FreshOnce
<1>6. CASE AttrPage \/ AclPage
  <2>1. stack' = stack
    BY <1>6 DEF AttrPage, AclPage
  <2>2. QED
    BY <1>1, <2>1 DEF OnceInv
<1>7. CASE AttrDone
  <2> DEFINE g == [f EXCEPT !.phase = "acl"]
  <2>1. stack' = <<g>> \o rest
    BY <1>7 DEF AttrDone
  <2>2. /\ g \in Frame /\ g.phase = "acl"
        /\ g.fn = f.fn /\ g.coll = f.coll /\ g.dirs = f.dirs /\ g.page = f.page /\ g.rest = f.rest
    BY <1>2 DEF Frame
  <2> HIDE DEF g, f, rest
  <2>3. Behind(g, rest, list)
    BY <1>4, <2>2, SameBehind
  <2>4. Front(g, list)
    BY <1>4, <2>2 DEF Front
  <2>5. OnceStack(<<g>> \o rest, list)
    BY <1>3, <2>2, <2>3, <2>4, NewHeadOnce
  <2>6. QED
    BY <1>1, <2>1, <2>5 DEF g, rest, f
<1>8. QED
  BY <1>5, <1>6, <1>7

\* What Handled does to an activation.
LEMMA HandledParts ==
    ASSUME NEW f \in Frame, NEW r \in f.page
    PROVE  /\ Handled(f, r).fn = f.fn /\ Handled(f, r).coll = f.coll
           /\ Handled(f, r).page = f.page \ {r} /\ Handled(f, r).rest = f.rest
           /\ Handled(f, r).cont = f.cont
           /\ Handled(f, r).phase = IF f.page \ {r} # {} THEN "attr" ELSE "query"
           /\ f.fn # "dirColl" => Handled(f, r).dirs = f.dirs
           /\ f.fn = "dirColl" => Handled(f, r).dirs = Append(f.dirs, [coll |-> r.coll, id |-> r.id])
BY DEF Handled, Frame

\* A data object is added: no collection is.
LEMMA DataObjOnce ==
    ASSUME NEW lst \in Seq(Item), NEW e \in Item, e.type # "coll", ListOnce(lst),
           NEW f, NEW rest, Behind(f, rest, lst)
    PROVE  ListOnce(Append(lst, e)) /\ Behind(f, rest, Append(lst, e))
<1> DEFINE new == Append(lst, e)
<1>1. /\ Len(new) = Len(lst) + 1 /\ Len(lst) \in Nat
      /\ \A j \in 1..Len(lst) : new[j] = lst[j]
      /\ new[Len(lst) + 1] = e
  OBVIOUS
<1>2. ListOnce(new)
  BY <1>1 DEF ListOnce
<1>3. \A c : Childless(lst, c) => Childless(new, c)
  BY <1>1 DEF Childless
<1> HIDE DEF new
<1>4. Behind(f, rest, new)
  BY <1>3 DEF Behind, AllFresh
<1>5. QED
  BY <1>2, <1>4 DEF new

\* A collection is added that was not listed before.
LEMMA CollOnce ==
    ASSUME NEW lst \in Seq(Item), NEW e \in Item, e.type = "coll", ListOnce(lst),
           ~ListedIn(lst, Len(lst), e.coll)
    PROVE  ListOnce(Append(lst, e))
<1> DEFINE new == Append(lst, e)
<1>1. /\ Len(new) = Len(lst) + 1 /\ Len(lst) \in Nat
      /\ \A j \in 1..Len(lst) : new[j] = lst[j]
      /\ new[Len(lst) + 1] = e
  OBVIOUS
<1>2. \A j \in 1..Len(lst) : lst[j].type = "coll" => lst[j].coll # e.coll
  BY DEF ListedIn
<1> HIDE DEF new
<1>3. ASSUME NEW i \in 1..Len(new), NEW j \in 1..Len(new),
             new[i].type = "coll", new[j].type = "coll", new[i].coll = new[j].coll
      PROVE  i = j
  <2>1. CASE i <= Len(lst) /\ j <= Len(lst)
    BY <1>1, <1>3, <2>1 DEF ListOnce
  <2>2. CASE i > Len(lst) \/ j > Len(lst)
    BY <1>1, <1>2, <1>3, <2>2
  <2>3. QED
    BY <1>1, <2>1, <2>2
<1>4. QED
  BY <1>3 DEF ListOnce, new

\* The running activation of dirColl has listed r and will visit it.
LEMMA CollBehind ==
    ASSUME NEW f \in Frame, NEW rest \in Seq(Frame), NEW lst \in Seq(Item), NEW r \in f.page,
           f.fn = "dirColl", Behind(f, rest, lst), Front(f, lst), HoldersFirst(lst),
           FrameOK(f, lst), FramesOK(rest, lst), CollItem(r.coll) \in Item
    PROVE  Behind(Handled(f, r), rest, Append(lst, CollItem(r.coll)))
<1> DEFINE e == CollItem(r.coll)
           new == Append(lst, e)
           g == Handled(f, r)
           d == [coll |-> r.coll, id |-> r.id]
<1>1. e.type = "coll" /\ e.coll = r.coll
  BY DEF CollItem
<1>2. r.coll # Root /\ ParentOf[r.coll] = f.coll /\ ~ListedIn(lst, Len(lst), r.coll)
  BY DEF FrameOK, Front
<1>3. Known(lst, f.coll) /\ f.coll # r.coll
  BY <1>2 DEF FrameOK, Known
<1>4. \A k \in 1..Len(rest) : rest[k].coll # r.coll
  BY <1>2 DEF FramesOK, FrameOK, Known
<1>5. \A m \in 1..Len(f.dirs) : f.dirs[m].coll # r.coll
  BY <1>2 DEF FrameOK
<1>6. ASSUME NEW c, Childless(lst, c), c # f.coll PROVE Childless(new, c)
  <2> HIDE DEF e
  <2>1. QED
    BY <1>1, <1>2, <1>6, ChildlessStays DEF e
<1>7. Childless(new, r.coll)
  BY <1>2, <1>3, <1>6, UnlistedChildless
<1>8. /\ g.fn = "dirColl" /\ g.coll = f.coll /\ g.dirs = Append(f.dirs, d)
  BY HandledParts
<1>9. f.dirs \in Seq(Dir) /\ r \in Row
  BY DEF Frame
<1>10. d \in Dir /\ d.coll = r.coll
  BY <1>9 DEF Row, Dir
<1> HIDE DEF d
<1>11. /\ Len(g.dirs) = Len(f.dirs) + 1 /\ Len(f.dirs) \in Nat
       /\ \A m \in 1..Len(f.dirs) : g.dirs[m] = f.dirs[m]
       /\ g.dirs[Len(f.dirs) + 1] = d
  <2> HIDE DEF g
  <2>1. QED
    BY <1>8, <1>9, <1>10
<1> HIDE DEF g, new, e
<1>12. AllFresh(rest, new)
  <2>1. AllFresh(rest, lst) /\ \A k \in 1..Len(rest) : rest[k].fn = "dirColl" => rest[k].coll # f.coll
    BY DEF Behind
  <2>2. QED
    BY <1>6, <2>1 DEF AllFresh
<1>13. \A k \in 1..Len(rest) : rest[k].fn = "dirColl" => rest[k].coll # g.coll
  BY <1>8 DEF Behind
<1>14. ASSUME NEW m \in 1..Len(g.dirs)
       PROVE  /\ Childless(new, g.dirs[m].coll)
              /\ g.dirs[m].coll # g.coll
              /\ \A k \in 1..Len(rest) : rest[k].fn = "dirColl" => rest[k].coll # g.dirs[m].coll
  <2>1. CASE m \in 1..Len(f.dirs)
    <3>1. /\ Childless(lst, f.dirs[m].coll) /\ f.dirs[m].coll # f.coll
          /\ \A k \in 1..Len(rest) : rest[k].fn = "dirColl" => rest[k].coll # f.dirs[m].coll
      BY <2>1 DEF Behind
    <3>2. g.dirs[m] = f.dirs[m]
      BY <1>11, <2>1
    <3>3. QED
      BY <1>6, <1>8, <3>1, <3>2
  <2>2. CASE m = Len(f.dirs) + 1
    BY <1>3, <1>4, <1>7, <1>8, <1>10, <1>11, <2>2
  <2>3. QED
    BY <1>11, <2>1, <2>2
<1>15. ASSUME NEW m \in 1..Len(g.dirs), NEW n \in 1..Len(g.dirs), g.dirs[m].coll = g.dirs[n].coll
       PROVE  m = n
  <2>1. CASE m \in 1..Len(f.dirs) /\ n \in 1..Len(f.dirs)
    BY <1>11, <1>15, <2>1 DEF Behind
  <2>2. CASE m \in 1..Len(f.dirs) /\ n = Len(f.dirs) + 1
    BY <1>5, <1>10, <1>11, <1>15, <2>2
  <2>3. CASE m = Len(f.dirs) + 1 /\ n \in 1..Len(f.dirs)
    BY <1>5, <1>10, <1>11, <1>15, <2>3
  <2>4. QED
    BY <1>11, <2>1, <2>2, <2>3
<1>16. Behind(g, rest, new)
  BY <1>8, <1>12, <1>13, <1>14, <1>15 DEF Behind
<1>17. QED
  BY <1>16 DEF g, new, e

\* A row is added to the archive.
LEMMA AddRowOnce ==
    ASSUME OnceInv, AddRow, UNCHANGED catalogVars
    PROVE  OnceStack(stack', list') /\ ListOnce(list')
<1> DEFINE f == Head(stack)
           rest == Tail(stack)
<1>1. stack # <<>> /\ WalkInv /\ ListOnce(list)
  BY DEF AddRow, Running, OnceInv
<1>2. f \in Frame /\ FrameOK(f, list) /\ stack \in Seq(Frame)
  BY <1>1, HeadOK
<1>3. rest \in Seq(Frame) /\ FramesOK(rest, list)
  <2>1. /\ rest \in Seq(Frame) /\ Len(rest) = Len(stack) - 1 /\ Len(stack) \in Nat
        /\ \A k \in 1..Len(rest) : rest[k] = stack[k + 1]
    BY <1>1, <1>2
  <2>2. QED
    BY <1>1, <2>1 DEF WalkInv, FramesOK
<1>4. Behind(f, rest, list) /\ Front(f, list)
  BY <1>1 DEF OnceInv, OnceStack
<1>5. PICK r \in f.page :
         /\ IF f.fn = "dirColl" THEN addColl(r) ELSE addDataObj(r)
         /\ stack' = AfterRow(f, r)
  BY DEF AddRow
<1>6. list \in Seq(Item) /\ HoldersFirst(list)
  BY <1>1 DEF WalkInv, WalkTypeOK
<1> DEFINE g == Handled(f, r)
<1>7. /\ stack' = IF f.page = {r} /\ ~f.cont THEN AfterLoop(g, rest) ELSE <<g>> \o rest
  BY <1>5 DEF AfterRow
<1> HIDE DEF f, rest
<1>8. /\ g.fn = f.fn /\ g.coll = f.coll
      /\ g.page = f.page \ {r} /\ g.rest = f.rest /\ g.cont = f.cont
      /\ g.phase = IF f.page \ {r} # {} THEN "attr" ELSE "query"
      /\ f.fn # "dirColl" => g.dirs = f.dirs
  BY <1>2, <1>5, HandledParts
<1>9. g \in Frame
  <2>1. /\ FrameOK(f, list') /\ (f.fn = "dirColl" => ListedIn(list', Len(list'), r.coll))
    BY <1>1, <1>2, <1>5, ListStep
  <2>2. QED
    BY <1>2, <1>5, <2>1, HandledOK
<1> HIDE DEF g
<1>10. Behind(g, rest, list') /\ ListOnce(list')
  <2>1. CASE f.fn = "dirColl"
    <3>1. list' = Append(list, CollItem(r.coll)) /\ CollItem(r.coll) \in Item
      BY <1>1, <1>2, <1>5, <2>1, ItemOfRow DEF addColl
    <3>2. Behind(g, rest, Append(list, CollItem(r.coll)))
      BY <1>2, <1>3, <1>4, <1>5, <1>6, <2>1, <3>1, CollBehind DEF g
    <3>3. CollItem(r.coll).type = "coll" /\ CollItem(r.coll).coll = r.coll
      BY DEF CollItem
    <3>4. ~ListedIn(list, Len(list), r.coll)
      BY <1>4, <1>5, <2>1 DEF Front
    <3>5. ListOnce(Append(list, CollItem(r.coll)))
      BY <1>1, <1>6, <3>1, <3>3, <3>4, CollOnce
    <3>6. QED
      BY <3>1, <3>2, <3>5
  <2>2. CASE f.fn # "dirColl"
    <3>1. Behind(g, rest, list)
      BY <1>4, <1>8, <2>2, SameBehind
    <3>2. CASE list' = list
      BY <1>1, <3>1, <3>2
    <3>3. CASE list' # list
      <4> DEFINE e == DataItem(r.coll, r.base, r.size)
      <4>1. list' = Append(list, e)
        BY <1>5, <2>2, <3>3 DEF addDataObj
      <4>2. e \in Item
        BY <1>1, <1>2, <1>5, <2>2, ItemOfRow
      <4>3. e.type # "coll"
        BY DEF DataItem
      <4> HIDE DEF e
      <4>4. QED
        BY <1>1, <1>6, <3>1, <4>1, <4>2, <4>3, DataObjOnce
    <3>4. QED
      BY <3>2, <3>3
  <2>3. QED
    BY <2>1, <2>2
<1>11. CASE f.page = {r} /\ ~f.cont
  <2>1. stack' = AfterLoop(g, rest)
    BY <1>7, <1>11
  <2>2. AllFresh(stack', list')
    BY <1>3, <1>9, <1>10, <2>1, CallsFresh
  <2>3. stack' \in Seq(Frame)
    <3>1. WalkInv'
      BY <1>1, AddRowStep
    <3>2. QED
      BY <3>1 DEF WalkInv, WalkTypeOK
  <2>4. QED
    BY <1>10, <2>2, <2>3, FreshOnce
<1>12. CASE ~(f.page = {r} /\ ~f.cont)
  <2>1. stack' = <<g>> \o rest
    BY <1>7, <1>12
  <2>2. Front(g, list')
    <3> SUFFICES ASSUME f.fn = "dirColl" PROVE Front(g, list')
      BY <1>8 DEF Front
    <3>1. ~(g.phase = "query" /\ ~g.cont)
      BY <1>5, <1>8, <1>12
    <3>2. \A p \in g.page \cup g.rest : p \in f.page \cup f.rest /\ p # r
      BY <1>4, <1>5, <1>8 DEF Front
    <3>3. /\ f.page \cap f.rest = {}
          /\ \A p, q \in f.page \cup f.rest : p.coll = q.coll => p = q
          /\ \A p \in f.page \cup f.rest : ~ListedIn(list, Len(list), p.coll)
      BY <1>4 DEF Front
    <3>4. ASSUME NEW p \in g.page \cup g.rest, ListedIn(list', Len(list'), p.coll) PROVE FALSE
      <4> DEFINE e == CollItem(r.coll)
      <4>1. list' = Append(list, e) /\ e \in Item
        BY <1>1, <1>2, <1>5, ItemOfRow DEF addColl
      <4>2. e.coll = r.coll
        BY DEF CollItem
      <4> HIDE DEF e
      <4>3. /\ Len(list') = Len(list) + 1 /\ Len(list) \in Nat
            /\ \A j \in 1..Len(list) : list'[j] = list[j]
            /\ list'[Len(list) + 1] = e
        BY <1>6, <4>1
      <4>4. p.coll # r.coll
        BY <1>5, <3>2, <3>3
      <4>5. ~ListedIn(list, Len(list), p.coll)
        BY <3>2, <3>3
      <4>6. QED
        BY <3>4, <4>2, <4>3, <4>4, <4>5 DEF ListedIn
    <3>5. g.page \cap g.rest = {}
      BY <1>8, <3>3
    <3>6. QED
      BY <3>1, <3>2, <3>3, <3>4, <3>5 DEF Front
  <2>3. OnceStack(<<g>> \o rest, list')
    BY <1>3, <1>9, <1>10, <2>2, NewHeadOnce
  <2>4. QED
    BY <1>10, <2>1, <2>3
<1>13. QED
  BY <1>11, <1>12

\* Other agents give a path to one collection only.
LEMMA EditUnique ==
    ASSUME WalkTypeOK, UniquePaths, CatalogEdit PROVE UniquePaths'
<1>1. collOf \in [CollId -> Coll \cup {NoColl}]
  BY DEF WalkTypeOK
<1>2. PICK id \in CollId :
        \/ \E b \in Base : PutObj(id, b) \/ ReplicateObj(id, b) \/ RmObj(id, b)
        \/ \E c \in Coll \ {Root} : MkColl(id, c) \/ MvColl(id, c)
        \/ RmColl(id)
  BY DEF CatalogEdit
<1>3. CASE \E b \in Base : PutObj(id, b) \/ ReplicateObj(id, b) \/ RmObj(id, b)
  BY <1>3 DEF PutObj, ReplicateObj, RmObj, UniquePaths
<1>4. CASE \E c \in Coll \ {Root} : MkColl(id, c) \/ MvColl(id, c)
  <2>1. PICK c \in Coll : collOf' = [collOf EXCEPT ![id] = c] /\ ~PathTaken(c)
    BY <1>4 DEF MkColl, MvColl
  <2>2. \A k \in CollId : collOf'[k] = (IF k = id THEN c ELSE collOf[k]) /\ collOf[k] # c
    BY <1>1, <2>1 DEF PathTaken
  <2>3. QED
    BY <2>2 DEF UniquePaths
<1>5. CASE RmColl(id)
  <2>1. collOf' = [collOf EXCEPT ![id] = NoColl]
    BY <1>5 DEF RmColl
  <2>2. \A k \in CollId : collOf'[k] = IF k = id THEN NoColl ELSE collOf[k]
    BY <1>1, <2>1
  <2>3. QED
    BY <2>2 DEF UniquePaths
<1>6. QED
  BY <1>2, <1>3, <1>4, <1>5

\* The invariant holds when dirColl is called.
LEMMA OnceInit == WalkInit => OnceInv
<1> SUFFICES ASSUME WalkInit PROVE OnceInv
  OBVIOUS
<1>1. WalkInv
  BY InvInit
<1>2. UniquePaths
  <2>1. PICK k \in InitCatalogs : collOf = k.collOf
    BY DEF WalkInit, CatalogInit
  <2>2. QED
    BY <2>1, CatalogAssumption DEF UniquePaths
<1>3. list = <<>> /\ Len(list) = 0
  BY DEF WalkInit
<1>4. AllFresh(stack, list)
  <2> DEFINE first == NewFrame("dirColl", Root, RootId)
             second == NewFrame("dirDataObj", Root, RootId)
  <2>1. Fresh(first) /\ Fresh(second) /\ second.fn = "dirDataObj"
    BY DEF NewFrame, Fresh
  <2>2. stack = <<first, second>>
    BY DEF WalkInit, WalkStart
  <2> HIDE DEF first, second
  <2>3. Len(stack) = 2 /\ stack[1] = first /\ stack[2] = second
    BY <2>2
  <2>4. \A c : Childless(list, c)
    BY <1>3 DEF Childless
  <2>5. QED
    BY <2>1, <2>3, <2>4 DEF AllFresh
<1>5. OnceStack(stack, list)
  BY <1>1, <1>4, FreshOnce DEF WalkInv, WalkTypeOK
<1>6. ListOnce(list)
  BY <1>3 DEF ListOnce
<1>7. QED
  BY <1>1, <1>2, <1>5, <1>6 DEF OnceInv

\* Every step of the walk and every change of the catalog preserves it.
LEMMA OnceNext == OnceInv /\ [WalkNext]_walkAllVars => OnceInv'
<1> SUFFICES ASSUME OnceInv, [WalkNext]_walkAllVars PROVE OnceInv'
  OBVIOUS
<1>1. WalkInv'
  BY InvNext DEF OnceInv
<1>2. CASE WalkStep /\ UNCHANGED catalogVars
  <2>1. UniquePaths'
    BY <1>2 DEF OnceInv, UniquePaths, catalogVars
  <2>2. OnceStack(stack', list') /\ ListOnce(list')
    <3>1. CASE AddRow
      BY <1>2, <3>1, AddRowOnce
    <3>2. CASE FetchPage
      <4>1. list' = list
        BY <3>2 DEF FetchPage
      <4>2. QED
        BY <1>2, <3>2, <4>1, FetchOnce DEF OnceInv
    <3>3. CASE NoMoreRows \/ QueryFails \/ AttrPage \/ AttrDone \/ AclPage
      <4>1. OnceStack(stack', list') /\ list' = list
        BY <1>2, <3>3, OtherOnce
      <4>2. QED
        BY <4>1 DEF OnceInv
    <3>4. QED
      BY <1>2, <3>1, <3>2, <3>3 DEF WalkStep
  <2>3. QED
    BY <1>1, <2>1, <2>2 DEF OnceInv
<1>3. CASE CatalogEdit /\ UNCHANGED <<walkVars, faults>>
  <2>1. UniquePaths'
    BY <1>3, EditUnique DEF OnceInv, WalkInv
  <2>2. stack' = stack /\ list' = list
    BY <1>3 DEF walkVars
  <2>3. QED
    BY <1>1, <2>1, <2>2 DEF OnceInv
<1>4. CASE UNCHANGED walkAllVars
  <2>1. stack' = stack /\ list' = list /\ collOf' = collOf
    BY <1>4 DEF walkAllVars, walkVars, catalogVars
  <2>2. QED
    BY <1>1, <2>1 DEF OnceInv, UniquePaths
<1>5. QED
  BY <1>2, <1>3, <1>4 DEF WalkNext, WalkReturned

\* No collection is listed twice, although other agents rename and recreate
\* collections while the pages of the queries are fetched.
THEOREM NoCollectionTwice == WalkSpec => []CollectionsListedOnce
<1>1. OnceInv => CollectionsListedOnce
  BY DEF OnceInv, ListOnce, CollectionsListedOnce
<1>2. WalkSpec => []OnceInv
  BY OnceInit, OnceNext, PTL DEF WalkSpec
<1>3. QED
  BY <1>1, <1>2, PTL

-----------------------------------------------------------------------------
(* The index is exact.                                                     *)

\* The item of a row, the collection whose query returns the row, and the
\* function that makes this query.
ItemOf(r) == IF r.base = NoBase THEN CollItem(r.coll) ELSE DataItem(r.coll, r.base, r.size)
Within(r) == IF r.base = NoBase THEN ParentOf[r.coll] ELSE r.coll
QueryOf(r) == IF r.base = NoBase THEN "dirColl" ELSE "dirDataObj"

\* What CatalogTreeAssumption says of the current catalog.
SoundCatalog ==
    \A id \in CollId :
        /\ collOf[id] = Root <=> (id = RootId /\ collOf[id] # NoColl)
        /\ collOf[id] \in Coll \ {Root} => PathTaken(ParentOf[collOf[id]])
        /\ collOf[id] = NoColl => \A b \in Base : repl[id][b] = {}

\* Collection c, with this id, exists; or there is no archived collection.
RightId(c, id) == collOf[id] = c \/ (c = Root /\ id = RootId)

\* Activation f of fn on c has not run its query yet, or f will make the call.
Visits(f, c) == \E m \in 1..Len(f.dirs) : f.dirs[m].coll = c
DueIn(f, fn, c) == (Fresh(f) /\ f.fn = fn /\ f.coll = c) \/ Visits(f, c)
Due(stk, fn, c) == \E k \in 1..Len(stk) : DueIn(stk[k], fn, c)

\* The server has selected row r and the walk has not handled it yet.
Held(stk, r) == \E k \in 1..Len(stk) : r \in stk[k].page \cup stk[k].rest

\* The callers have not run yet.
Waiting(stk) == \A k \in 1..Len(stk) : Fresh(stk[k])

\* Every collection is given to dirColl once and to dirDataObj once.
Apart(stk) ==
    \A i, j \in 1..Len(stk) : (stk[i].fn = stk[j].fn /\ stk[i].coll = stk[j].coll) => i = j

OneCall(f, rest) ==
    /\ Apart(rest)
    /\ \A k \in 1..Len(rest) : rest[k].fn = f.fn => rest[k].coll # f.coll
    /\ \A m \in 1..Len(f.dirs) :
          /\ f.dirs[m].coll # f.coll
          /\ \A k \in 1..Len(rest) : rest[k].coll # f.dirs[m].coll
    /\ \A m, n \in 1..Len(f.dirs) : f.dirs[m].coll = f.dirs[n].coll => m = n

\* The running activation: which rows it has left, and when.
Working(f) ==
    /\ f.page \cup f.rest \subseteq Rows(f)
    /\ f.page \cap f.rest = {}
    /\ f.phase = "query" => f.page = {}
    /\ (f.phase = "query" /\ ~f.cont) => Fresh(f)
    /\ ~f.cont => f.rest = {}

RightIds(stk) ==
    \A k \in 1..Len(stk) :
        /\ RightId(stk[k].coll, stk[k].id)
        /\ \A m \in 1..Len(stk[k].dirs) : collOf[stk[k].dirs[m].id] = stk[k].dirs[m].coll

Shape(stk) ==
    /\ RightIds(stk)
    /\ stk # <<>> => Working(Head(stk)) /\ OneCall(Head(stk), Tail(stk))

\* Row r is still to be handled, or it lies in a collection that is not listed.
ToCome(stk, lst, r) ==
    \/ Held(stk, r)
    \/ Due(stk, QueryOf(r), Within(r))
    \/ ~Known(lst, Within(r))

\* The list is made of the rows in done, one item for each; the other rows are
\* to come, and those in done will not come again.
Items(lst) == {lst[i] : i \in 1..Len(lst)}

Accounts(done, stk, lst) ==
    /\ IsFiniteSet(done) /\ Cardinality(done) = Len(lst)
    /\ {ItemOf(r) : r \in done} = Items(lst)
    /\ \A r \in AllRows \ done : ToCome(stk, lst, r)
    /\ \A r \in done : ~Held(stk, r) /\ ~Due(stk, QueryOf(r), Within(r))

Accounted(stk, lst) == \E done \in SUBSET AllRows : Accounts(done, stk, lst)

ExactInv ==
    /\ OnceInv
    /\ (edits = 0 /\ faults = 0) =>
          SoundCatalog /\ Shape(stack) /\ Accounted(stack, list)

\* A row of the dirColl query.
LEMMA CollRowIs ==
    ASSUME WalkTypeOK, NEW c \in Coll, NEW r \in CollRows(c)
    PROVE  /\ r \in Row /\ r.base = NoBase /\ r.coll # Root /\ r \in AllRows
           /\ Within(r) = c /\ QueryOf(r) = "dirColl"
           /\ \E id \in CollId : collOf[id] = r.coll /\ r.id = id
<1>1. PICK id \in CollId :
         /\ collOf[id] \in Coll \ {Root} /\ ParentOf[collOf[id]] = c
         /\ r = [coll |-> collOf[id], id |-> id, base |-> NoBase, size |-> 0, mtime |-> 0]
  BY DEF CollRows
<1>2. r \in Row /\ r.base = NoBase /\ r.coll = collOf[id] /\ r.id = id
  BY <1>1 DEF Row
<1>3. r \in AllRows
  BY <1>2 DEF AllRows
<1>4. QED
  BY <1>1, <1>2, <1>3 DEF Within, QueryOf

\* A row of the dirDataObj query.
LEMMA DataRowIs ==
    ASSUME WalkTypeOK, NEW c \in Coll, NEW id \in CollId, NEW r \in DataRows(c, id)
    PROVE  /\ r \in Row /\ r.base \in Base /\ r.base # NoBase /\ r.coll = c /\ r.id = id
           /\ Within(r) = c /\ QueryOf(r) = "dirDataObj"
           /\ \E q \in repl[id][r.base] : q.good /\ r.size = q.size /\ r.mtime = q.mtime
           /\ (collOf[id] = c /\ [coll |-> r.coll, base |-> r.base] # Target) => r \in AllRows
<1>1. PICK b \in Base : \E q \in GoodReplicas(id, b) :
         r = [coll |-> c, id |-> id, base |-> b, size |-> q.size, mtime |-> q.mtime]
  BY DEF DataRows
<1>2. PICK q \in GoodReplicas(id, b) :
         r = [coll |-> c, id |-> id, base |-> b, size |-> q.size, mtime |-> q.mtime]
  BY <1>1
<1>3. q \in repl[id][b] /\ q.good /\ q \in Replica
  BY <1>2 DEF GoodReplicas, WalkTypeOK
<1>4. q.size \in Nat /\ q.mtime \in Nat
  BY <1>3, CatalogAssumption DEF Replica
<1>5. r \in Row /\ r.base = b /\ r.coll = c /\ r.id = id /\ r.size = q.size /\ r.mtime = q.mtime
  BY <1>2, <1>4 DEF Row
<1>6. r.base # NoBase
  BY <1>5, TreeAssumption
<1>7. ASSUME collOf[id] = c, [coll |-> r.coll, base |-> r.base] # Target PROVE r \in AllRows
  <2>1. collOf[id] # NoColl
    BY <1>7, CatalogAssumption
  <2>2. r \in DataRows(collOf[id], id)
    BY <1>7
  <2>3. QED
    BY <1>7, <2>1, <2>2 DEF AllRows
<1>8. QED
  BY <1>3, <1>5, <1>6, <1>7 DEF Within, QueryOf

\* A row of the complete listing is a row of one of these queries.
LEMMA AllRowsAre ==
    ASSUME WalkTypeOK, NEW r \in AllRows
    PROVE  \/ \E c \in Coll : r \in CollRows(c)
           \/ \E id \in CollId : collOf[id] \in Coll /\ r \in DataRows(collOf[id], id)
<1>1. PICK rows \in {CollRows(c) : c \in Coll}
                    \cup {DataRows(collOf[id], id) : id \in {k \in CollId : collOf[k] # NoColl}} :
         r \in rows
  BY DEF AllRows
<1>2. CASE rows \in {CollRows(c) : c \in Coll}
  BY <1>1, <1>2
<1>3. CASE rows \in {DataRows(collOf[id], id) : id \in {k \in CollId : collOf[k] # NoColl}}
  <2>1. PICK id \in CollId : collOf[id] # NoColl /\ rows = DataRows(collOf[id], id)
    BY <1>3
  <2>2. collOf[id] \in Coll
    BY <2>1 DEF WalkTypeOK
  <2>3. QED
    BY <1>1, <2>1, <2>2
<1>4. QED
  BY <1>1, <1>2, <1>3

\* The rows of an activation's query.
LEMMA RowsAre ==
    ASSUME WalkTypeOK, NEW f \in Frame, NEW r \in Rows(f)
    PROVE  r \in Row /\ QueryOf(r) = f.fn /\ Within(r) = f.coll
<1>1. f.coll \in Coll /\ f.id \in CollId /\ f.fn \in {"dirColl", "dirDataObj"}
  BY DEF Frame
<1>2. QED
  BY <1>1, CollRowIs, DataRowIs DEF Rows

\* A row that becomes an item belongs to the complete listing.
LEMMA RowCounts ==
    ASSUME WalkTypeOK, SoundCatalog, NEW f \in Frame, RightId(f.coll, f.id), NEW r \in Rows(f),
           f.fn = "dirColl" \/ [coll |-> r.coll, base |-> r.base] # Target
    PROVE  r \in AllRows
<1>1. f.coll \in Coll /\ f.id \in CollId /\ f.fn \in {"dirColl", "dirDataObj"}
  BY DEF Frame
<1>2. CASE f.fn = "dirColl"
  BY <1>1, <1>2, CollRowIs DEF Rows
<1>3. CASE f.fn # "dirColl"
  <2>1. r \in DataRows(f.coll, f.id)
    BY <1>3 DEF Rows
  <2>2. /\ r.base \in Base
        /\ \E q \in repl[f.id][r.base] : q.good
        /\ (collOf[f.id] = f.coll /\ [coll |-> r.coll, base |-> r.base] # Target) => r \in AllRows
    BY <1>1, <2>1, DataRowIs
  <2>3. collOf[f.id] = f.coll
    <3>1. collOf[f.id] # NoColl
      BY <1>1, <2>2 DEF SoundCatalog
    <3>2. CASE f.coll = Root /\ f.id = RootId
      BY <1>1, <3>1, <3>2 DEF SoundCatalog
    <3>3. QED
      BY <3>2 DEF RightId
  <2>4. QED
    BY <1>3, <2>2, <2>3
<1>4. QED
  BY <1>2, <1>3

\* The query of an activation finds all rows that lie in its collection.
LEMMA RowsOfAll ==
    ASSUME WalkTypeOK, SoundCatalog, UniquePaths, NEW f \in Frame, RightId(f.coll, f.id),
           NEW r \in AllRows, QueryOf(r) = f.fn, Within(r) = f.coll
    PROVE  r \in Rows(f)
<1>1. f.coll \in Coll /\ f.id \in CollId /\ f.fn \in {"dirColl", "dirDataObj"}
  BY DEF Frame
<1>2. CASE \E c \in Coll : r \in CollRows(c)
  <2>1. PICK c \in Coll : r \in CollRows(c)
    BY <1>2
  <2>2. f.fn = "dirColl" /\ c = f.coll
    BY <2>1, CollRowIs
  <2>3. QED
    BY <2>1, <2>2 DEF Rows
<1>3. CASE \E id \in CollId : collOf[id] \in Coll /\ r \in DataRows(collOf[id], id)
  <2>1. PICK id \in CollId : collOf[id] \in Coll /\ r \in DataRows(collOf[id], id)
    BY <1>3
  <2>2. f.fn = "dirDataObj" /\ collOf[id] = f.coll
    BY <2>1, DataRowIs
  <2>3. id = f.id
    <3>1. CASE collOf[f.id] = f.coll
      BY <1>1, <2>2, <3>1, CatalogAssumption DEF UniquePaths
    <3>2. CASE f.coll = Root /\ f.id = RootId
      BY <2>1, <2>2, <3>2 DEF SoundCatalog
    <3>3. QED
      BY <3>1, <3>2 DEF RightId
  <2>4. QED
    BY <2>1, <2>2, <2>3 DEF Rows
<1>4. QED
  BY <1>2, <1>3, AllRowsAre

\* What is due and what is held, activation by activation.
LEMMA DueByHead ==
    ASSUME NEW stk \in Seq(Frame), stk # <<>>
    PROVE  /\ \A fn, c : Due(stk, fn, c) <=> (DueIn(Head(stk), fn, c) \/ Due(Tail(stk), fn, c))
           /\ \A r : Held(stk, r) <=>
                 (r \in Head(stk).page \cup Head(stk).rest \/ Held(Tail(stk), r))
<1> DEFINE f == Head(stk)
           rest == Tail(stk)
<1>1. /\ Len(stk) \in Nat /\ Len(stk) >= 1 /\ f = stk[1]
      /\ Len(rest) = Len(stk) - 1 /\ \A k \in 1..Len(rest) : rest[k] = stk[k + 1]
  OBVIOUS
<1> HIDE DEF f, rest
<1>2. \A k \in 1..Len(rest) : k + 1 \in 1..Len(stk) /\ stk[k + 1] = rest[k]
  BY <1>1
<1>3. \A k \in 1..Len(stk) : k = 1 \/ (k - 1 \in 1..Len(rest) /\ stk[k] = rest[k - 1])
  BY <1>1
<1>4. 1 \in 1..Len(stk)
  BY <1>1
<1>5. ASSUME NEW fn, NEW c PROVE Due(stk, fn, c) <=> (DueIn(f, fn, c) \/ Due(rest, fn, c))
  <2>1. ASSUME Due(stk, fn, c) PROVE DueIn(f, fn, c) \/ Due(rest, fn, c)
    BY <1>1, <1>3, <2>1 DEF Due
  <2>2. ASSUME DueIn(f, fn, c) PROVE Due(stk, fn, c)
    BY <1>1, <1>4, <2>2 DEF Due
  <2>3. ASSUME Due(rest, fn, c) PROVE Due(stk, fn, c)
    BY <1>2, <2>3 DEF Due
  <2>4. QED
    BY <2>1, <2>2, <2>3
<1>6. ASSUME NEW r PROVE Held(stk, r) <=> (r \in f.page \cup f.rest \/ Held(rest, r))
  <2>1. ASSUME Held(stk, r) PROVE r \in f.page \cup f.rest \/ Held(rest, r)
    BY <1>1, <1>3, <2>1 DEF Held
  <2>2. ASSUME r \in f.page \cup f.rest PROVE Held(stk, r)
    BY <1>1, <1>4, <2>2 DEF Held
  <2>3. ASSUME Held(rest, r) PROVE Held(stk, r)
    BY <1>2, <2>3 DEF Held
  <2>4. QED
    BY <2>1, <2>2, <2>3
<1>7. QED
  BY <1>5, <1>6 DEF f, rest

\* The activations that take over when a loop ends, by their place.
LEMMA AfterLoopAt ==
    ASSUME NEW f \in Frame, NEW rest \in Seq(Frame)
    PROVE  LET new == AfterLoop(f, rest)
               n   == Len(f.dirs)
           IN  /\ \A m \in 1..n :
                     /\ 2 * m - 1 \in 1..Len(new) /\ 2 * m \in 1..Len(new)
                     /\ new[2 * m - 1] = NewFrame("dirColl", f.dirs[m].coll, f.dirs[m].id)
                     /\ new[2 * m] = NewFrame("dirDataObj", f.dirs[m].coll, f.dirs[m].id)
               /\ \A k \in 1..Len(rest) : 2 * n + k \in 1..Len(new) /\ new[2 * n + k] = rest[k]
               /\ \A k \in 1..Len(new) :
                     \/ \E m \in 1..n : k = 2 * m - 1 \/ k = 2 * m
                     \/ \E j \in 1..Len(rest) : k = 2 * n + j
<1> DEFINE dirs == f.dirs
           calls == Calls(f.dirs)
           new == AfterLoop(f, rest)
           n == Len(f.dirs)
           call(k) == IF k % 2 = 1
                      THEN NewFrame("dirColl", dirs[(k + 1) \div 2].coll, dirs[(k + 1) \div 2].id)
                      ELSE NewFrame("dirDataObj", dirs[k \div 2].coll, dirs[k \div 2].id)
<1>1. dirs \in Seq(Dir) /\ n \in Nat /\ Len(rest) \in Nat
  BY DEF Frame
<1>2. calls = [k \in 1..(2 * n) |-> call(k)]
  BY DEF Calls
<1>3. \A k \in 1..(2 * n) : calls[k] = call(k)
  BY <1>2
<1>4. \A k \in 1..(2 * n) : (k % 2 = 1 => (k + 1) \div 2 \in 1..n) /\ (k % 2 # 1 => k \div 2 \in 1..n)
  BY <1>1
<1>5. ASSUME NEW k \in 1..(2 * n) PROVE calls[k] \in Frame
  <2>1. CASE k % 2 = 1
    <3>1. dirs[(k + 1) \div 2] \in Dir
      BY <1>1, <1>4, <2>1
    <3>2. calls[k] = NewFrame("dirColl", dirs[(k + 1) \div 2].coll, dirs[(k + 1) \div 2].id)
      BY <1>3, <2>1
    <3>3. QED
      BY <3>1, <3>2, NewFrameType DEF Dir
  <2>2. CASE k % 2 # 1
    <3>1. dirs[k \div 2] \in Dir
      BY <1>1, <1>4, <2>2
    <3>2. calls[k] = NewFrame("dirDataObj", dirs[k \div 2].coll, dirs[k \div 2].id)
      BY <1>3, <2>2
    <3>3. QED
      BY <3>1, <3>2, NewFrameType DEF Dir
  <2>3. QED
    BY <2>1, <2>2
<1>6. calls = [k \in 1..(2 * n) |-> calls[k]]
  BY <1>2
<1>7. calls \in Seq(Frame) /\ Len(calls) = 2 * n
  <2> HIDE DEF calls
  <2>1. 2 * n \in Nat
    BY <1>1
  <2> HIDE DEF n
  <2>2. QED
    BY <1>5, <1>6, <2>1
<1> HIDE DEF calls
<1>8. new = calls \o rest
  BY DEF AfterLoop, calls
<1> HIDE DEF new
<1>9. /\ Len(new) = 2 * n + Len(rest)
      /\ \A k \in 1..(2 * n) : k \in 1..Len(new) /\ new[k] = calls[k]
      /\ \A k \in 1..Len(rest) : 2 * n + k \in 1..Len(new) /\ new[2 * n + k] = rest[k]
  <2> DEFINE t == 2 * n
  <2>1. t \in Nat /\ Len(calls) = t
    BY <1>1, <1>7
  <2> HIDE DEF t
  <2>0. calls \in Seq(Frame) /\ rest \in Seq(Frame) /\ Len(rest) \in Nat
    BY <1>7
  <2>2. Len(new) = t + Len(rest)
    <3>1. Len(calls \o rest) = Len(calls) + Len(rest)
      BY <2>0
    <3>2. QED
      BY <1>8, <2>1, <3>1
  <2>3. \A k \in 1..t : k \in 1..Len(new) /\ new[k] = calls[k]
    BY <1>1, <1>7, <1>8, <2>1, <2>2
  <2>4. ASSUME NEW k \in 1..Len(rest) PROVE t + k \in 1..Len(new) /\ new[t + k] = rest[k]
    <3>1. t + k \in 1..(t + Len(rest)) /\ ~(t + k <= t) /\ (t + k) - t = k
      BY <1>1, <2>1
    <3>2. t + k \in 1..Len(new)
      BY <2>2, <3>1
    <3>3. new[t + k] = rest[(t + k) - Len(calls)]
      BY <1>8, <2>0, <2>1, <2>2, <3>1, <3>2
    <3>4. QED
      BY <2>1, <3>1, <3>2, <3>3
  <2>5. QED
    BY <2>2, <2>3, <2>4 DEF t
<1>10. ASSUME NEW m \in 1..n
       PROVE  /\ 2 * m - 1 \in 1..Len(new) /\ 2 * m \in 1..Len(new)
              /\ new[2 * m - 1] = NewFrame("dirColl", f.dirs[m].coll, f.dirs[m].id)
              /\ new[2 * m] = NewFrame("dirDataObj", f.dirs[m].coll, f.dirs[m].id)
  <2>1. /\ 2 * m - 1 \in 1..(2 * n) /\ 2 * m \in 1..(2 * n)
        /\ (2 * m - 1) % 2 = 1 /\ (2 * m) % 2 # 1
        /\ (2 * m - 1 + 1) \div 2 = m /\ (2 * m) \div 2 = m
    BY <1>1
  <2>2. 2 * m - 1 \in 1..Len(new) /\ 2 * m \in 1..Len(new)
    BY <1>1, <1>9, <2>1
  <2>3. new[2 * m - 1] = calls[2 * m - 1] /\ new[2 * m] = calls[2 * m]
    BY <1>9, <2>1
  <2>4. calls[2 * m - 1] = call(2 * m - 1) /\ calls[2 * m] = call(2 * m)
    BY <1>3, <2>1
  <2>5. call(2 * m - 1) = NewFrame("dirColl", f.dirs[m].coll, f.dirs[m].id)
    BY <2>1
  <2>6. call(2 * m) = NewFrame("dirDataObj", f.dirs[m].coll, f.dirs[m].id)
    BY <2>1
  <2>7. QED
    BY <2>2, <2>3, <2>4, <2>5, <2>6
<1>11. \A k \in 1..Len(rest) : 2 * n + k \in 1..Len(new) /\ new[2 * n + k] = rest[k]
  BY <1>9
<1>12. ASSUME NEW k \in 1..Len(new)
       PROVE  \/ \E m \in 1..n : k = 2 * m - 1 \/ k = 2 * m
              \/ \E j \in 1..Len(rest) : k = 2 * n + j
  <2>1. CASE k <= 2 * n
    <3>1. k \in 1..(2 * n)
      BY <1>1, <1>9, <2>1
    <3>2. CASE k % 2 = 1
      <4>1. (k + 1) \div 2 \in 1..n /\ k = 2 * ((k + 1) \div 2) - 1
        BY <1>1, <3>1, <3>2
      <4>2. QED
        BY <4>1
    <3>3. CASE k % 2 # 1
      <4>1. k \div 2 \in 1..n /\ k = 2 * (k \div 2)
        BY <1>1, <3>1, <3>3
      <4>2. QED
        BY <4>1
    <3>4. QED
      BY <3>2, <3>3
  <2>2. CASE k > 2 * n
    <3>1. k - 2 * n \in 1..Len(rest) /\ k = 2 * n + (k - 2 * n)
      BY <1>1, <1>9, <2>2
    <3>2. QED
      BY <3>1
  <2>3. QED
    BY <1>1, <2>1, <2>2
<1>13. QED
  BY <1>10, <1>11, <1>12 DEF new

\* A new activation makes one call due.
LEMMA NewFrameDue ==
    ASSUME NEW g \in {"dirColl", "dirDataObj"}, NEW d \in Coll, NEW i \in CollId
    PROVE  /\ \A fn, c : DueIn(NewFrame(g, d, i), fn, c) <=> (fn = g /\ c = d)
           /\ NewFrame(g, d, i).page = {} /\ NewFrame(g, d, i).rest = {}
           /\ NewFrame(g, d, i).dirs = <<>> /\ Fresh(NewFrame(g, d, i))
           /\ NewFrame(g, d, i).fn = g /\ NewFrame(g, d, i).coll = d /\ NewFrame(g, d, i).id = i
<1> DEFINE f == NewFrame(g, d, i)
<1>1. /\ f.fn = g /\ f.coll = d /\ f.id = i /\ f.phase = "query" /\ f.page = {} /\ f.rest = {}
      /\ f.cont = FALSE /\ f.dirs = <<>>
  BY DEF NewFrame
<1> HIDE DEF f
<1>2. Fresh(f) /\ Len(f.dirs) = 0
  BY <1>1 DEF Fresh
<1>3. \A fn, c : DueIn(f, fn, c) <=> (fn = g /\ c = d)
  BY <1>1, <1>2 DEF DueIn, Visits
<1>4. QED
  BY <1>1, <1>2, <1>3 DEF f

\* When a loop ends, what the activation would visit becomes due, and no rows
\* are held but those of the callers.
LEMMA AfterLoopDue ==
    ASSUME NEW f \in Frame, NEW rest \in Seq(Frame)
    PROVE  /\ \A fn \in {"dirColl", "dirDataObj"} : \A c :
                 Due(AfterLoop(f, rest), fn, c) <=> (Visits(f, c) \/ Due(rest, fn, c))
           /\ \A r : Held(AfterLoop(f, rest), r) <=> Held(rest, r)
<1> DEFINE new == AfterLoop(f, rest)
           n == Len(f.dirs)
<1>1. /\ \A m \in 1..n :
            /\ 2 * m - 1 \in 1..Len(new) /\ 2 * m \in 1..Len(new)
            /\ new[2 * m - 1] = NewFrame("dirColl", f.dirs[m].coll, f.dirs[m].id)
            /\ new[2 * m] = NewFrame("dirDataObj", f.dirs[m].coll, f.dirs[m].id)
      /\ \A k \in 1..Len(rest) : 2 * n + k \in 1..Len(new) /\ new[2 * n + k] = rest[k]
      /\ \A k \in 1..Len(new) :
            \/ \E m \in 1..n : k = 2 * m - 1 \/ k = 2 * m
            \/ \E j \in 1..Len(rest) : k = 2 * n + j
  BY AfterLoopAt
<1>2. \A m \in 1..n : f.dirs[m].coll \in Coll /\ f.dirs[m].id \in CollId
  <2>1. f.dirs \in Seq(Dir)
    BY DEF Frame
  <2>2. \A m \in 1..n : f.dirs[m] \in Dir
    BY <2>1
  <2>3. QED
    BY <2>2 DEF Dir
<1> HIDE DEF new
<1>3. ASSUME NEW m \in 1..n
      PROVE  /\ \A fn, c : DueIn(new[2 * m - 1], fn, c) <=> (fn = "dirColl" /\ c = f.dirs[m].coll)
             /\ \A fn, c : DueIn(new[2 * m], fn, c) <=> (fn = "dirDataObj" /\ c = f.dirs[m].coll)
             /\ new[2 * m - 1].page \cup new[2 * m - 1].rest = {}
             /\ new[2 * m].page \cup new[2 * m].rest = {}
  <2> DEFINE d == f.dirs[m].coll
             i == f.dirs[m].id
  <2>1. d \in Coll /\ i \in CollId
    BY <1>2
  <2>2. new[2 * m - 1] = NewFrame("dirColl", d, i) /\ new[2 * m] = NewFrame("dirDataObj", d, i)
    BY <1>1
  <2> HIDE DEF d, i
  <2>3. /\ \A fn, c : DueIn(new[2 * m - 1], fn, c) <=> (fn = "dirColl" /\ c = d)
        /\ new[2 * m - 1].page = {} /\ new[2 * m - 1].rest = {}
    BY <2>1, <2>2, NewFrameDue
  <2>4. /\ \A fn, c : DueIn(new[2 * m], fn, c) <=> (fn = "dirDataObj" /\ c = d)
        /\ new[2 * m].page = {} /\ new[2 * m].rest = {}
    BY <2>1, <2>2, NewFrameDue
  <2>5. QED
    BY <2>3, <2>4 DEF d
<1>4. ASSUME NEW fn \in {"dirColl", "dirDataObj"}, NEW c
      PROVE  Due(new, fn, c) <=> (Visits(f, c) \/ Due(rest, fn, c))
  <2>1. ASSUME Due(new, fn, c) PROVE Visits(f, c) \/ Due(rest, fn, c)
    <3>1. PICK k \in 1..Len(new) : DueIn(new[k], fn, c)
      BY <2>1 DEF Due
    <3>2. CASE \E m \in 1..n : k = 2 * m - 1 \/ k = 2 * m
      BY <1>3, <3>1, <3>2 DEF Visits
    <3>3. CASE \E j \in 1..Len(rest) : k = 2 * n + j
      BY <1>1, <3>1, <3>3 DEF Due
    <3>4. QED
      BY <1>1, <3>2, <3>3
  <2>2. ASSUME Visits(f, c) PROVE Due(new, fn, c)
    <3>1. PICK m \in 1..n : f.dirs[m].coll = c
      BY <2>2 DEF Visits
    <3>2. CASE fn = "dirColl"
      <4>1. DueIn(new[2 * m - 1], fn, c)
        BY <1>3, <3>1, <3>2
      <4>2. QED
        BY <1>1, <4>1 DEF Due
    <3>3. CASE fn = "dirDataObj"
      <4>1. DueIn(new[2 * m], fn, c)
        BY <1>3, <3>1, <3>3
      <4>2. QED
        BY <1>1, <4>1 DEF Due
    <3>4. QED
      BY <3>2, <3>3
  <2>3. ASSUME Due(rest, fn, c) PROVE Due(new, fn, c)
    BY <1>1, <2>3 DEF Due
  <2>4. QED
    BY <2>1, <2>2, <2>3
<1>5. ASSUME NEW r PROVE Held(new, r) <=> Held(rest, r)
  <2>1. ASSUME Held(new, r) PROVE Held(rest, r)
    <3>1. PICK k \in 1..Len(new) : r \in new[k].page \cup new[k].rest
      BY <2>1 DEF Held
    <3>2. PICK j \in 1..Len(rest) : k = 2 * n + j
      BY <1>1, <1>3, <3>1
    <3>3. QED
      BY <1>1, <3>1, <3>2 DEF Held
  <2>2. ASSUME Held(rest, r) PROVE Held(new, r)
    BY <1>1, <2>2 DEF Held
  <2>3. QED
    BY <2>1, <2>2
<1>6. QED
  BY <1>4, <1>5 DEF new

\* A stack of activations that have not run.
LEMMA FreshShape ==
    ASSUME NEW stk \in Seq(Frame), Waiting(stk), Apart(stk), RightIds(stk)
    PROVE  Shape(stk)
<1> SUFFICES ASSUME stk # <<>> PROVE Working(Head(stk)) /\ OneCall(Head(stk), Tail(stk))
  BY DEF Shape
<1> DEFINE f == Head(stk)
           rest == Tail(stk)
<1>1. /\ Len(stk) \in Nat /\ Len(stk) >= 1 /\ f = stk[1]
      /\ Len(rest) = Len(stk) - 1 /\ \A k \in 1..Len(rest) : rest[k] = stk[k + 1]
  OBVIOUS
<1> HIDE DEF f, rest
<1>2. \A k \in 1..Len(rest) : k + 1 \in 1..Len(stk) /\ rest[k] = stk[k + 1] /\ k + 1 # 1
  BY <1>1
<1>3. Fresh(f)
  BY <1>1 DEF Waiting
<1>4. f.page = {} /\ f.rest = {} /\ Len(f.dirs) = 0
  BY <1>3 DEF Fresh
<1>5. Working(f)
  BY <1>3, <1>4 DEF Working
<1>6. Apart(rest)
  <2>1. ASSUME NEW i \in 1..Len(rest), NEW j \in 1..Len(rest),
               rest[i].fn = rest[j].fn, rest[i].coll = rest[j].coll
        PROVE  i = j
    <3>1. i + 1 = j + 1
      BY <1>2, <2>1 DEF Apart
    <3>2. QED
      BY <3>1
  <2>2. QED
    BY <2>1 DEF Apart
<1>7. \A k \in 1..Len(rest) : rest[k].fn = f.fn => rest[k].coll # f.coll
  BY <1>1, <1>2 DEF Apart
<1>8. OneCall(f, rest)
  BY <1>4, <1>6, <1>7 DEF OneCall
<1>9. QED
  BY <1>5, <1>8 DEF f, rest

\* The activations that take over when a loop ends.
LEMMA AfterLoopShape ==
    ASSUME NEW f \in Frame, NEW rest \in Seq(Frame),
           Waiting(rest), AfterLoop(f, rest) \in Seq(Frame),
           RightIds(<<f>> \o rest), OneCall(f, rest)
    PROVE  Shape(AfterLoop(f, rest))
<1> DEFINE new == AfterLoop(f, rest)
           n == Len(f.dirs)
<1>1. /\ \A m \in 1..n :
            /\ 2 * m - 1 \in 1..Len(new) /\ 2 * m \in 1..Len(new)
            /\ new[2 * m - 1] = NewFrame("dirColl", f.dirs[m].coll, f.dirs[m].id)
            /\ new[2 * m] = NewFrame("dirDataObj", f.dirs[m].coll, f.dirs[m].id)
      /\ \A k \in 1..Len(rest) : 2 * n + k \in 1..Len(new) /\ new[2 * n + k] = rest[k]
      /\ \A k \in 1..Len(new) :
            \/ \E m \in 1..n : k = 2 * m - 1 \/ k = 2 * m
            \/ \E j \in 1..Len(rest) : k = 2 * n + j
  BY AfterLoopAt
<1>2. \A m \in 1..n : f.dirs[m].coll \in Coll /\ f.dirs[m].id \in CollId
  <2>1. f.dirs \in Seq(Dir)
    BY DEF Frame
  <2>2. \A m \in 1..n : f.dirs[m] \in Dir
    BY <2>1
  <2>3. QED
    BY <2>2 DEF Dir
<1> HIDE DEF new
<1>3. ASSUME NEW m \in 1..n
      PROVE  /\ new[2 * m - 1].fn = "dirColl" /\ new[2 * m].fn = "dirDataObj"
             /\ new[2 * m - 1].coll = f.dirs[m].coll /\ new[2 * m].coll = f.dirs[m].coll
             /\ new[2 * m - 1].id = f.dirs[m].id /\ new[2 * m].id = f.dirs[m].id
             /\ Len(new[2 * m - 1].dirs) = 0 /\ Len(new[2 * m].dirs) = 0
             /\ Fresh(new[2 * m - 1]) /\ Fresh(new[2 * m])
  BY <1>1, <1>2, NewFrameDue
<1>4. RightIds(new)
  <2>1. /\ Len(<<f>> \o rest) = Len(rest) + 1 /\ (<<f>> \o rest)[1] = f /\ Len(rest) \in Nat
        /\ \A k \in 1..Len(rest) : (<<f>> \o rest)[k + 1] = rest[k]
    OBVIOUS
  <2>2. \A m \in 1..n : collOf[f.dirs[m].id] = f.dirs[m].coll
    <3>1. 1 \in 1..Len(<<f>> \o rest)
      BY <2>1
    <3>2. QED
      BY <2>1, <3>1 DEF RightIds
  <2>3. ASSUME NEW k \in 1..Len(rest)
        PROVE  /\ RightId(rest[k].coll, rest[k].id)
               /\ \A m \in 1..Len(rest[k].dirs) : collOf[rest[k].dirs[m].id] = rest[k].dirs[m].coll
    <3>1. k + 1 \in 1..Len(<<f>> \o rest) /\ (<<f>> \o rest)[k + 1] = rest[k]
      BY <2>1
    <3>2. QED
      BY <3>1 DEF RightIds
  <2>4. ASSUME NEW k \in 1..Len(new)
        PROVE  /\ RightId(new[k].coll, new[k].id)
               /\ \A m \in 1..Len(new[k].dirs) : collOf[new[k].dirs[m].id] = new[k].dirs[m].coll
    <3>1. CASE \E m \in 1..n : k = 2 * m - 1 \/ k = 2 * m
      <4>1. PICK m \in 1..n : k = 2 * m - 1 \/ k = 2 * m
        BY <3>1
      <4>2. new[k].coll = f.dirs[m].coll /\ new[k].id = f.dirs[m].id /\ Len(new[k].dirs) = 0
        BY <1>3, <4>1
      <4>3. QED
        BY <2>2, <4>2 DEF RightId
    <3>2. CASE \E j \in 1..Len(rest) : k = 2 * n + j
      BY <1>1, <2>3, <3>2
    <3>3. QED
      BY <1>1, <3>1, <3>2
  <2>5. QED
    BY <2>4 DEF RightIds
<1>5. Apart(new)
  <2> SUFFICES ASSUME NEW i \in 1..Len(new), NEW j \in 1..Len(new),
                      new[i].fn = new[j].fn, new[i].coll = new[j].coll
               PROVE  i = j
    BY DEF Apart
  <2>1. ASSUME NEW k \in 1..n, NEW m \in 1..n, f.dirs[k].coll = f.dirs[m].coll PROVE k = m
    BY <2>1 DEF OneCall
  <2>2. ASSUME NEW k \in 1..Len(rest), NEW m \in 1..n, rest[k].coll = f.dirs[m].coll PROVE FALSE
    BY <2>2 DEF OneCall
  <2>3. CASE (\E m \in 1..n : i = 2 * m - 1 \/ i = 2 * m) /\ (\E m \in 1..n : j = 2 * m - 1 \/ j = 2 * m)
    <3>1. PICK k \in 1..n : i = 2 * k - 1 \/ i = 2 * k
      BY <2>3
    <3>2. PICK m \in 1..n : j = 2 * m - 1 \/ j = 2 * m
      BY <2>3
    <3>3. new[i].coll = f.dirs[k].coll /\ new[j].coll = f.dirs[m].coll
      BY <1>3, <3>1, <3>2
    <3>4. k = m
      BY <2>1, <3>3
    <3>5. QED
      BY <1>3, <3>1, <3>2, <3>4
  <2>4. CASE (\E m \in 1..n : i = 2 * m - 1 \/ i = 2 * m) /\ (\E k \in 1..Len(rest) : j = 2 * n + k)
    <3>1. PICK m \in 1..n : new[i].coll = f.dirs[m].coll
      BY <1>3, <2>4
    <3>2. PICK k \in 1..Len(rest) : new[j] = rest[k]
      BY <1>1, <2>4
    <3>3. QED
      BY <2>2, <3>1, <3>2
  <2>5. CASE (\E k \in 1..Len(rest) : i = 2 * n + k) /\ (\E m \in 1..n : j = 2 * m - 1 \/ j = 2 * m)
    <3>1. PICK m \in 1..n : new[j].coll = f.dirs[m].coll
      BY <1>3, <2>5
    <3>2. PICK k \in 1..Len(rest) : new[i] = rest[k]
      BY <1>1, <2>5
    <3>3. QED
      BY <2>2, <3>1, <3>2
  <2>6. CASE (\E k \in 1..Len(rest) : i = 2 * n + k) /\ (\E k \in 1..Len(rest) : j = 2 * n + k)
    <3>1. PICK k \in 1..Len(rest) : i = 2 * n + k /\ new[i] = rest[k]
      BY <1>1, <2>6
    <3>2. PICK m \in 1..Len(rest) : j = 2 * n + m /\ new[j] = rest[m]
      BY <1>1, <2>6
    <3>3. k = m
      BY <3>1, <3>2 DEF OneCall, Apart
    <3>4. QED
      BY <3>1, <3>2, <3>3
  <2>7. QED
    BY <1>1, <2>3, <2>4, <2>5, <2>6
<1>6. Waiting(new)
  BY <1>1, <1>3 DEF Waiting
<1>7. QED
  BY <1>4, <1>5, <1>6, FreshShape DEF new

\* The running activation goes on in the same collection.
LEMMA NewHeadIds ==
    ASSUME NEW stk \in Seq(Frame), stk # <<>>, RightIds(stk), NEW g,
           g.coll = Head(stk).coll, g.id = Head(stk).id,
           \A m \in 1..Len(g.dirs) : collOf[g.dirs[m].id] = g.dirs[m].coll
    PROVE  RightIds(<<g>> \o Tail(stk))
<1> DEFINE rest == Tail(stk)
           new == <<g>> \o rest
<1>1. /\ Len(stk) \in Nat /\ Len(stk) >= 1 /\ Head(stk) = stk[1]
      /\ Len(rest) = Len(stk) - 1 /\ \A k \in 1..Len(rest) : rest[k] = stk[k + 1]
      /\ rest \in Seq(Frame)
  OBVIOUS
<1> HIDE DEF rest
<1>2. Len(new) = Len(rest) + 1 /\ new[1] = g /\ \A k \in 1..Len(rest) : new[k + 1] = rest[k]
  BY <1>1
<1> HIDE DEF new
<1>3. RightId(g.coll, g.id)
  BY <1>1 DEF RightIds
<1>4. ASSUME NEW k \in 1..Len(new)
      PROVE  /\ RightId(new[k].coll, new[k].id)
             /\ \A m \in 1..Len(new[k].dirs) : collOf[new[k].dirs[m].id] = new[k].dirs[m].coll
  <2>1. CASE k = 1
    BY <1>2, <1>3, <2>1
  <2>2. CASE k # 1
    <3>1. k \in 1..Len(stk) /\ k - 1 \in 1..Len(rest) /\ (k - 1) + 1 = k
      BY <1>1, <1>2, <2>2
    <3>2. new[k] = stk[k]
      BY <1>1, <1>2, <3>1
    <3>3. QED
      BY <3>1, <3>2 DEF RightIds
  <2>3. QED
    BY <2>1, <2>2
<1>5. QED
  BY <1>4 DEF RightIds, new, rest

\* A stack has its shape when the running activation and the callers have it.
LEMMA NewHeadShape ==
    ASSUME NEW g \in Frame, NEW rest \in Seq(Frame), RightIds(<<g>> \o rest), Working(g), OneCall(g, rest)
    PROVE  Shape(<<g>> \o rest)
<1>1. Head(<<g>> \o rest) = g /\ Tail(<<g>> \o rest) = rest
  OBVIOUS
<1>2. QED
  BY <1>1 DEF Shape

\* The same for a stack given by its two parts.
LEMMA ConsDue ==
    ASSUME NEW g \in Frame, NEW rest \in Seq(Frame)
    PROVE  /\ \A fn, c : Due(<<g>> \o rest, fn, c) <=> (DueIn(g, fn, c) \/ Due(rest, fn, c))
           /\ \A r : Held(<<g>> \o rest, r) <=> (r \in g.page \cup g.rest \/ Held(rest, r))
<1> DEFINE stk == <<g>> \o rest
<1>1. stk \in Seq(Frame) /\ stk # <<>> /\ Head(stk) = g /\ Tail(stk) = rest
  OBVIOUS
<1> HIDE DEF stk
<1>2. /\ \A fn, c : Due(stk, fn, c) <=> (DueIn(g, fn, c) \/ Due(rest, fn, c))
      /\ \A r : Held(stk, r) <=> (r \in g.page \cup g.rest \/ Held(rest, r))
  BY <1>1, DueByHead
<1>3. QED
  BY <1>2 DEF stk

\* The two parts of the stack.
LEMMA HeadShape ==
    ASSUME OnceInv, Shape(stack), stack # <<>>
    PROVE  /\ Head(stack) \in Frame /\ Tail(stack) \in Seq(Frame) /\ stack \in Seq(Frame)
           /\ RightId(Head(stack).coll, Head(stack).id)
           /\ Working(Head(stack)) /\ OneCall(Head(stack), Tail(stack))
           /\ \A m \in 1..Len(Head(stack).dirs) :
                 collOf[Head(stack).dirs[m].id] = Head(stack).dirs[m].coll
<1>1. stack \in Seq(Frame)
  BY DEF OnceInv, WalkInv, WalkTypeOK
<1>2. 1 \in 1..Len(stack) /\ Head(stack) = stack[1]
  BY <1>1
<1>3. Head(stack) \in Frame /\ Tail(stack) \in Seq(Frame)
  BY <1>1
<1>4. /\ RightId(Head(stack).coll, Head(stack).id)
      /\ \A m \in 1..Len(Head(stack).dirs) : collOf[Head(stack).dirs[m].id] = Head(stack).dirs[m].coll
  BY <1>2 DEF Shape, RightIds
<1>5. QED
  BY <1>1, <1>3, <1>4 DEF Shape

\* A row that was listed lies in a collection that was listed before it.
LEMMA DoneKnown ==
    ASSUME NEW lst \in Seq(Item), HoldersFirst(lst), NEW r, ItemOf(r) \in Items(lst)
    PROVE  Known(lst, Within(r))
<1>1. PICK i \in 1..Len(lst) : ItemOf(r) = lst[i]
  BY DEF Items
<1>2. Holder(ItemOf(r)) = Within(r)
  BY DEF Holder, ItemOf, Within, CollItem, DataItem
<1>3. Within(r) = Root \/ ListedIn(lst, i - 1, Within(r))
  BY <1>1, <1>2 DEF HoldersFirst
<1>4. i - 1 <= Len(lst) /\ i \in Nat /\ Len(lst) \in Nat
  OBVIOUS
<1>5. QED
  BY <1>3, <1>4 DEF Known, ListedIn

\* A page arrives: the rows of the query are held now.
LEMMA FetchExact ==
    ASSUME OnceInv, SoundCatalog, Shape(stack), Accounted(stack, list), FetchPage
    PROVE  Shape(stack') /\ Accounted(stack', list')
<1> DEFINE f == Head(stack)
           rest == Tail(stack)
<1>1. stack # <<>> /\ f.phase = "query" /\ list' = list
  BY DEF FetchPage, Running
<1>2. PICK page \in SUBSET Pending(f) : IsPage(page, Pending(f)) /\ stack' = <<Fetched(f, page)>> \o rest
  BY DEF FetchPage
<1>3. /\ f \in Frame /\ rest \in Seq(Frame) /\ stack \in Seq(Frame) /\ RightId(f.coll, f.id)
      /\ Working(f) /\ OneCall(f, rest)
      /\ \A m \in 1..Len(f.dirs) : collOf[f.dirs[m].id] = f.dirs[m].coll
  BY <1>1, HeadShape
<1>4. WalkTypeOK /\ UniquePaths
  BY DEF OnceInv, WalkInv
<1> DEFINE g == Fetched(f, page)
<1>5. /\ g.fn = f.fn /\ g.coll = f.coll /\ g.id = f.id /\ g.dirs = f.dirs /\ g.phase = "attr"
      /\ g.page = page /\ g.rest = Pending(f) \ page /\ g.cont = (Cardinality(page) = PageSize)
  BY <1>3 DEF Fetched, Frame
<1>6. Pending(f) \subseteq Rows(f) /\ f.page = {}
  BY <1>1, <1>3 DEF Pending, Working
<1>7. Pending(f) \subseteq Row
  BY <1>3, <1>4, <1>6, RowsAre
<1>8. g \in Frame
  <2> DEFINE open == Cardinality(page) = PageSize
  <2>1. page \in SUBSET Row /\ Pending(f) \ page \in SUBSET Row
    BY <1>7
  <2>2. open \in BOOLEAN
    OBVIOUS
  <2>3. g = [f EXCEPT !.phase = "attr", !.page = page, !.rest = Pending(f) \ page, !.cont = open]
    BY DEF Fetched
  <2> HIDE DEF open, f
  <2>4. QED
    BY <1>3, <2>1, <2>2, <2>3 DEF Frame
<1>9. \A r : r \in g.page \cup g.rest <=> r \in Pending(f)
  BY <1>2, <1>5
<1> HIDE DEF f, g, rest
<1>10. Working(g)
  <2>1. ~g.cont => g.rest = {}
    BY <1>2, <1>5 DEF IsPage
  <2>2. Rows(g) = Rows(f)
    BY <1>5 DEF Rows
  <2>3. g.page \cap g.rest = {}
    BY <1>5
  <2>4. QED
    BY <1>5, <1>6, <1>9, <2>1, <2>2, <2>3 DEF Working
<1>11. OneCall(g, rest)
  BY <1>3, <1>5 DEF OneCall
<1>12. RightIds(<<g>> \o rest)
  BY <1>1, <1>3, <1>5, NewHeadIds DEF Shape, f, rest
<1>13. Shape(stack')
  BY <1>2, <1>3, <1>8, <1>10, <1>11, <1>12, NewHeadShape DEF g
<1>14. /\ \A fn, c : Due(stack, fn, c) <=> (DueIn(f, fn, c) \/ Due(rest, fn, c))
       /\ \A r : Held(stack, r) <=> (r \in f.page \cup f.rest \/ Held(rest, r))
  BY <1>1, <1>3, DueByHead DEF f, rest
<1>15. /\ \A fn, c : Due(stack', fn, c) <=> (DueIn(g, fn, c) \/ Due(rest, fn, c))
       /\ \A r : Held(stack', r) <=> (r \in g.page \cup g.rest \/ Held(rest, r))
  <2>1. stack' = <<g>> \o rest
    BY <1>2 DEF g
  <2>2. QED
    BY <1>3, <1>8, <2>1, ConsDue
<1>16. \A fn, c : DueIn(g, fn, c) <=> Visits(f, c)
  BY <1>5 DEF DueIn, Visits, Fresh
<1>17. f.cont => Pending(f) = f.rest
  BY DEF Pending
<1>18. ~f.cont => Fresh(f) /\ Pending(f) = Rows(f) /\ f.rest = {}
  BY <1>1, <1>3 DEF Pending, Working
<1>19. Fresh(f) => ~f.cont
  BY DEF Fresh
<1>20. ASSUME NEW r, Held(stack, r) PROVE Held(stack', r)
  BY <1>6, <1>9, <1>14, <1>15, <1>17, <1>18, <1>20
<1>21. ASSUME NEW r \in AllRows, Due(stack, QueryOf(r), Within(r))
       PROVE  Held(stack', r) \/ Due(stack', QueryOf(r), Within(r))
  <2>1. CASE Fresh(f) /\ f.fn = QueryOf(r) /\ f.coll = Within(r)
    <3>1. r \in Rows(f)
      BY <1>3, <1>4, <2>1, RowsOfAll
    <3>2. QED
      BY <1>9, <1>15, <1>18, <1>19, <2>1, <3>1
  <2>2. CASE Visits(f, Within(r)) \/ Due(rest, QueryOf(r), Within(r))
    BY <1>15, <1>16, <2>2
  <2>3. QED
    BY <1>14, <1>21, <2>1, <2>2 DEF DueIn
<1>22. ASSUME NEW r, ~Held(stack, r), ~Due(stack, QueryOf(r), Within(r))
       PROVE  ~Held(stack', r) /\ ~Due(stack', QueryOf(r), Within(r))
  <2>1. ~Due(stack', QueryOf(r), Within(r))
    BY <1>14, <1>15, <1>16, <1>22 DEF DueIn
  <2>2. r \notin Pending(f)
    <3>1. CASE f.cont
      BY <1>14, <1>17, <1>22, <3>1
    <3>2. CASE ~f.cont
      <4>1. ASSUME r \in Pending(f) PROVE FALSE
        <5>1. QueryOf(r) = f.fn /\ Within(r) = f.coll
          BY <1>3, <1>4, <1>6, <4>1, RowsAre
        <5>2. QED
          BY <1>14, <1>18, <1>22, <3>2, <5>1 DEF DueIn
      <4>2. QED
        BY <4>1
    <3>3. QED
      BY <3>1, <3>2
  <2>3. QED
    BY <1>9, <1>14, <1>15, <1>22, <2>1, <2>2
<1>23. Accounted(stack', list')
  <2>1. PICK done \in SUBSET AllRows : Accounts(done, stack, list)
    BY DEF Accounted
  <2>2. Accounts(done, stack', list')
    BY <1>1, <1>20, <1>21, <1>22, <2>1 DEF Accounts, ToCome
  <2>3. QED
    BY <2>2 DEF Accounted
<1>24. QED
  BY <1>13, <1>23

\* The query has no more rows: what the activation was to visit is due.
LEMMA LoopEndsExact ==
    ASSUME OnceInv, SoundCatalog, Shape(stack), Accounted(stack, list), NoMoreRows
    PROVE  Shape(stack') /\ Accounted(stack', list')
<1> DEFINE f == Head(stack)
           rest == Tail(stack)
<1>1. stack # <<>> /\ f.phase = "query" /\ Pending(f) = {} /\ list' = list /\ stack' = AfterLoop(f, rest)
  BY DEF NoMoreRows, Running
<1>2. /\ f \in Frame /\ rest \in Seq(Frame) /\ stack \in Seq(Frame) /\ RightId(f.coll, f.id)
      /\ Working(f) /\ OneCall(f, rest)
      /\ \A m \in 1..Len(f.dirs) : collOf[f.dirs[m].id] = f.dirs[m].coll
  BY <1>1, HeadShape
<1>3. WalkTypeOK /\ UniquePaths /\ WalkInv
  BY DEF OnceInv, WalkInv
<1>4. Waiting(rest) /\ stack' \in Seq(Frame)
  <2>1. Behind(f, rest, list)
    BY <1>1 DEF OnceInv, OnceStack
  <2>2. Waiting(rest)
    BY <2>1 DEF Behind, AllFresh, Waiting
  <2>3. AfterLoop(f, rest) \in Seq(Frame)
    BY <1>1, <1>2, <1>3, HeadOK, AfterLoopOK DEF WalkInv
  <2>4. QED
    BY <1>1, <2>2, <2>3
<1> HIDE DEF f, rest
<1>5. Shape(stack')
  <2>1. RightIds(<<f>> \o rest)
    BY <1>1, <1>2, NewHeadIds DEF Shape, f, rest
  <2>2. QED
    BY <1>1, <1>2, <1>4, <2>1, AfterLoopShape
<1>6. /\ \A fn, c : Due(stack, fn, c) <=> (DueIn(f, fn, c) \/ Due(rest, fn, c))
      /\ \A r : Held(stack, r) <=> (r \in f.page \cup f.rest \/ Held(rest, r))
  BY <1>1, <1>2, DueByHead DEF f, rest
<1>7. /\ \A fn \in {"dirColl", "dirDataObj"} : \A c : Due(stack', fn, c) <=> (Visits(f, c) \/ Due(rest, fn, c))
      /\ \A r : Held(stack', r) <=> Held(rest, r)
  BY <1>1, <1>2, AfterLoopDue
<1>8. \A r : QueryOf(r) \in {"dirColl", "dirDataObj"}
  BY DEF QueryOf
<1>9. f.page = {} /\ f.rest = {}
  BY <1>1, <1>2 DEF Working, Pending
<1>10. ASSUME NEW r \in AllRows, Due(stack, QueryOf(r), Within(r))
       PROVE  Due(stack', QueryOf(r), Within(r))
  <2>1. CASE Fresh(f) /\ f.fn = QueryOf(r) /\ f.coll = Within(r)
    <3>1. r \in Rows(f)
      BY <1>2, <1>3, <2>1, RowsOfAll
    <3>2. QED
      BY <1>1, <2>1, <3>1 DEF Pending, Fresh
  <2>2. CASE Visits(f, Within(r)) \/ Due(rest, QueryOf(r), Within(r))
    BY <1>7, <1>8, <2>2
  <2>3. QED
    BY <1>6, <1>10, <2>1, <2>2 DEF DueIn
<1>11. ASSUME NEW r, ~Held(stack, r), ~Due(stack, QueryOf(r), Within(r))
       PROVE  ~Held(stack', r) /\ ~Due(stack', QueryOf(r), Within(r))
  BY <1>6, <1>7, <1>8, <1>11 DEF DueIn
<1>12. Accounted(stack', list')
  <2>1. PICK done \in SUBSET AllRows : Accounts(done, stack, list)
    BY DEF Accounted
  <2>2. \A r : Held(stack, r) => Held(stack', r)
    BY <1>6, <1>7, <1>9
  <2>3. Accounts(done, stack', list')
    BY <1>1, <1>10, <1>11, <2>1, <2>2 DEF Accounts, ToCome
  <2>4. QED
    BY <2>3 DEF Accounted
<1>13. QED
  BY <1>5, <1>12

\* The attributes of the page's next row have been read.
LEMMA AttrDoneExact ==
    ASSUME OnceInv, Shape(stack), Accounted(stack, list), AttrDone
    PROVE  Shape(stack') /\ Accounted(stack', list')
<1> DEFINE f == Head(stack)
           rest == Tail(stack)
           g == [f EXCEPT !.phase = "acl"]
<1>1. stack # <<>> /\ f.phase = "attr" /\ list' = list /\ stack' = <<g>> \o rest
  BY DEF AttrDone, Running
<1>2. /\ f \in Frame /\ rest \in Seq(Frame) /\ stack \in Seq(Frame)
      /\ Working(f) /\ OneCall(f, rest)
      /\ \A m \in 1..Len(f.dirs) : collOf[f.dirs[m].id] = f.dirs[m].coll
  BY <1>1, HeadShape
<1>3. /\ g \in Frame /\ g.fn = f.fn /\ g.coll = f.coll /\ g.id = f.id /\ g.dirs = f.dirs
      /\ g.phase = "acl" /\ g.page = f.page /\ g.rest = f.rest /\ g.cont = f.cont
  BY <1>2 DEF Frame
<1> HIDE DEF f, g, rest
<1>4. Rows(g) = Rows(f)
  BY <1>3 DEF Rows
<1>5. Working(g) /\ OneCall(g, rest)
  BY <1>1, <1>2, <1>3, <1>4 DEF Working, OneCall
<1>6. RightIds(<<g>> \o rest)
  BY <1>1, <1>2, <1>3, NewHeadIds DEF Shape, f, rest
<1>7. Shape(stack')
  BY <1>1, <1>2, <1>3, <1>5, <1>6, NewHeadShape
<1>8. /\ \A fn, c : Due(stack, fn, c) <=> (DueIn(f, fn, c) \/ Due(rest, fn, c))
      /\ \A r : Held(stack, r) <=> (r \in f.page \cup f.rest \/ Held(rest, r))
  BY <1>1, <1>2, DueByHead DEF f, rest
<1>9. /\ \A fn, c : Due(stack', fn, c) <=> (DueIn(g, fn, c) \/ Due(rest, fn, c))
      /\ \A r : Held(stack', r) <=> (r \in g.page \cup g.rest \/ Held(rest, r))
  BY <1>1, <1>2, <1>3, ConsDue
<1>10. /\ \A fn, c : Due(stack', fn, c) <=> Due(stack, fn, c)
       /\ \A r : Held(stack', r) <=> Held(stack, r)
  BY <1>1, <1>3, <1>8, <1>9 DEF DueIn, Visits, Fresh
<1>11. Accounted(stack', list')
  BY <1>1, <1>10 DEF Accounted, Accounts, ToCome
<1>12. QED
  BY <1>7, <1>11

\* An item at the end of the list.
LEMMA ItemAtEnd ==
    ASSUME NEW lst \in Seq(Item), NEW e \in Item
    PROVE  /\ Items(Append(lst, e)) = Items(lst) \cup {e}
           /\ \A c : Known(lst, c) => Known(Append(lst, e), c)
           /\ \A c : Known(Append(lst, e), c) => Known(lst, c) \/ (e.type = "coll" /\ e.coll = c)
<1> DEFINE new == Append(lst, e)
<1>1. /\ Len(new) = Len(lst) + 1 /\ Len(lst) \in Nat
      /\ \A j \in 1..Len(lst) : new[j] = lst[j]
      /\ new[Len(lst) + 1] = e
  OBVIOUS
<1> HIDE DEF new
<1>2. \A j \in 1..Len(lst) : j \in 1..Len(new)
  BY <1>1
<1>3. Len(new) \in 1..Len(new) /\ new[Len(new)] = e
  BY <1>1
<1>4. \A j \in 1..Len(new) : j \in 1..Len(lst) \/ j = Len(new)
  BY <1>1
<1>5. Items(new) = Items(lst) \cup {e}
  <2>1. ASSUME NEW x \in Items(new) PROVE x \in Items(lst) \cup {e}
    <3>1. PICK j \in 1..Len(new) : x = new[j]
      BY <2>1 DEF Items
    <3>2. QED
      BY <1>1, <1>3, <1>4, <3>1 DEF Items
  <2>2. ASSUME NEW x \in Items(lst) \cup {e} PROVE x \in Items(new)
    <3>1. CASE x = e
      BY <1>3, <3>1 DEF Items
    <3>2. CASE x \in Items(lst)
      <4>1. PICK j \in 1..Len(lst) : x = lst[j]
        BY <3>2 DEF Items
      <4>2. j \in 1..Len(new) /\ x = new[j]
        BY <1>1, <1>2, <4>1
      <4>3. QED
        BY <4>2 DEF Items
    <3>3. QED
      BY <2>2, <3>1, <3>2
  <2>3. QED
    BY <2>1, <2>2
<1>6. \A c : Known(lst, c) => Known(new, c)
  BY <1>1, <1>2 DEF Known, ListedIn
<1>7. \A c : Known(new, c) => Known(lst, c) \/ (e.type = "coll" /\ e.coll = c)
  BY <1>1, <1>3, <1>4 DEF Known, ListedIn
<1>8. QED
  BY <1>5, <1>6, <1>7 DEF new

\* One more row is done, and its item is in the list.
LEMMA OneMoreRow ==
    ASSUME NEW lst \in Seq(Item), NEW done \in SUBSET AllRows,
           IsFiniteSet(done), Cardinality(done) = Len(lst), {ItemOf(q) : q \in done} = Items(lst),
           NEW r \in AllRows, r \notin done, ItemOf(r) \in Item
    PROVE  LET more == done \cup {r}
               new  == Append(lst, ItemOf(r))
           IN  /\ IsFiniteSet(more) /\ Cardinality(more) = Len(new)
               /\ {ItemOf(q) : q \in more} = Items(new)
<1> DEFINE more == done \cup {r}
           new == Append(lst, ItemOf(r))
<1>1. Len(new) = Len(lst) + 1
  OBVIOUS
<1>2. IsFiniteSet(more) /\ Cardinality(more) = Cardinality(done) + 1
  BY FS_AddElement
<1>3. Items(new) = Items(lst) \cup {ItemOf(r)}
  BY ItemAtEnd
<1>4. {ItemOf(q) : q \in more} = {ItemOf(q) : q \in done} \cup {ItemOf(r)}
  OBVIOUS
<1>5. QED
  BY <1>1, <1>2, <1>3, <1>4

\* The row that AddRow handles: it was held, its collection is known, a
\* collection that it names is not.
LEMMA HeldRow ==
    ASSUME OnceInv, Shape(stack), stack # <<>>, NEW r \in Head(stack).page
    PROVE  /\ r \in Row /\ r \in Rows(Head(stack)) /\ r \notin Head(stack).rest
           /\ QueryOf(r) = Head(stack).fn /\ Within(r) = Head(stack).coll
           /\ Known(list, Head(stack).coll)
           /\ Head(stack).fn = "dirColl" => ~Known(list, r.coll)
<1> DEFINE f == Head(stack)
<1>1. f \in Frame /\ Working(f)
  BY HeadShape
<1>2. WalkInv /\ WalkTypeOK /\ FrameOK(f, list)
  BY HeadOK DEF OnceInv, WalkInv
<1>3. Front(f, list)
  BY DEF OnceInv, OnceStack
<1> HIDE DEF f
<1>4. r \in f.page
  BY DEF f
<1>5. r \in Rows(f) /\ r \notin f.rest
  BY <1>1, <1>4 DEF Working
<1>6. r \in Row /\ QueryOf(r) = f.fn /\ Within(r) = f.coll
  BY <1>1, <1>2, <1>5, RowsAre
<1>7. Known(list, f.coll)
  BY <1>2 DEF FrameOK
<1>8. f.fn = "dirColl" => ~Known(list, r.coll)
  BY <1>2, <1>3, <1>4 DEF FrameOK, Front, Known
<1>9. QED
  BY <1>5, <1>6, <1>7, <1>8 DEF f

\* Whether the row becomes an item: all rows do but that of the archive.
Listed(r) == r.base = NoBase \/ [coll |-> r.coll, base |-> r.base] # Target

\* What AddRow appends to the list: the item of a row of the complete listing.
LEMMA ListedRow ==
    ASSUME OnceInv, SoundCatalog, Shape(stack), stack # <<>>, NEW r \in Head(stack).page,
           IF Head(stack).fn = "dirColl" THEN addColl(r) ELSE addDataObj(r)
    PROVE  /\ list' = IF Listed(r) THEN Append(list, ItemOf(r)) ELSE list
           /\ ItemOf(r) \in Item
           /\ r \in AllRows <=> Listed(r)
<1> DEFINE f == Head(stack)
<1>1. f \in Frame /\ RightId(f.coll, f.id)
  BY HeadShape
<1>2. WalkInv /\ WalkTypeOK /\ FrameOK(f, list)
  BY HeadOK DEF OnceInv, WalkInv
<1>3. r \in Row /\ r \in Rows(f) /\ QueryOf(r) = f.fn
  BY HeldRow
<1>4. f.fn = "dirColl" <=> r.base = NoBase
  BY <1>3 DEF QueryOf
<1>5. IF f.fn = "dirColl" THEN addColl(r) ELSE addDataObj(r)
  OBVIOUS
<1>6. r \in f.page
  OBVIOUS
<1> HIDE DEF f
<1>7. ItemOf(r) \in Item
  BY <1>1, <1>2, <1>4, <1>6, ItemOfRow DEF ItemOf
<1>8. list' = IF Listed(r) THEN Append(list, ItemOf(r)) ELSE list
  <2>1. CASE f.fn = "dirColl"
    BY <1>4, <1>5, <2>1 DEF addColl, Listed, ItemOf
  <2>2. CASE f.fn # "dirColl"
    BY <1>4, <1>5, <2>2 DEF addDataObj, Listed, ItemOf
  <2>3. QED
    BY <2>1, <2>2
<1>9. Listed(r) => r \in AllRows
  BY <1>1, <1>2, <1>3, <1>4, RowCounts DEF Listed
<1>10. r \in AllRows => Listed(r)
  BY DEF AllRows, Listed
<1>11. QED
  BY <1>7, <1>8, <1>9, <1>10

\* The stack after AddRow.
LEMMA AddRowStack ==
    ASSUME OnceInv, Shape(stack), stack # <<>>, Head(stack).phase = "acl", stack' \in Seq(Frame),
           NEW r \in Head(stack).page, Handled(Head(stack), r) \in Frame,
           stack' = AfterRow(Head(stack), r)
    PROVE  LET f == Head(stack)
           IN  /\ Shape(stack')
               /\ \A fn, c : Due(stack, fn, c) <=> (Visits(f, c) \/ Due(Tail(stack), fn, c))
               /\ \A fn \in {"dirColl", "dirDataObj"} : \A c :
                     Due(stack', fn, c) <=>
                        (Due(stack, fn, c) \/ (f.fn = "dirColl" /\ c = r.coll))
               /\ \A q : Held(stack', q) <=> (Held(stack, q) /\ q # r)
               /\ ~Due(stack', f.fn, f.coll)
<1> DEFINE f == Head(stack)
           rest == Tail(stack)
           g == Handled(f, r)
<1>1. /\ f \in Frame /\ rest \in Seq(Frame) /\ stack \in Seq(Frame) /\ RightId(f.coll, f.id)
      /\ Working(f) /\ OneCall(f, rest) /\ RightIds(stack)
      /\ \A m \in 1..Len(f.dirs) : collOf[f.dirs[m].id] = f.dirs[m].coll
  BY HeadShape DEF Shape
<1>2. WalkInv /\ WalkTypeOK /\ FrameOK(f, list)
  BY HeadOK DEF OnceInv, WalkInv
<1>3. /\ r \in Row /\ r \in Rows(f) /\ r \notin f.rest /\ QueryOf(r) = f.fn /\ Within(r) = f.coll
      /\ Known(list, f.coll) /\ (f.fn = "dirColl" => ~Known(list, r.coll))
  BY HeldRow
<1>4. stack' = IF f.page = {r} /\ ~f.cont THEN AfterLoop(g, rest) ELSE <<g>> \o rest
  BY DEF AfterRow
<1>5. f.phase = "acl" /\ r \in f.page /\ g \in Frame
  OBVIOUS
<1>6. Waiting(rest) /\ \A k \in 1..Len(rest) : Known(list, rest[k].coll)
  <2>1. Waiting(rest)
    BY DEF OnceInv, OnceStack, Behind, AllFresh, Waiting
  <2>2. /\ Len(rest) = Len(stack) - 1 /\ Len(stack) \in Nat
        /\ \A k \in 1..Len(rest) : rest[k] = stack[k + 1]
    BY <1>1
  <2>3. \A k \in 1..Len(rest) : k + 1 \in 1..Len(stack)
    BY <2>2
  <2>4. QED
    BY <1>2, <2>1, <2>2, <2>3 DEF WalkInv, FramesOK, FrameOK
<1> DEFINE d == [coll |-> r.coll, id |-> r.id]
<1>7. /\ g.fn = f.fn /\ g.coll = f.coll /\ g.id = f.id
      /\ g.page = f.page \ {r} /\ g.rest = f.rest /\ g.cont = f.cont
      /\ g.phase = IF f.page \ {r} # {} THEN "attr" ELSE "query"
      /\ f.fn # "dirColl" => g.dirs = f.dirs
      /\ f.fn = "dirColl" => g.dirs = Append(f.dirs, d)
  <2>1. g.id = f.id
    BY <1>1 DEF Handled, Frame
  <2>2. QED
    BY <1>1, <1>5, <2>1, HandledParts
<1>8. f.dirs \in Seq(Dir) /\ Len(f.dirs) \in Nat /\ d \in Dir /\ d.coll = r.coll /\ d.id = r.id
  BY <1>1, <1>3 DEF Frame, Row, Dir
<1> HIDE DEF f, rest, g, d
<1>9. f.fn = "dirColl" =>
        /\ Len(g.dirs) = Len(f.dirs) + 1
        /\ \A m \in 1..Len(f.dirs) : g.dirs[m] = f.dirs[m]
        /\ g.dirs[Len(f.dirs) + 1] = d
  BY <1>7, <1>8
<1>10. \A c : Visits(g, c) <=> (Visits(f, c) \/ (f.fn = "dirColl" /\ c = r.coll))
  <2>1. CASE f.fn # "dirColl"
    BY <1>7, <2>1 DEF Visits
  <2>2. CASE f.fn = "dirColl"
    <3>1. \A m \in 1..Len(g.dirs) : m \in 1..Len(f.dirs) \/ m = Len(f.dirs) + 1
      BY <1>8, <1>9, <2>2
    <3>2. \A m \in 1..Len(f.dirs) : m \in 1..Len(g.dirs)
      BY <1>8, <1>9, <2>2
    <3>3. Len(f.dirs) + 1 \in 1..Len(g.dirs)
      BY <1>8, <1>9, <2>2
    <3>4. ASSUME NEW c, Visits(g, c) PROVE Visits(f, c) \/ c = r.coll
      <4>1. PICK m \in 1..Len(g.dirs) : g.dirs[m].coll = c
        BY <3>4 DEF Visits
      <4>2. QED
        BY <1>8, <1>9, <2>2, <3>1, <4>1 DEF Visits
    <3>5. ASSUME NEW c, Visits(f, c) PROVE Visits(g, c)
      BY <1>9, <2>2, <3>2, <3>5 DEF Visits
    <3>6. Visits(g, r.coll)
      BY <1>8, <1>9, <2>2, <3>3 DEF Visits
    <3>7. QED
      BY <2>2, <3>4, <3>5, <3>6
  <2>3. QED
    BY <2>1, <2>2
<1>11. \A m \in 1..Len(f.dirs) : Known(list, f.dirs[m].coll)
  BY <1>2 DEF FrameOK, Known
<1>12. OneCall(g, rest)
  <2>1. CASE f.fn # "dirColl"
    BY <1>1, <1>7, <2>1 DEF OneCall
  <2>2. CASE f.fn = "dirColl"
    <3>1. /\ \A m \in 1..Len(f.dirs) : f.dirs[m].coll # r.coll
          /\ \A k \in 1..Len(rest) : rest[k].coll # r.coll
          /\ f.coll # r.coll
      BY <1>3, <1>6, <1>11, <2>2
    <3>2. ASSUME NEW m \in 1..Len(g.dirs)
          PROVE  \/ m \in 1..Len(f.dirs) /\ g.dirs[m] = f.dirs[m]
                 \/ m = Len(f.dirs) + 1 /\ g.dirs[m].coll = r.coll
      BY <1>8, <1>9, <2>2
    <3>3. \A m \in 1..Len(g.dirs) :
             /\ g.dirs[m].coll # g.coll
             /\ \A k \in 1..Len(rest) : rest[k].coll # g.dirs[m].coll
      <4>1. /\ \A m \in 1..Len(f.dirs) : f.dirs[m].coll # f.coll
            /\ \A m \in 1..Len(f.dirs), k \in 1..Len(rest) : rest[k].coll # f.dirs[m].coll
        BY <1>1 DEF OneCall
      <4>2. ASSUME NEW m \in 1..Len(g.dirs)
            PROVE  /\ g.dirs[m].coll # g.coll
                   /\ \A k \in 1..Len(rest) : rest[k].coll # g.dirs[m].coll
        <5>1. CASE m \in 1..Len(f.dirs) /\ g.dirs[m] = f.dirs[m]
          BY <1>7, <4>1, <5>1
        <5>2. CASE g.dirs[m].coll = r.coll
          BY <1>7, <3>1, <5>2
        <5>3. QED
          BY <3>2, <5>1, <5>2
      <4>3. QED
        BY <4>2
    <3>4. \A m, n \in 1..Len(g.dirs) : g.dirs[m].coll = g.dirs[n].coll => m = n
      BY <1>1, <3>1, <3>2 DEF OneCall
    <3>5. QED
      BY <1>1, <1>7, <3>3, <3>4 DEF OneCall
  <2>3. QED
    BY <2>1, <2>2
<1>13. \A m \in 1..Len(g.dirs) : collOf[g.dirs[m].id] = g.dirs[m].coll
  <2>1. CASE f.fn # "dirColl"
    BY <1>1, <1>7, <2>1
  <2>2. CASE f.fn = "dirColl"
    <3>1. r \in CollRows(f.coll) /\ f.coll \in Coll
      BY <1>1, <1>3, <2>2 DEF Rows, Frame
    <3>2. collOf[r.id] = r.coll
      BY <1>2, <3>1, CollRowIs
    <3>3. \A m \in 1..Len(g.dirs) : m \in 1..Len(f.dirs) \/ m = Len(f.dirs) + 1
      BY <1>8, <1>9, <2>2
    <3>4. QED
      BY <1>1, <1>8, <1>9, <2>2, <3>2, <3>3
  <2>3. QED
    BY <2>1, <2>2
<1>14. RightIds(<<g>> \o rest)
  BY <1>1, <1>7, <1>13, NewHeadIds DEF f, rest
<1>15. /\ \A fn, c : Due(stack, fn, c) <=> (DueIn(f, fn, c) \/ Due(rest, fn, c))
       /\ \A q : Held(stack, q) <=> (q \in f.page \cup f.rest \/ Held(rest, q))
  BY <1>1, DueByHead DEF f, rest
<1>16. \A fn, c : Due(stack, fn, c) <=> (Visits(f, c) \/ Due(rest, fn, c))
  BY <1>5, <1>15 DEF DueIn, Fresh
<1>17. \A q : ~Held(rest, q)
  BY <1>6 DEF Held, Waiting, Fresh
<1>18. ~Due(rest, f.fn, f.coll)
  <2>1. ASSUME NEW k \in 1..Len(rest), DueIn(rest[k], f.fn, f.coll) PROVE FALSE
    <3>1. Len(rest[k].dirs) = 0
      BY <1>6 DEF Waiting, Fresh
    <3>2. rest[k].fn = f.fn /\ rest[k].coll = f.coll
      BY <2>1, <3>1 DEF DueIn, Visits
    <3>3. QED
      BY <1>1, <3>2 DEF OneCall
  <2>2. QED
    BY <2>1 DEF Due
<1>19. ~Visits(g, f.coll)
  BY <1>7, <1>12 DEF OneCall, Visits
<1>20. /\ Shape(stack')
       /\ \A fn \in {"dirColl", "dirDataObj"} : \A c :
             Due(stack', fn, c) <=> (Visits(g, c) \/ Due(rest, fn, c))
       /\ \A q : Held(stack', q) <=> (q \in f.page \cup f.rest /\ q # r)
  <2>1. CASE f.page = {r} /\ ~f.cont
    <3>1. stack' = AfterLoop(g, rest) /\ AfterLoop(g, rest) \in Seq(Frame)
      BY <1>4, <2>1
    <3>2. Shape(stack')
      BY <1>1, <1>5, <1>6, <1>12, <1>14, <3>1, AfterLoopShape
    <3>3. /\ \A fn \in {"dirColl", "dirDataObj"} : \A c :
                Due(stack', fn, c) <=> (Visits(g, c) \/ Due(rest, fn, c))
          /\ \A q : Held(stack', q) <=> Held(rest, q)
      BY <1>1, <1>5, <3>1, AfterLoopDue
    <3>4. f.rest = {}
      BY <1>1, <2>1 DEF Working
    <3>5. QED
      BY <1>17, <2>1, <3>2, <3>3, <3>4
  <2>2. CASE ~(f.page = {r} /\ ~f.cont)
    <3>1. stack' = <<g>> \o rest
      BY <1>4, <2>2
    <3>2. ~(g.phase = "query" /\ ~g.cont)
      BY <1>5, <1>7, <2>2
    <3>3. Working(g)
      <4>1. Rows(g) = Rows(f)
        BY <1>7 DEF Rows
      <4>2. QED
        BY <1>1, <1>7, <3>2, <4>1 DEF Working
    <3>4. Shape(stack')
      BY <1>1, <1>5, <1>12, <1>14, <3>1, <3>3, NewHeadShape
    <3>5. /\ \A fn, c : Due(stack', fn, c) <=> (DueIn(g, fn, c) \/ Due(rest, fn, c))
          /\ \A q : Held(stack', q) <=> (q \in g.page \cup g.rest \/ Held(rest, q))
      BY <1>1, <1>5, <3>1, ConsDue
    <3>6. \A fn, c : DueIn(g, fn, c) <=> Visits(g, c)
      BY <3>2 DEF DueIn, Fresh
    <3>7. \A q : q \in g.page \cup g.rest <=> (q \in f.page \cup f.rest /\ q # r)
      BY <1>3, <1>7
    <3>8. QED
      BY <1>17, <3>4, <3>5, <3>6, <3>7
  <2>3. QED
    BY <2>1, <2>2
<1>21. ~Due(stack', f.fn, f.coll)
  <2>1. f.fn \in {"dirColl", "dirDataObj"}
    BY <1>1 DEF Frame
  <2>2. QED
    BY <1>18, <1>19, <1>20, <2>1
<1>22. \A fn \in {"dirColl", "dirDataObj"} : \A c :
          Due(stack', fn, c) <=> (Due(stack, fn, c) \/ (f.fn = "dirColl" /\ c = r.coll))
  BY <1>10, <1>16, <1>20
<1>23. \A q : Held(stack', q) <=> (Held(stack, q) /\ q # r)
  BY <1>15, <1>17, <1>20
<1>24. QED
  BY <1>16, <1>20, <1>21, <1>22, <1>23 DEF f, rest

\* The row becomes an item, unless it is the archive's, and is done.
LEMMA AddRowExact ==
    ASSUME OnceInv, SoundCatalog, Shape(stack), Accounted(stack, list), AddRow, stack' \in Seq(Frame)
    PROVE  Shape(stack') /\ Accounted(stack', list')
<1> DEFINE f == Head(stack)
<1>1. stack # <<>> /\ f.phase = "acl"
  BY DEF AddRow, Running
<1>2. PICK r \in f.page :
         /\ IF f.fn = "dirColl" THEN addColl(r) ELSE addDataObj(r)
         /\ stack' = AfterRow(f, r)
  BY DEF AddRow
<1>3. f \in Frame
  BY <1>1, HeadShape
<1>4. WalkInv /\ WalkTypeOK /\ FrameOK(f, list) /\ list \in Seq(Item) /\ HoldersFirst(list)
  BY <1>1, HeadOK DEF OnceInv, WalkInv, WalkTypeOK
<1>5. Handled(f, r) \in Frame
  <2>1. FrameOK(f, list') /\ (f.fn = "dirColl" => ListedIn(list', Len(list'), r.coll))
    BY <1>2, <1>3, <1>4, ListStep
  <2>2. QED
    BY <1>2, <1>3, <2>1, HandledOK
<1>6. /\ Shape(stack')
      /\ \A fn \in {"dirColl", "dirDataObj"} : \A c :
            Due(stack', fn, c) <=> (Due(stack, fn, c) \/ (f.fn = "dirColl" /\ c = r.coll))
      /\ \A q : Held(stack', q) <=> (Held(stack, q) /\ q # r)
      /\ ~Due(stack', f.fn, f.coll)
  BY <1>1, <1>2, <1>5, AddRowStack
<1>7. /\ QueryOf(r) = f.fn /\ Within(r) = f.coll
      /\ f.fn = "dirColl" => ~Known(list, r.coll)
  BY <1>1, <1>2, HeldRow
<1>8. /\ list' = IF Listed(r) THEN Append(list, ItemOf(r)) ELSE list
      /\ ItemOf(r) \in Item
      /\ r \in AllRows <=> Listed(r)
  BY <1>1, <1>2, ListedRow
<1>9. Held(stack, r)
  <2>1. stack \in Seq(Frame)
    BY <1>1, HeadShape
  <2>2. \A q : Held(stack, q) <=> (q \in f.page \cup f.rest \/ Held(Tail(stack), q))
    BY <1>1, <2>1, DueByHead
  <2>3. QED
    BY <1>2, <2>2
<1> HIDE DEF f
<1>10. \A q : QueryOf(q) \in {"dirColl", "dirDataObj"}
  BY DEF QueryOf
<1>11. \A c : Known(list', c) => Known(list, c) \/ (f.fn = "dirColl" /\ c = r.coll)
  <2>1. CASE Listed(r)
    <3>1. \A c : Known(list', c) =>
                   Known(list, c) \/ (ItemOf(r).type = "coll" /\ ItemOf(r).coll = c)
      BY <1>4, <1>8, <2>1, ItemAtEnd
    <3>2. ItemOf(r).coll = r.coll /\ (ItemOf(r).type = "coll" => f.fn = "dirColl")
      BY <1>7 DEF ItemOf, CollItem, DataItem, QueryOf
    <3>3. QED
      BY <3>1, <3>2
  <2>2. CASE ~Listed(r)
    BY <1>8, <2>2
  <2>3. QED
    BY <2>1, <2>2
<1>12. PICK done \in SUBSET AllRows : Accounts(done, stack, list)
  BY DEF Accounted
<1>13. /\ IsFiniteSet(done) /\ Cardinality(done) = Len(list) /\ {ItemOf(q) : q \in done} = Items(list)
       /\ \A q \in AllRows \ done : ToCome(stack, list, q)
       /\ \A q \in done : ~Held(stack, q) /\ ~Due(stack, QueryOf(q), Within(q))
  BY <1>12 DEF Accounts
<1>14. r \notin done
  BY <1>9, <1>13
<1> DEFINE more == IF Listed(r) THEN done \cup {r} ELSE done
<1>15. more \in SUBSET AllRows
  BY <1>8
<1>16. /\ IsFiniteSet(more) /\ Cardinality(more) = Len(list')
       /\ {ItemOf(q) : q \in more} = Items(list')
  <2>1. CASE Listed(r)
    <3>1. more = done \cup {r} /\ list' = Append(list, ItemOf(r)) /\ r \in AllRows
      BY <1>8, <2>1
    <3>2. /\ IsFiniteSet(done \cup {r})
          /\ Cardinality(done \cup {r}) = Len(Append(list, ItemOf(r)))
          /\ {ItemOf(q) : q \in done \cup {r}} = Items(Append(list, ItemOf(r)))
      BY <1>4, <1>8, <1>13, <1>14, <3>1, OneMoreRow
    <3> HIDE DEF more
    <3>3. QED
      BY <3>1, <3>2
  <2>2. CASE ~Listed(r)
    BY <1>8, <1>13, <2>2
  <2>3. QED
    BY <2>1, <2>2
<1>17. ASSUME NEW q \in AllRows \ more PROVE ToCome(stack', list', q)
  <2>1. q # r /\ q \in AllRows \ done
    BY <1>8, <1>17
  <2>2. ToCome(stack, list, q)
    BY <1>13, <2>1
  <2>3. CASE Held(stack, q)
    BY <1>6, <2>1, <2>3 DEF ToCome
  <2>4. CASE Due(stack, QueryOf(q), Within(q))
    BY <1>6, <1>10, <2>4 DEF ToCome
  <2>5. CASE ~Known(list, Within(q))
    <3>1. CASE Known(list', Within(q))
      BY <1>6, <1>10, <1>11, <2>5, <3>1 DEF ToCome
    <3>2. CASE ~Known(list', Within(q))
      BY <3>2 DEF ToCome
    <3>3. QED
      BY <3>1, <3>2
  <2>6. QED
    BY <2>2, <2>3, <2>4, <2>5 DEF ToCome
<1>18. ASSUME NEW q \in more PROVE ~Held(stack', q) /\ ~Due(stack', QueryOf(q), Within(q))
  <2>1. CASE q = r
    BY <1>6, <1>7, <2>1
  <2>2. CASE q \in done
    <3>1. ~Held(stack, q) /\ ~Due(stack, QueryOf(q), Within(q))
      BY <1>13, <2>2
    <3>2. ItemOf(q) \in Items(list)
      BY <1>13, <2>2
    <3>3. Known(list, Within(q))
      BY <1>4, <3>2, DoneKnown
    <3>4. QED
      BY <1>6, <1>7, <1>10, <3>1, <3>3
  <2>3. QED
    BY <1>18, <2>1, <2>2
<1>19. Accounts(more, stack', list')
  <2> HIDE DEF more
  <2>1. QED
    BY <1>16, <1>17, <1>18 DEF Accounts
<1>20. QED
  BY <1>6, <1>15, <1>19 DEF Accounted

\* The invariant holds when dirColl is called: nothing is done, everything that
\* lies in Root is due, and nothing else is listed.
LEMMA ExactInit == WalkInit => ExactInv
<1> SUFFICES ASSUME WalkInit PROVE ExactInv
  OBVIOUS
<1>1. OnceInv
  BY OnceInit
<1>2. SoundCatalog
  <2>1. PICK k \in InitCatalogs : collOf = k.collOf /\ repl = k.repl
    BY DEF WalkInit, CatalogInit
  <2>2. QED
    BY <2>1, CatalogTreeAssumption DEF SoundCatalog, PathTaken
<1> DEFINE first == NewFrame("dirColl", Root, RootId)
           second == NewFrame("dirDataObj", Root, RootId)
<1>3. stack = <<first, second>> /\ list = <<>>
  BY DEF WalkInit, WalkStart
<1>4. Root \in Coll /\ RootId \in CollId
  BY TreeAssumption, CatalogAssumption
<1>5. /\ \A fn, c : DueIn(first, fn, c) <=> (fn = "dirColl" /\ c = Root)
      /\ first.page = {} /\ first.rest = {} /\ first.dirs = <<>> /\ Fresh(first)
      /\ first.fn = "dirColl" /\ first.coll = Root /\ first.id = RootId
  BY <1>4, NewFrameDue
<1>6. /\ \A fn, c : DueIn(second, fn, c) <=> (fn = "dirDataObj" /\ c = Root)
      /\ second.page = {} /\ second.rest = {} /\ second.dirs = <<>> /\ Fresh(second)
      /\ second.fn = "dirDataObj" /\ second.coll = Root /\ second.id = RootId
  BY <1>4, NewFrameDue
<1> HIDE DEF first, second
<1>7. Len(stack) = 2 /\ stack[1] = first /\ stack[2] = second /\ Len(list) = 0
  BY <1>3
<1>8. stack \in Seq(Frame)
  BY <1>1 DEF OnceInv, WalkInv, WalkTypeOK
<1>9. \A k \in 1..Len(stack) : k = 1 \/ k = 2
  BY <1>7
<1>10. Waiting(stack)
  BY <1>5, <1>6, <1>7, <1>9 DEF Waiting
<1>11. Apart(stack)
  BY <1>5, <1>6, <1>7, <1>9 DEF Apart
<1>12. RightIds(stack)
  <2>1. \A k \in 1..Len(stack) : stack[k].coll = Root /\ stack[k].id = RootId /\ Len(stack[k].dirs) = 0
    BY <1>5, <1>6, <1>7, <1>9
  <2>2. QED
    BY <2>1 DEF RightIds, RightId
<1>13. Shape(stack)
  BY <1>8, <1>10, <1>11, <1>12, FreshShape
<1>14. Accounts({}, stack, list)
  <2>1. IsFiniteSet({}) /\ Cardinality({}) = 0
    BY FS_EmptySet
  <2>2. {ItemOf(r) : r \in {}} = Items(list)
    BY <1>7 DEF Items
  <2>3. ASSUME NEW r, Known(list, Within(r)) PROVE Due(stack, QueryOf(r), Within(r))
    <3>1. Within(r) = Root
      BY <1>7, <2>3 DEF Known, ListedIn
    <3>2. DueIn(first, QueryOf(r), Root) \/ DueIn(second, QueryOf(r), Root)
      BY <1>5, <1>6 DEF QueryOf
    <3>3. 1 \in 1..Len(stack) /\ 2 \in 1..Len(stack)
      BY <1>7
    <3>4. QED
      BY <1>7, <3>1, <3>2, <3>3 DEF Due
  <2>4. QED
    BY <1>7, <2>1, <2>2, <2>3 DEF Accounts, ToCome
<1>15. Accounted(stack, list)
  BY <1>14 DEF Accounted
<1>16. QED
  BY <1>1, <1>2, <1>13, <1>15 DEF ExactInv

\* Without changes of the catalog, the predicates about it keep their value.
LEMMA SameCatalog ==
    ASSUME UNCHANGED catalogVars
    PROVE  /\ SoundCatalog' <=> SoundCatalog
           /\ Shape(stack)' <=> Shape(stack')
           /\ Accounted(stack, list)' <=> Accounted(stack', list')
<1>1. collOf' = collOf /\ repl' = repl
  BY DEF catalogVars
<1>2. SoundCatalog' <=> SoundCatalog
  BY <1>1 DEF SoundCatalog, PathTaken
<1>3. AllRows' = AllRows
  BY <1>1 DEF AllRows, CollRows, DataRows, GoodReplicas
<1>4. Accounted(stack, list)' <=> Accounted(stack', list')
  BY <1>3 DEF Accounted, Accounts, ToCome, Held, Due, DueIn, Visits, Fresh, Known, ListedIn, Items
<1>5. Shape(stack)' <=> Shape(stack')
  BY <1>1 DEF Shape, RightIds, RightId, Working, OneCall, Rows, CollRows, DataRows, GoodReplicas
<1>6. QED
  BY <1>2, <1>4, <1>5

\* Every step of the walk and every change of the catalog preserves it.
LEMMA ExactNext == ExactInv /\ [WalkNext]_walkAllVars => ExactInv'
<1> SUFFICES ASSUME ExactInv, [WalkNext]_walkAllVars PROVE ExactInv'
  OBVIOUS
<1>1. OnceInv /\ OnceInv'
  BY OnceNext DEF ExactInv
<1>2. edits \in Nat /\ faults \in Nat /\ stack' \in Seq(Frame)
  BY <1>1 DEF OnceInv, WalkInv, WalkTypeOK
<1> SUFFICES ASSUME edits' = 0, faults' = 0
             PROVE  SoundCatalog' /\ Shape(stack)' /\ Accounted(stack, list)'
  BY <1>1 DEF ExactInv
<1>3. CASE WalkStep /\ UNCHANGED catalogVars
  <2>1. edits = 0 /\ faults = 0 /\ ~QueryFails
    BY <1>2, <1>3 DEF WalkStep, catalogVars, FetchPage, NoMoreRows, QueryFails, AttrPage, AttrDone,
                      AclPage, AddRow
  <2>2. SoundCatalog /\ Shape(stack) /\ Accounted(stack, list)
    BY <2>1 DEF ExactInv
  <2>3. Shape(stack') /\ Accounted(stack', list')
    <3>1. CASE AttrPage \/ AclPage
      <4>1. stack' = stack /\ list' = list
        BY <3>1 DEF AttrPage, AclPage
      <4>2. QED
        BY <2>2, <4>1
    <3>2. QED
      BY <1>1, <1>2, <1>3, <2>1, <2>2, <3>1, FetchExact, LoopEndsExact, AttrDoneExact, AddRowExact
         DEF WalkStep
  <2>4. QED
    BY <1>3, <2>2, <2>3, SameCatalog
<1>4. CASE CatalogEdit /\ UNCHANGED <<walkVars, faults>>
  <2>1. edits' = edits + 1
    BY <1>4 DEF CatalogEdit, PutObj, ReplicateObj, RmObj, MkColl, MvColl, RmColl, Edit
  <2>2. QED
    BY <1>2, <2>1
<1>5. CASE UNCHANGED walkAllVars
  <2>1. stack' = stack /\ list' = list /\ edits' = edits /\ faults' = faults /\ UNCHANGED catalogVars
    BY <1>5 DEF walkAllVars, walkVars, catalogVars
  <2>2. SoundCatalog /\ Shape(stack) /\ Accounted(stack, list)
    BY <2>1 DEF ExactInv
  <2>3. QED
    BY <2>1, <2>2, SameCatalog
<1>6. QED
  BY <1>3, <1>4, <1>5 DEF WalkNext, WalkReturned

\* When the walk has ended everything is listed: the collections that exist and
\* are not listed would include one whose parent is listed, and so is due.
LEMMA AllDone ==
    ASSUME WalkTypeOK, SoundCatalog, NEW lst, NEW done \in SUBSET AllRows, Accounts(done, <<>>, lst)
    PROVE  done = AllRows
<1> DEFINE S == {c \in Coll \ {Root} : PathTaken(c) /\ ~Known(lst, c)}
<1>1. \A r \in AllRows \ done : ~Known(lst, Within(r))
  <2>1. Len(<<>>) = 0
    OBVIOUS
  <2>2. QED
    BY <2>1 DEF Accounts, ToCome, Held, Due
<1>2. ASSUME NEW r \in AllRows PROVE Within(r) \in Coll /\ PathTaken(Within(r))
  <2>1. CASE \E c \in Coll : r \in CollRows(c)
    <3>1. PICK c \in Coll : r \in CollRows(c)
      BY <2>1
    <3>2. PICK id \in CollId : collOf[id] \in Coll \ {Root} /\ ParentOf[collOf[id]] = c
      BY <3>1 DEF CollRows
    <3>3. Within(r) = c
      BY <3>1, CollRowIs
    <3>4. QED
      BY <3>2, <3>3 DEF SoundCatalog
  <2>2. CASE \E id \in CollId : collOf[id] \in Coll /\ r \in DataRows(collOf[id], id)
    <3>1. PICK id \in CollId : collOf[id] \in Coll /\ r \in DataRows(collOf[id], id)
      BY <2>2
    <3>2. Within(r) = collOf[id]
      BY <3>1, DataRowIs
    <3>3. QED
      BY <3>1, <3>2 DEF PathTaken
  <2>3. QED
    BY <2>1, <2>2, AllRowsAre
<1>3. \A r \in AllRows \ done : Within(r) \in S
  BY <1>1, <1>2 DEF Known
<1>4. ASSUME NEW c \in S, ParentOf[c] \notin S PROVE FALSE
  <2>1. PICK id \in CollId : collOf[id] = c
    BY DEF PathTaken
  <2> DEFINE r == [coll |-> c, id |-> id, base |-> NoBase, size |-> 0, mtime |-> 0]
  <2>2. c \in Coll \ {Root} /\ ParentOf[c] \in Coll /\ ~Known(lst, c)
    BY TreeAssumption
  <2>3. r \in CollRows(ParentOf[c])
    BY <2>1, <2>2 DEF CollRows
  <2>4. r \in AllRows /\ Within(r) = ParentOf[c]
    BY <2>2, <2>3, CollRowIs
  <2>5. r \notin done
    <3>1. ASSUME r \in done PROVE FALSE
      <4>1. ItemOf(r) = CollItem(c)
        BY DEF ItemOf
      <4>2. CollItem(c) \in Items(lst)
        BY <3>1, <4>1 DEF Accounts
      <4>3. ListedIn(lst, Len(lst), c)
        BY <4>2 DEF Items, ListedIn, CollItem
      <4>4. QED
        BY <2>2, <4>3 DEF Known
    <3>2. QED
      BY <3>1
  <2>6. QED
    BY <1>3, <1>4, <2>4, <2>5
<1>5. S = {}
  <2>1. S \in SUBSET (Coll \ {Root})
    OBVIOUS
  <2> HIDE DEF S
  <2>2. QED
    BY <1>4, <2>1, TreeAssumption
<1>6. QED
  BY <1>3, <1>5

\* The accounts are kept throughout the walk.
THEOREM ExactInvariance == WalkSpec => []ExactInv
BY ExactInit, ExactNext, PTL DEF WalkSpec

\* For every tree, catalog and page size: when no other agent interferes and no
\* query fails, the index has one item for every collection and for every
\* distinct row of a good replica, and no others.
THEOREM IndexIsExact == WalkSpec => []IndexExact
<1>1. ASSUME ExactInv, stack = <<>>, edits = 0, faults = 0
      PROVE  Items(list) = {ItemOf(r) : r \in AllRows} /\ Len(list) = Cardinality(AllRows)
  <2>1. WalkTypeOK /\ SoundCatalog /\ Accounted(stack, list)
    BY <1>1 DEF ExactInv, OnceInv, WalkInv
  <2>2. PICK done \in SUBSET AllRows : Accounts(done, <<>>, list)
    BY <1>1, <2>1 DEF Accounted
  <2>3. done = AllRows
    BY <2>1, <2>2, AllDone
  <2>4. QED
    BY <2>2, <2>3 DEF Accounts
<1>2. ExactInv => IndexExact
  BY <1>1 DEF IndexExact, Items, ItemOf
<1>3. QED
  BY <1>2, ExactInvariance, PTL

-----------------------------------------------------------------------------
(* The inductive invariant: what is listed.                                *)

\* A path has one id, and good replicas of a data object have one size.
CleanCatalog ==
    /\ \A i, j \in CollId : (collOf[i] = collOf[j] /\ collOf[i] # NoColl) => i = j
    /\ \A id \in CollId, b \in Base : \A q, r \in repl[id][b] :
          (q.good /\ r.good) => q.size = r.size

\* A good replica of that size can be opened under that path.
Readable(c, b, s) ==
    \E id \in CollId : collOf[id] = c /\ \E q \in GoodReplicas(id, b) : q.size = s

\* dirDataObj handles data objects; as long as no agent interferes an
\* activation knows its collection by its present path, and its rows are
\* those of replicas that can be opened.
SoundFrame ==
    {f \in Frame :
        /\ f.fn = "dirDataObj" =>
              \A r \in f.page \cup f.rest : r.base \in Base /\ r.size \in Size
        /\ edits = 0 =>
              /\ collOf[f.id] = f.coll
              /\ \A k \in 1..Len(f.dirs) : collOf[f.dirs[k].id] = f.dirs[k].coll
              /\ \A r \in f.page \cup f.rest :
                    IF f.fn = "dirColl" THEN collOf[r.id] = r.coll
                                        ELSE Readable(r.coll, r.base, r.size)}

\* What addColl and addDataObj make of them.
SoundItem ==
    {i \in Item :
        /\ i.type = "coll" => i = CollItem(i.coll)
        /\ i.type = "dataObj" =>
              /\ i.base \in Base /\ i.size \in Size /\ NameOf(i) # Target
              /\ edits = 0 => Readable(i.coll, i.base, i.size)}

ListingInv ==
    /\ WalkInv
    /\ edits = 0 => CleanCatalog
    /\ stack \in Seq(SoundFrame)
    /\ list \in Seq(SoundItem)
    /\ dataSize = Blocks(list)

-----------------------------------------------------------------------------
(* The inductive invariant: where msiArchiveCreate is.                     *)

\* Nothing is listed before the walk, nothing is written before its end, and
\* nothing is stored before the archive is freed.
Positions ==
    /\ pc \in {"start", "create"} =>
          stack = <<>> /\ list = <<>> /\ stored = NoIndex("none")
    /\ (pc = "create" /\ edits = 0) => collOf[RootId] = Root
    /\ pc \in {"walk", "item", "open", "read", "free"} => stored = NoIndex("bare")
    /\ pc \in {"start", "create", "walk"} => arc = NoIndex("bare")
    /\ pc \in {"item", "open", "read"} => arc.form = "indexed"
    /\ pc \notin {"free", "done"} => status = "ok"

\* What libarchive was given: nothing, or an index and entries for the first
\* items of it.
Written ==
    /\ arc.form \in {"bare", "indexed"}
    /\ ~arc.whole
    /\ arc.form = "bare" => arc = NoIndex("bare")
    /\ arc.form = "indexed" => stack = <<>> /\ arc.items = list /\ arc.size = dataSize
    /\ Len(arc.entries) <= Len(arc.items)
    /\ \A k \in 1..Len(arc.entries) :
          /\ arc.entries[k].item = arc.items[k]
          /\ arc.entries[k].got <= arc.items[k].size

\* Archive::index follows the entries; the last entry has what was read.
Progress ==
    /\ pc = "item" => Len(arc.entries) = idx
    /\ pc \in {"open", "read"} =>
          /\ Len(arc.entries) = idx + 1
          /\ idx < Len(list) /\ list[idx + 1].type = "dataObj"
    /\ pc = "open" => arc.entries[idx + 1].got = 0
    /\ pc = "read" =>
          /\ arc.entries[idx + 1].got = AtMost(off, list[idx + 1].size)
          /\ edits = 0 => src = list[idx + 1].size
    /\ edits = 0 => \A k \in 1..Len(arc.entries) :
                       k <= idx => arc.entries[k].got = arc.items[k].size

Descriptors ==
    /\ pc \in {"start", "create"} => fds = {}
    /\ pc \in {"walk", "item", "open", "free"} => fds = {"archive"}
    /\ pc = "read" => fds = {"archive", "object"}
    /\ pc = "done" => fds = {} \/ (fatal /\ fds = {"archive"})

\* Why msiArchiveCreate came to its end.
Outcome ==
    /\ fatal => faults # 0
    /\ (pc = "free" /\ status = "ok") =>
          arc.form = "indexed" /\ idx = Len(list) /\ Len(arc.entries) = Len(list)
    /\ (pc = "done" /\ status = "ok" /\ faults = 0) =>
          /\ stored = [arc EXCEPT !.whole = TRUE]
          /\ arc.form = "indexed" /\ idx = Len(list) /\ Len(arc.entries) = Len(list)
    /\ (faults = 0 /\ edits = 0) =>
          \/ status \in {"ok", "SYS_INVALID_INPUT_PARAM", "CAT_NO_ROWS_FOUND"}
          \/ status = "SYS_TAR_OPEN_ERR" /\ Target.base # NoBase /\ ~PathTaken(Target.coll)

CreateInv ==
    /\ ListingInv
    /\ CreateTypeOK
    /\ Positions
    /\ Written
    /\ Progress
    /\ Descriptors
    /\ Outcome
    /\ WellFormed(stored)

-----------------------------------------------------------------------------
(* The walk keeps what it lists sound.                                     *)

\* A set of activations that is closed under the steps of the walk.
Closed(S) ==
    /\ \A f \in S : \A page \in SUBSET Pending(f) : Fetched(f, page) \in S
    /\ \A f \in S : [f EXCEPT !.phase = "acl"] \in S
    /\ \A f \in S : \A r \in f.page : Handled(f, r) \in S
    /\ \A f \in S : \A k \in 1..Len(f.dirs), fn \in {"dirColl", "dirDataObj"} :
          NewFrame(fn, f.dirs[k].coll, f.dirs[k].id) \in S

\* The calls of an activation of such a set are in the set.
LEMMA CallsIn ==
    ASSUME NEW S \in SUBSET Frame, Closed(S), NEW f \in S,
           NEW stk \in Seq(S), stk # <<>>
    PROVE  AfterLoop(f, Tail(stk)) \in Seq(S)
<1> DEFINE dirs == f.dirs
           calls == Calls(f.dirs)
<1>1. dirs \in Seq(Dir) /\ Len(dirs) \in Nat
  BY DEF Frame
<1>2. \A k \in 1..Len(dirs) : /\ NewFrame("dirColl", dirs[k].coll, dirs[k].id) \in S
                              /\ NewFrame("dirDataObj", dirs[k].coll, dirs[k].id) \in S
  BY DEF Closed
<1>3. ASSUME NEW k \in 1..(2 * Len(dirs)) PROVE calls[k] \in S
  <2>1. CASE k % 2 = 1
    <3>1. (k + 1) \div 2 \in 1..Len(dirs)
      BY <1>1, <2>1
    <3>2. calls[k] = NewFrame("dirColl", dirs[(k + 1) \div 2].coll, dirs[(k + 1) \div 2].id)
      BY <1>1, <2>1 DEF Calls
    <3>3. QED
      BY <1>2, <3>1, <3>2
  <2>2. CASE k % 2 # 1
    <3>1. k \div 2 \in 1..Len(dirs)
      BY <1>1, <2>2
    <3>2. calls[k] = NewFrame("dirDataObj", dirs[k \div 2].coll, dirs[k \div 2].id)
      BY <1>1, <2>2 DEF Calls
    <3>3. QED
      BY <1>2, <3>1, <3>2
  <2>3. QED
    BY <2>1, <2>2
<1>4. 2 * Len(dirs) \in Nat
  BY <1>1
<1>5. calls = [k \in 1..(2 * Len(dirs)) |-> calls[k]]
  BY DEF Calls
<1>6. calls \in Seq(S)
  BY <1>3, <1>4, <1>5
<1>7. Tail(stk) \in Seq(S)
  OBVIOUS
<1>8. QED
  BY <1>6, <1>7 DEF AfterLoop

\* No step of the walk leaves such a set.
LEMMA FramesStayIn ==
    ASSUME NEW S \in SUBSET Frame, Closed(S), stack \in Seq(S), WalkStep
    PROVE  stack' \in Seq(S)
<1> DEFINE f == Head(stack)
           rest == Tail(stack)
<1>1. CASE stack' = stack
  BY <1>1
<1>2. stack # <<>> => f \in S /\ rest \in Seq(S) /\ \A g \in S : <<g>> \o rest \in Seq(S)
  OBVIOUS
<1>3. CASE FetchPage
  <2>1. stack # <<>>
    BY <1>3 DEF FetchPage, Running
  <2>2. PICK page \in SUBSET Pending(f) : stack' = <<Fetched(f, page)>> \o rest
    BY <1>3 DEF FetchPage
  <2>3. Fetched(f, page) \in S
    BY <1>2, <2>1 DEF Closed
  <2>4. QED
    BY <1>2, <2>1, <2>2, <2>3
<1>4. CASE NoMoreRows \/ QueryFails
  BY <1>2, <1>4, CallsIn DEF NoMoreRows, QueryFails, Running
<1>5. CASE AttrDone
  <2>1. stack # <<>> /\ stack' = <<[f EXCEPT !.phase = "acl"]>> \o rest
    BY <1>5 DEF AttrDone, Running
  <2>2. [f EXCEPT !.phase = "acl"] \in S
    BY <1>2, <2>1 DEF Closed
  <2>3. QED
    BY <1>2, <2>1, <2>2
<1>6. CASE AddRow
  <2>1. stack # <<>>
    BY <1>6 DEF AddRow, Running
  <2>2. PICK r \in f.page : stack' = AfterRow(f, r)
    BY <1>6 DEF AddRow
  <2>3. Handled(f, r) \in S
    BY <1>2, <2>1 DEF Closed
  <2>4. stack' \in {AfterLoop(Handled(f, r), rest), <<Handled(f, r)>> \o rest}
    BY <2>2 DEF AfterRow
  <2>5. AfterLoop(Handled(f, r), rest) \in Seq(S)
    BY <2>1, <2>3, CallsIn
  <2>6. QED
    BY <1>2, <2>1, <2>3, <2>4, <2>5
<1>7. QED
  BY <1>1, <1>3, <1>4, <1>5, <1>6 DEF WalkStep, AttrPage, AclPage

\* Rows that a query returns now.
LEMMA RowsSound ==
    ASSUME WalkTypeOK, NEW f \in SoundFrame, NEW r \in Rows(f)
    PROVE  /\ f.fn = "dirDataObj" => r.base \in Base /\ r.size \in Size
           /\ edits = 0 => IF f.fn = "dirColl" THEN collOf[r.id] = r.coll
                                               ELSE Readable(r.coll, r.base, r.size)
<1>1. f \in Frame
  BY DEF SoundFrame
<1>2. f.coll \in Coll /\ f.id \in CollId /\ f.fn \in {"dirColl", "dirDataObj"}
  BY <1>1 DEF Frame
<1>3. CASE f.fn = "dirColl"
  <2>1. PICK id \in CollId :
           r = [coll |-> collOf[id], id |-> id, base |-> NoBase, size |-> 0, mtime |-> 0]
    BY <1>3 DEF Rows, CollRows
  <2>2. QED
    BY <1>3, <2>1
<1>4. CASE f.fn = "dirDataObj"
  <2>1. PICK b \in Base : \E q \in GoodReplicas(f.id, b) :
           r = [coll |-> f.coll, id |-> f.id, base |-> b, size |-> q.size, mtime |-> q.mtime]
    BY <1>4 DEF Rows, DataRows
  <2>2. PICK q \in GoodReplicas(f.id, b) :
           r = [coll |-> f.coll, id |-> f.id, base |-> b, size |-> q.size, mtime |-> q.mtime]
    BY <2>1
  <2>3. q \in Replica
    BY <1>2, <2>2 DEF GoodReplicas, WalkTypeOK
  <2>4. r.base = b /\ r.size = q.size /\ r.coll = f.coll /\ q.size \in Size
    BY <2>2, <2>3 DEF Replica
  <2>5. edits = 0 => Readable(r.coll, r.base, r.size)
    <3>1. edits = 0 => collOf[f.id] = f.coll
      BY DEF SoundFrame
    <3>2. QED
      BY <1>2, <2>4, <3>1 DEF Readable
  <2>6. QED
    BY <1>4, <2>4, <2>5
<1>5. QED
  BY <1>2, <1>3, <1>4

\* An activation is sound when its parts are.
LEMMA SoundParts ==
    ASSUME NEW f \in SoundFrame, NEW g \in Frame, g.fn = f.fn, g.coll = f.coll, g.id = f.id,
           \A r \in g.page \cup g.rest :
              /\ f.fn = "dirDataObj" => r.base \in Base /\ r.size \in Size
              /\ edits = 0 => IF f.fn = "dirColl" THEN collOf[r.id] = r.coll
                                                  ELSE Readable(r.coll, r.base, r.size),
           edits = 0 => \A k \in 1..Len(g.dirs) : collOf[g.dirs[k].id] = g.dirs[k].coll
    PROVE  g \in SoundFrame
BY DEF SoundFrame

\* The steps of the walk make sound activations out of sound ones.
LEMMA SoundClosed == ASSUME WalkTypeOK PROVE Closed(SoundFrame)
<1> DEFINE Sound(f, r) ==
       /\ f.fn = "dirDataObj" => r.base \in Base /\ r.size \in Size
       /\ edits = 0 => IF f.fn = "dirColl" THEN collOf[r.id] = r.coll
                                           ELSE Readable(r.coll, r.base, r.size)
<1>1. \A f \in SoundFrame :
         /\ f \in Frame
         /\ \A r \in f.page \cup f.rest : Sound(f, r)
         /\ edits = 0 => \A k \in 1..Len(f.dirs) : collOf[f.dirs[k].id] = f.dirs[k].coll
  BY DEF SoundFrame
<1>2. \A f \in SoundFrame : \A r \in Rows(f) : Sound(f, r)
  BY RowsSound
<1>3. \A f \in SoundFrame : \A r \in Pending(f) : Sound(f, r)
  BY <1>1, <1>2 DEF Pending
<1>4. ASSUME NEW f \in SoundFrame, NEW page \in SUBSET Pending(f)
      PROVE  Fetched(f, page) \in SoundFrame
  <2> DEFINE g == Fetched(f, page)
             open == Cardinality(page) = PageSize
  <2>1. open \in BOOLEAN
    OBVIOUS
  <2>2. \A r \in Pending(f) : r \in Row
    BY <1>1, RowsOK DEF Pending, Frame
  <2>3. page \in SUBSET Row /\ Pending(f) \ page \in SUBSET Row
    BY <2>2
  <2>4. g = [f EXCEPT !.phase = "attr", !.page = page, !.rest = Pending(f) \ page, !.cont = open]
    BY DEF Fetched
  <2> HIDE DEF open
  <2>5. g \in Frame
    BY <1>1, <2>1, <2>3, <2>4 DEF Frame
  <2>6. /\ g.fn = f.fn /\ g.coll = f.coll /\ g.id = f.id /\ g.dirs = f.dirs
        /\ g.page = page /\ g.rest = Pending(f) \ page
    BY <1>1, <2>4 DEF Frame
  <2> HIDE DEF g
  <2>7. \A r \in g.page \cup g.rest : Sound(f, r)
    BY <1>3, <2>6
  <2>8. QED
    BY <1>1, <2>5, <2>6, <2>7, SoundParts DEF g
<1>5. ASSUME NEW f \in SoundFrame PROVE [f EXCEPT !.phase = "acl"] \in SoundFrame
  <2> DEFINE g == [f EXCEPT !.phase = "acl"]
  <2>1. /\ g \in Frame
        /\ g.fn = f.fn /\ g.coll = f.coll /\ g.id = f.id /\ g.dirs = f.dirs
        /\ g.page = f.page /\ g.rest = f.rest
    BY <1>1 DEF Frame
  <2> HIDE DEF g
  <2>2. \A r \in g.page \cup g.rest : Sound(f, r)
    BY <1>1, <2>1
  <2>3. QED
    BY <1>1, <2>1, <2>2, SoundParts DEF g
<1>6. ASSUME NEW f \in SoundFrame, NEW r \in f.page PROVE Handled(f, r) \in SoundFrame
  <2> DEFINE d == [coll |-> r.coll, id |-> r.id]
             dirs == IF f.fn = "dirColl" THEN Append(f.dirs, d) ELSE f.dirs
             phase == IF f.page \ {r} # {} THEN "attr" ELSE "query"
             g == Handled(f, r)
  <2>1. f \in Frame /\ r \in Row /\ f.dirs \in Seq(Dir) /\ f.page \ {r} \in SUBSET Row
    BY <1>1 DEF Frame
  <2>2. d \in Dir /\ d.coll = r.coll /\ d.id = r.id
    BY <2>1 DEF Row, Dir
  <2>3. dirs \in Seq(Dir) /\ phase \in {"query", "attr", "acl"}
    BY <2>1, <2>2
  <2>4. g = [f EXCEPT !.page = f.page \ {r}, !.dirs = dirs, !.phase = phase]
    BY DEF Handled
  <2>5. edits = 0 => \A k \in 1..Len(dirs) : collOf[dirs[k].id] = dirs[k].coll
    <3>1. CASE f.fn = "dirColl"
      <4>1. /\ Len(dirs) = Len(f.dirs) + 1 /\ dirs[Len(f.dirs) + 1] = d
            /\ \A k \in 1..Len(f.dirs) : dirs[k] = f.dirs[k]
        BY <2>1, <2>2, <3>1
      <4>2. edits = 0 => collOf[d.id] = d.coll
        BY <1>1, <2>2, <3>1
      <4> HIDE DEF dirs, d
      <4>3. QED
        BY <1>1, <2>1, <4>1, <4>2
    <3>2. CASE f.fn # "dirColl"
      BY <1>1, <3>2
    <3>3. QED
      BY <3>1, <3>2
  <2> HIDE DEF dirs, phase, d
  <2>6. /\ g.fn = f.fn /\ g.coll = f.coll /\ g.id = f.id /\ g.dirs = dirs
        /\ g.page = f.page \ {r} /\ g.rest = f.rest
    BY <2>1, <2>4 DEF Frame
  <2>7. g \in Frame
    BY <2>1, <2>3, <2>4 DEF Frame
  <2> HIDE DEF g
  <2>8. \A q \in g.page \cup g.rest : Sound(f, q)
    BY <1>1, <2>6
  <2>9. QED
    BY <2>5, <2>6, <2>7, <2>8, SoundParts DEF g
<1>7. ASSUME NEW f \in SoundFrame, NEW k \in 1..Len(f.dirs), NEW fn \in {"dirColl", "dirDataObj"}
      PROVE  NewFrame(fn, f.dirs[k].coll, f.dirs[k].id) \in SoundFrame
  <2> DEFINE g == NewFrame(fn, f.dirs[k].coll, f.dirs[k].id)
  <2>1. f.dirs[k] \in Dir
    BY <1>1 DEF Frame
  <2>2. f.dirs[k].coll \in Coll /\ f.dirs[k].id \in CollId
    BY <2>1 DEF Dir
  <2>3. g \in Frame
    BY <2>2, NewFrameType
  <2>4. /\ g.page = {} /\ g.rest = {} /\ Len(g.dirs) = 0
        /\ g.coll = f.dirs[k].coll /\ g.id = f.dirs[k].id
    BY DEF NewFrame
  <2>5. edits = 0 => collOf[f.dirs[k].id] = f.dirs[k].coll
    BY <1>1
  <2> HIDE DEF g
  <2>6. g \in SoundFrame
    BY <2>3, <2>4, <2>5 DEF SoundFrame
  <2>7. QED
    BY <2>6 DEF g
<1> HIDE DEF Sound
<1>8. QED
  BY <1>4, <1>5, <1>6, <1>7 DEF Closed
\* A step of the walk leaves the list as it is or appends one sound item, whose
\* collection is known, and adds its blocks.
LEMMA WalkLists ==
    ASSUME ListingInv, WalkStep
    PROVE  \/ UNCHANGED <<list, dataSize>>
           \/ \E e \in SoundItem :
                /\ Known(list, Holder(e))
                /\ e.type = "coll" => e.coll # Root
                /\ list' = Append(list, e)
                /\ dataSize' = dataSize + (IF e.type = "dataObj" THEN BlockCeil(e.size) ELSE 0)
<1>1. CASE ~AddRow
  BY <1>1 DEF WalkStep, FetchPage, NoMoreRows, QueryFails, AttrPage, AttrDone, AclPage
<1>2. CASE AddRow
  <2> DEFINE f == Head(stack)
  <2>1. stack # <<>>
    BY <1>2 DEF AddRow, Running
  <2>2. f \in SoundFrame /\ f \in Frame /\ FrameOK(f, list)
    <3>1. f \in SoundFrame
      BY <2>1 DEF ListingInv
    <3>2. QED
      BY <2>1, <3>1, HeadOK DEF ListingInv
  <2>3. PICK r \in f.page : IF f.fn = "dirColl" THEN addColl(r) ELSE addDataObj(r)
    BY <1>2 DEF AddRow
  <2> HIDE DEF f
  <2>4. /\ r \in Row
        /\ f.fn = "dirColl" =>
              /\ CollItem(r.coll) \in Item
              /\ r.coll # Root
              /\ Known(list, Holder(CollItem(r.coll)))
        /\ f.fn # "dirColl" =>
              /\ DataItem(r.coll, r.base, r.size) \in Item
              /\ Known(list, Holder(DataItem(r.coll, r.base, r.size)))
    BY <2>2, <2>3, ItemOfRow DEF ListingInv
  <2>5. f.fn \in {"dirColl", "dirDataObj"} /\ dataSize \in Nat
    BY <2>2 DEF Frame, ListingInv, WalkInv, WalkTypeOK
  <2>6. CASE f.fn = "dirColl"
    <3> DEFINE e == CollItem(r.coll)
    <3>1. e.type = "coll" /\ e.coll = r.coll /\ e = CollItem(e.coll)
      BY DEF CollItem
    <3>2. list' = Append(list, e) /\ dataSize' = dataSize
      BY <2>3, <2>6 DEF addColl
    <3>3. e \in Item /\ e.coll # Root /\ Known(list, Holder(e))
      BY <2>4, <2>6, <3>1
    <3> HIDE DEF e
    <3>4. e \in SoundItem
      BY <3>1, <3>3 DEF SoundItem
    <3>5. QED
      BY <2>5, <3>1, <3>2, <3>3, <3>4
  <2>7. CASE f.fn = "dirDataObj" /\ [coll |-> r.coll, base |-> r.base] # Target
    <3> DEFINE e == DataItem(r.coll, r.base, r.size)
    <3>1. e.type = "dataObj" /\ e.coll = r.coll /\ e.base = r.base /\ e.size = r.size
      BY DEF DataItem
    <3>2. list' = Append(list, e) /\ dataSize' = dataSize + BlockCeil(e.size)
      BY <2>3, <2>7, <3>1 DEF addDataObj
    <3>3. e \in Item /\ Known(list, Holder(e))
      BY <2>4, <2>7
    <3>4. NameOf(e) # Target
      BY <2>7, <3>1 DEF NameOf
    <3>5. /\ r.base \in Base /\ r.size \in Size
          /\ edits = 0 => Readable(r.coll, r.base, r.size)
      BY <2>2, <2>3, <2>7 DEF SoundFrame
    <3> HIDE DEF e
    <3>6. e \in SoundItem
      BY <3>1, <3>3, <3>4, <3>5 DEF SoundItem
    <3>7. QED
      BY <3>1, <3>2, <3>3, <3>6
  <2>8. CASE f.fn = "dirDataObj" /\ [coll |-> r.coll, base |-> r.base] = Target
    BY <2>3, <2>8 DEF addDataObj
  <2>9. QED
    BY <2>5, <2>6, <2>7, <2>8
<1>3. QED
  BY <1>1, <1>2

\* Sound activations and items stay sound while the catalog does not change,
\* and when another agent has changed it there is less to ask of them.
LEMMA SoundStays ==
    ASSUME UNCHANGED catalogVars \/ edits' # 0
    PROVE  SoundFrame \subseteq SoundFrame' /\ SoundItem \subseteq SoundItem'
<1>1. CASE edits' # 0
  BY <1>1 DEF SoundFrame, SoundItem
<1>2. CASE UNCHANGED catalogVars
  <2>1. collOf' = collOf /\ repl' = repl /\ edits' = edits
    BY <1>2 DEF catalogVars
  <2>2. \A c, b, s : Readable(c, b, s)' <=> Readable(c, b, s)
    BY <2>1 DEF Readable, GoodReplicas
  <2>3. QED
    BY <2>1, <2>2 DEF SoundFrame, SoundItem
<1>3. QED
  BY <1>1, <1>2

\* The list stays sound, and its size right, when an item is appended.
LEMMA ListingWalks ==
    ASSUME ListingInv, WalkStep, UNCHANGED catalogVars
    PROVE  ListingInv'
<1>1. WalkInv'
  BY WalkStepInv DEF ListingInv
<1>2. SoundFrame \subseteq SoundFrame' /\ SoundItem \subseteq SoundItem'
  BY SoundStays
<1>3. stack' \in Seq(SoundFrame)
  <2>1. Closed(SoundFrame)
    BY SoundClosed DEF ListingInv, WalkInv
  <2>2. SoundFrame \in SUBSET Frame
    BY DEF SoundFrame
  <2>3. QED
    BY <2>1, <2>2, FramesStayIn DEF ListingInv
<1>4. stack' \in Seq(SoundFrame')
  BY <1>2, <1>3
<1>5. edits' = 0 => CleanCatalog'
  BY DEF ListingInv, catalogVars, CleanCatalog
<1>6. list \in Seq(Item) /\ list \in Seq(SoundItem) /\ dataSize = Blocks(list)
  BY DEF ListingInv, WalkInv, WalkTypeOK
<1>7. list' \in Seq(SoundItem) /\ dataSize' = Blocks(list')
  <2>1. CASE UNCHANGED <<list, dataSize>>
    BY <1>6, <2>1
  <2>2. CASE ~UNCHANGED <<list, dataSize>>
    <3>1. PICK e \in SoundItem :
             /\ list' = Append(list, e)
             /\ dataSize' = dataSize + (IF e.type = "dataObj" THEN BlockCeil(e.size) ELSE 0)
      BY <2>2, WalkLists
    <3>2. e \in Item
      BY DEF SoundItem
    <3>3. QED
      BY <1>6, <3>1, <3>2, BlocksOfAppend
  <2>3. QED
    BY <2>1, <2>2
<1>8. list' \in Seq(SoundItem')
  BY <1>2, <1>7
<1>9. QED
  BY <1>1, <1>4, <1>5, <1>7, <1>8 DEF ListingInv

\* Another agent changes the catalog.
LEMMA ListingEdited ==
    ASSUME ListingInv, CatalogEdit, UNCHANGED <<walkVars, faults>>
    PROVE  ListingInv' /\ edits' # 0
<1>1. WalkInv'
  BY EditInv DEF ListingInv
<1>2. edits' # 0
  <2>1. edits \in Nat
    BY DEF ListingInv, WalkInv, WalkTypeOK
  <2>2. edits' = edits + 1
    BY DEF CatalogEdit, PutObj, ReplicateObj, RmObj, MkColl, MvColl, RmColl, Edit
  <2>3. QED
    BY <2>1, <2>2
<1>3. SoundFrame \subseteq SoundFrame' /\ SoundItem \subseteq SoundItem'
  BY <1>2, SoundStays
<1>4. stack' = stack /\ list' = list /\ dataSize' = dataSize
  BY DEF walkVars
<1>5. stack' \in Seq(SoundFrame') /\ list' \in Seq(SoundItem')
  BY <1>3, <1>4 DEF ListingInv
<1>6. dataSize' = Blocks(list')
  BY <1>4 DEF ListingInv
<1>7. QED
  BY <1>1, <1>2, <1>5, <1>6 DEF ListingInv

\* construct() changes neither the catalog nor the list.
LEMMA ListingStays ==
    ASSUME ListingInv, UNCHANGED <<catalogVars, walkVars>>, faults' \in Nat
    PROVE  ListingInv'
<1>1. WalkInv'
  <2>1. UNCHANGED <<catalogVars, list, dataSize>> /\ stack' = stack /\ inner' = inner
    BY DEF walkVars
  <2>2. QED
    BY <2>1, StackOnly DEF ListingInv, WalkInv, WalkTypeOK
<1>2. SoundFrame \subseteq SoundFrame' /\ SoundItem \subseteq SoundItem'
  BY SoundStays
<1>3. stack' = stack /\ list' = list /\ dataSize' = dataSize
  BY DEF walkVars
<1>4. stack' \in Seq(SoundFrame') /\ list' \in Seq(SoundItem')
  BY <1>2, <1>3 DEF ListingInv
<1>5. dataSize' = Blocks(list')
  BY <1>3 DEF ListingInv
<1>6. edits' = 0 => CleanCatalog'
  BY DEF ListingInv, catalogVars, CleanCatalog
<1>7. QED
  BY <1>1, <1>4, <1>5, <1>6 DEF ListingInv
-----------------------------------------------------------------------------
(* The beginning.                                                          *)

\* Before the index is written, the archive has neither items nor entries.
LEMMA NoIndexOK ==
    ASSUME NEW form \in {"none", "bare"}
    PROVE  /\ NoIndex(form) \in ArchiveFile /\ WellFormed(NoIndex(form))
           /\ NoIndex(form).form = form /\ Len(NoIndex(form).entries) = 0
           /\ Len(NoIndex(form).items) = 0 /\ ~NoIndex(form).whole
<1>1. HoldersFirst(<<>>) /\ Blocks(<<>>) = 0
  BY BlocksOfEmpty DEF HoldersFirst
<1>2. /\ NoIndex(form).form = form /\ NoIndex(form).items = <<>> /\ NoIndex(form).size = 0
      /\ NoIndex(form).entries = <<>> /\ NoIndex(form).whole = FALSE
  BY DEF NoIndex
<1>3. WellFormed(NoIndex(form))
  BY <1>1, <1>2 DEF WellFormed
<1>4. NoIndex(form) \in ArchiveFile
  BY DEF NoIndex, ArchiveFile
<1>5. QED
  BY <1>2, <1>3, <1>4

\* The invariant holds when the microservice is called.
LEMMA CreateInvInit == CreateInit => CreateInv
<1> SUFFICES ASSUME CreateInit PROVE CreateInv
  OBVIOUS
<1>1. PICK k \in InitCatalogs : collOf = k.collOf /\ repl = k.repl /\ unused = k.unused
  BY DEF CreateInit, CatalogInit
<1>2. /\ collOf \in [CollId -> Coll \cup {NoColl}]
      /\ repl \in [CollId -> [Base -> SUBSET Replica]]
      /\ unused \in SUBSET CollId
      /\ edits = 0
  BY <1>1, CatalogAssumption DEF CreateInit, CatalogInit
<1>3. CleanCatalog
  BY <1>1, CatalogAssumption DEF CleanCatalog
<1>4. /\ stack = <<>> /\ inner = 0 /\ list = <<>> /\ dataSize = 0 /\ faults = 0
      /\ pc = "start" /\ status = "ok" /\ arc = NoIndex("bare") /\ stored = NoIndex("none")
      /\ idx = 0 /\ src = 0 /\ off = 0 /\ fds = {} /\ fatal = FALSE
  BY DEF CreateInit
<1>5. WalkTypeOK
  BY <1>2, <1>4 DEF WalkTypeOK
<1>6. ListingInv
  <2>1. WalkInv
    BY <1>4, <1>5 DEF WalkInv, FramesOK, CallersIdle, HoldersFirst
  <2>2. QED
    BY <1>3, <1>4, <2>1, BlocksOfEmpty DEF ListingInv
<1>7. CreateTypeOK
  <2>1. arc \in ArchiveFile /\ stored \in ArchiveFile
    BY <1>4, NoIndexOK
  <2>2. idx \in 0..Len(list) /\ src \in Nat /\ off \in 0..src
    BY <1>4
  <2>3. status \in Status /\ fds \subseteq {"archive", "object"}
    BY <1>4 DEF Status
  <2>4. fatal \in BOOLEAN
    BY <1>4, Zenon
  <2>5. QED
    BY <1>4, <1>5, <2>1, <2>2, <2>3, <2>4 DEF CreateTypeOK
<1>8. Positions /\ Written /\ Descriptors /\ Outcome
  BY <1>4, NoIndexOK DEF Positions, Written, Descriptors, Outcome
<1>9. Progress
  BY <1>4, NoIndexOK DEF Progress
<1>10. WellFormed(stored)
  BY <1>4, NoIndexOK
<1>11. QED
  BY <1>6, <1>7, <1>8, <1>9, <1>10 DEF CreateInv

\* What Archive::create does to the catalog: the archive has at most one good
\* replica afterwards.
LEMMA RegisteredOK ==
    ASSUME WalkTypeOK, edits = 0 => CleanCatalog, NEW id \in CollId, Target.base \in Base,
           Registered(id), UNCHANGED <<collOf, edits>>
    PROVE  /\ repl' \in [CollId -> [Base -> SUBSET Replica]]
           /\ edits' = 0 => CleanCatalog'
<1> DEFINE b == Target.base
<1>1. PICK r \in {q \in Replica : q.size = 0} :
         repl' = [repl EXCEPT ![id][b] = {r} \cup {[q EXCEPT !.good = FALSE] : q \in @}]
  BY DEF Registered
<1> DEFINE stale == {[q EXCEPT !.good = FALSE] : q \in repl[id][b]}
           new == {r} \cup stale
<1>2. repl \in [CollId -> [Base -> SUBSET Replica]] /\ b \in Base
  BY DEF WalkTypeOK
<1>3. \A q \in stale : q \in Replica /\ q.good = FALSE
  <2>1. ASSUME NEW q \in repl[id][b]
        PROVE  [q EXCEPT !.good = FALSE] \in Replica /\ [q EXCEPT !.good = FALSE].good = FALSE
    <3>1. q \in Replica
      BY <1>2, <2>1
    <3>2. QED
      BY <3>1 DEF Replica
  <2>2. QED
    BY <2>1
<1>4. repl' = [repl EXCEPT ![id][b] = new]
  BY <1>1
<1>5. new \subseteq Replica /\ \A q, p \in new : (q.good /\ p.good) => q.size = p.size
  <2> HIDE DEF stale
  <2>1. QED
    BY <1>1, <1>3
<1> HIDE DEF new
<1>6. repl' \in [CollId -> [Base -> SUBSET Replica]]
  BY <1>2, <1>4, <1>5
<1>7. \A k \in CollId, c \in Base : repl'[k][c] = IF k = id /\ c = b THEN new ELSE repl[k][c]
  BY <1>2, <1>4
<1>8. edits' = 0 => CleanCatalog'
  BY <1>5, <1>7 DEF CleanCatalog
<1>9. QED
  BY <1>6, <1>8

\* Archive::create succeeds and the walk begins.
LEMMA CreateStarts == ASSUME CreateInv, create PROVE ListingInv'
<1>1. /\ pc = "create" /\ stack = <<>> /\ list = <<>> /\ WalkTypeOK /\ ListingInv
      /\ edits = 0 => collOf[RootId] = Root
  BY DEF CreateInv, create, Positions, CreateTypeOK
<1>2. UNCHANGED <<collOf, unused, edits, inner, list, dataSize, faults>> /\ stack' = WalkStart
  BY DEF create
<1>3. repl' \in [CollId -> [Base -> SUBSET Replica]] /\ (edits' = 0 => CleanCatalog')
  <2>1. CASE Target.base = NoBase
    BY <1>1, <1>2, <2>1 DEF create, ListingInv, WalkTypeOK, CleanCatalog
  <2>2. CASE Target.base # NoBase
    <3>1. PICK id \in CollId : Registered(id)
      BY <2>2 DEF create
    <3>2. Target.base \in Base
      BY <2>2, WalkAssumption
    <3>3. QED
      BY <1>1, <1>2, <3>1, <3>2, RegisteredOK DEF ListingInv
  <2>3. QED
    BY <2>1, <2>2
<1> DEFINE first == NewFrame("dirColl", Root, RootId)
           second == NewFrame("dirDataObj", Root, RootId)
<1>4. first \in Frame /\ second \in Frame
  BY NewFrameType, TreeAssumption, CatalogAssumption
<1>5. /\ FrameOK(first, list') /\ ~first.cont
      /\ FrameOK(second, list') /\ ~second.cont
  BY NewFrameOK DEF Known
<1>6. /\ first.page = {} /\ first.rest = {} /\ Len(first.dirs) = 0
      /\ first.coll = Root /\ first.id = RootId
      /\ second.page = {} /\ second.rest = {} /\ Len(second.dirs) = 0
      /\ second.coll = Root /\ second.id = RootId
  BY DEF NewFrame
<1>7. stack' = <<first, second>>
  BY <1>2 DEF WalkStart
<1> HIDE DEF first, second
<1>8. first \in SoundFrame' /\ second \in SoundFrame'
  BY <1>1, <1>2, <1>4, <1>6 DEF SoundFrame
<1>9. stack' \in Seq(SoundFrame') /\ stack' \in Seq(Frame)
  BY <1>4, <1>7, <1>8
<1>10. FramesOK(stack, list)' /\ CallersIdle(stack)'
  <2>1. Len(stack') = 2 /\ stack'[1] = first /\ stack'[2] = second
    BY <1>7
  <2>2. \A k \in 1..Len(stack') : FrameOK(stack'[k], list') /\ ~stack'[k].cont
    BY <1>5, <2>1
  <2>3. QED
    BY <2>1, <2>2 DEF FramesOK, FrameOK, Known, ListedIn, CallersIdle
<1>11. HoldersFirst(list)' /\ list' \in Seq(SoundItem') /\ list' \in Seq(Item)
  BY <1>1, <1>2 DEF HoldersFirst
<1>12. dataSize' = Blocks(list')
  BY <1>1, <1>2 DEF ListingInv
<1>13. WalkTypeOK'
  BY <1>1, <1>2, <1>3, <1>9, <1>11 DEF WalkTypeOK
<1>14. QED
  BY <1>3, <1>9, <1>10, <1>11, <1>12, <1>13 DEF ListingInv, WalkInv
-----------------------------------------------------------------------------
(* Every step preserves the invariant.                                     *)

\* An error before anything was created.
LEMMA RefusedStep ==
    ASSUME CreateInv, InvalidInput \/ collIDFails \/ createFails
    PROVE  CreateInv'
<1>1. /\ pc \in {"start", "create"} /\ pc' = "done"
      /\ UNCHANGED <<catalogVars, walkVars, stored, arc, idx, src, off, fds, fatal>>
      /\ faults' = faults \/ faults' = faults + 1
      /\ status' \in Status \ {"ok"}
  BY DEF InvalidInput, collIDFails, createFails, Return, Fault, Status
<1>2. faults \in Nat /\ faults' \in Nat
  BY <1>1 DEF CreateInv, CreateTypeOK, WalkTypeOK
<1>3. ListingInv'
  BY <1>1, <1>2, ListingStays DEF CreateInv
<1>4. UNCHANGED <<collOf, edits, stack, list, dataSize>>
  BY <1>1 DEF catalogVars, walkVars
<1>5. CreateTypeOK'
  BY <1>1, <1>3, <1>4 DEF CreateInv, CreateTypeOK, ListingInv, WalkInv
<1>6. Positions' /\ Written' /\ Progress'
  BY <1>1, <1>4 DEF CreateInv, Positions, Written, Progress
<1>7. Descriptors'
  BY <1>1 DEF CreateInv, Descriptors
<1>8. Outcome'
  <2>1. (faults' = 0 /\ edits' = 0) =>
          \/ status' \in {"ok", "SYS_INVALID_INPUT_PARAM", "CAT_NO_ROWS_FOUND"}
          \/ status' = "SYS_TAR_OPEN_ERR" /\ Target.base # NoBase /\ ~PathTaken(Target.coll)'
    <3>1. faults' = faults + 1 => faults' # 0
      BY <1>2
    <3>2. PathTaken(Target.coll)' <=> PathTaken(Target.coll)
      BY <1>4 DEF PathTaken
    <3>3. QED
      BY <3>1, <3>2 DEF InvalidInput, collIDFails, createFails, Return, Fault
  <2>2. fatal' => faults' # 0
    BY <1>1, <1>2 DEF CreateInv, Outcome
  <2>3. QED
    BY <1>1, <2>1, <2>2 DEF Outcome
<1>9. WellFormed(stored)'
  BY <1>1 DEF CreateInv
<1>10. QED
  BY <1>3, <1>5, <1>6, <1>7, <1>8, <1>9 DEF CreateInv

\* The collection is found.
LEMMA collIDStep == ASSUME CreateInv, collID PROVE CreateInv'
<1>1. /\ pc = "start" /\ pc' = "create" /\ collOf[RootId] = Root
      /\ UNCHANGED <<catalogVars, walkVars, faults, stored, status, arc, idx, src, off, fds, fatal>>
  BY DEF collID
<1>2. ListingInv'
  <2>1. faults' \in Nat
    BY <1>1 DEF CreateInv, CreateTypeOK, WalkTypeOK
  <2>2. QED
    BY <1>1, <2>1, ListingStays DEF CreateInv
<1>3. UNCHANGED <<collOf, edits, stack, list, dataSize>>
  BY <1>1 DEF catalogVars, walkVars
<1>4. CreateTypeOK'
  BY <1>1, <1>2, <1>3 DEF CreateInv, CreateTypeOK, ListingInv, WalkInv
<1>5. Positions' /\ Written' /\ Progress' /\ Descriptors'
  BY <1>1, <1>3 DEF CreateInv, Positions, Written, Progress, Descriptors
<1>6. Outcome'
  BY <1>1, <1>3 DEF CreateInv, Outcome, PathTaken
<1>7. WellFormed(stored)'
  BY <1>1 DEF CreateInv
<1>8. QED
  BY <1>2, <1>4, <1>5, <1>6, <1>7 DEF CreateInv

\* The archive object is opened.
LEMMA createStep == ASSUME CreateInv, create PROVE CreateInv'
<1>1. /\ pc = "create" /\ pc' = "walk" /\ fds' = {"archive"}
      /\ stored' = NoIndex("bare")
      /\ UNCHANGED <<collOf, edits, list, dataSize, faults, status, arc, idx, src, off, fatal>>
  BY DEF create
<1>2. ListingInv'
  BY CreateStarts
<1>3. arc = NoIndex("bare") /\ status = "ok"
  BY <1>1 DEF CreateInv, Positions
<1>4. stored' \in ArchiveFile /\ WellFormed(stored')
  BY <1>1, NoIndexOK
<1>5. CreateTypeOK'
  BY <1>1, <1>2, <1>4 DEF CreateInv, CreateTypeOK, ListingInv, WalkInv
<1>6. Positions' /\ Progress' /\ Descriptors'
  BY <1>1, <1>3, NoIndexOK DEF CreateInv, Positions, Progress, Descriptors
<1>7. Written'
  BY <1>1, <1>3, NoIndexOK DEF Written
<1>8. Outcome'
  BY <1>1, <1>3 DEF CreateInv, Outcome
<1>9. QED
  BY <1>2, <1>4, <1>5, <1>6, <1>7, <1>8 DEF CreateInv

\* A step of dirColl or dirDataObj.
LEMMA WalkingStep == ASSUME CreateInv, Walk PROVE CreateInv'
<1>1. /\ pc = "walk" /\ WalkStep /\ UNCHANGED catalogVars
      /\ UNCHANGED <<pc, status, arc, stored, idx, src, off, fds, fatal>>
  BY DEF Walk, createVars
<1>2. ListingInv'
  BY <1>1, ListingWalks DEF CreateInv
<1>3. arc = NoIndex("bare") /\ status = "ok"
  BY <1>1 DEF CreateInv, Positions
<1>4. faults \in Nat /\ (faults' = faults \/ faults' = faults + 1)
  BY <1>1 DEF CreateInv, CreateTypeOK, WalkTypeOK, WalkStep, FetchPage, NoMoreRows, QueryFails,
              AttrPage, AttrDone, AclPage, AddRow
<1>5. Len(list) \in Nat /\ Len(list') \in Nat /\ Len(list) <= Len(list')
  <2>1. list \in Seq(SoundItem)
    BY DEF CreateInv, ListingInv
  <2>2. QED
    BY <1>1, <2>1, WalkLists DEF CreateInv
<1>6. CreateTypeOK'
  <2>1. idx' \in 0..Len(list')
    BY <1>1, <1>5 DEF CreateInv, CreateTypeOK
  <2>2. QED
    BY <1>1, <1>2, <2>1 DEF CreateInv, CreateTypeOK, ListingInv, WalkInv
<1>7. Positions' /\ Progress' /\ Descriptors'
  BY <1>1, <1>3, NoIndexOK DEF CreateInv, Positions, Progress, Descriptors
<1>8. Written'
  BY <1>1, <1>3, NoIndexOK DEF Written
<1>9. Outcome'
  BY <1>1, <1>3, <1>4 DEF CreateInv, Outcome
<1>10. WellFormed(stored)'
  BY <1>1 DEF CreateInv
<1>11. QED
  BY <1>2, <1>6, <1>7, <1>8, <1>9, <1>10 DEF CreateInv

\* Another agent changes the catalog.
LEMMA EditStep ==
    ASSUME CreateInv, CatalogEdit, pc # "done", UNCHANGED <<walkVars, faults, createVars>>
    PROVE  CreateInv'
<1>1. UNCHANGED <<stack, list, dataSize, faults, pc, status, arc, stored, idx, src, off, fds, fatal>>
  BY DEF walkVars, createVars
<1>2. ListingInv' /\ edits' # 0
  BY ListingEdited DEF CreateInv
<1>3. CreateTypeOK'
  BY <1>1, <1>2 DEF CreateInv, CreateTypeOK, ListingInv, WalkInv
<1>4. Positions' /\ Written' /\ Progress' /\ Descriptors' /\ Outcome'
  BY <1>1, <1>2 DEF CreateInv, Positions, Written, Progress, Descriptors, Outcome
<1>5. WellFormed(stored)'
  BY <1>1 DEF CreateInv
<1>6. QED
  BY <1>2, <1>3, <1>4, <1>5 DEF CreateInv
\* construct() works on a finished list.
LEMMA ConstructKeeps ==
    ASSUME CreateInv, UNCHANGED <<catalogVars, walkVars>>,
           faults' = faults \/ faults' = faults + 1
    PROVE  /\ ListingInv' /\ WalkTypeOK'
           /\ UNCHANGED <<collOf, repl, edits, stack, list, dataSize>>
           /\ faults \in Nat /\ (faults' = 0 => faults = 0 /\ faults' = faults)
           /\ list \in Seq(Item) /\ Len(list) \in Nat /\ idx \in 0..Len(list)
           /\ src \in Nat /\ off \in 0..src
           /\ arc \in ArchiveFile /\ arc.entries \in Seq(Entry) /\ Len(arc.entries) \in Nat
<1>1. faults \in Nat /\ faults' \in Nat /\ (faults' = 0 => faults = 0 /\ faults' = faults)
  BY DEF CreateInv, CreateTypeOK, WalkTypeOK
<1>2. ListingInv'
  BY <1>1, ListingStays DEF CreateInv
<1>3. WalkTypeOK'
  BY <1>2 DEF ListingInv, WalkInv
<1>4. UNCHANGED <<collOf, repl, edits, stack, list, dataSize>>
  BY DEF catalogVars, walkVars
<1>5. list \in Seq(Item) /\ idx \in 0..Len(list) /\ src \in Nat /\ off \in 0..src /\ arc \in ArchiveFile
  BY DEF CreateInv, CreateTypeOK, WalkTypeOK
<1>6. Len(list) \in Nat /\ arc.entries \in Seq(Entry)
  BY <1>5 DEF ArchiveFile
<1>7. Len(arc.entries) \in Nat
  BY <1>6
<1>8. QED
  BY <1>1, <1>2, <1>3, <1>4, <1>5, <1>6, <1>7

\* INDEX.json is written.
LEMMA WriteIndexStep == ASSUME CreateInv, WriteIndex PROVE CreateInv'
<1>1. /\ pc = "walk" /\ stack = <<>> /\ pc' = "item" /\ idx' = 0
      /\ arc' = [arc EXCEPT !.form = "indexed", !.items = list, !.size = dataSize]
      /\ UNCHANGED <<catalogVars, walkVars>> /\ faults' = faults
      /\ UNCHANGED <<stored, status, src, off, fds, fatal>>
  BY DEF WriteIndex
<1>2. /\ ListingInv' /\ WalkTypeOK' /\ UNCHANGED <<edits, stack, list, dataSize>>
      /\ list \in Seq(Item) /\ Len(list) \in Nat /\ arc \in ArchiveFile
  BY <1>1, ConstructKeeps
<1>3. arc = NoIndex("bare") /\ status = "ok" /\ stored = NoIndex("bare")
  BY <1>1 DEF CreateInv, Positions
<1>4. /\ arc'.form = "indexed" /\ arc'.items = list /\ arc'.size = dataSize
      /\ Len(arc'.entries) = 0 /\ ~arc'.whole
  <2>1. /\ arc'.form = "indexed" /\ arc'.items = list /\ arc'.size = dataSize
        /\ arc'.entries = arc.entries /\ arc'.whole = arc.whole
    BY <1>1, <1>2 DEF ArchiveFile
  <2>2. QED
    BY <1>3, <2>1, NoIndexOK
<1>5. arc' \in ArchiveFile
  <2>1. dataSize \in Nat
    BY DEF CreateInv, CreateTypeOK, WalkTypeOK
  <2>2. QED
    BY <1>1, <1>2, <2>1 DEF ArchiveFile
<1>6. CreateTypeOK'
  BY <1>1, <1>2, <1>5 DEF CreateInv, CreateTypeOK
<1>7. Positions' /\ Written' /\ Progress' /\ Descriptors'
  BY <1>1, <1>2, <1>3, <1>4 DEF CreateInv, Positions, Written, Progress, Descriptors
<1>8. Outcome'
  BY <1>1, <1>2, <1>3 DEF CreateInv, Outcome
<1>9. WellFormed(stored)'
  BY <1>1 DEF CreateInv
<1>10. QED
  BY <1>2, <1>6, <1>7, <1>8, <1>9 DEF CreateInv

\* The header of the next item is the entry of that item.
LEMMA HeaderWritten ==
    ASSUME CreateInv, pc = "item", idx < Len(list), UNCHANGED <<stack, list, dataSize>>,
           arc' = [arc EXCEPT !.entries = Append(@, HeaderOf(list[idx + 1]))]
    PROVE  /\ arc' \in ArchiveFile /\ Written' /\ arc.form = "indexed" /\ arc'.form = "indexed"
           /\ arc'.items = list /\ Len(arc.entries) = idx /\ Len(arc'.entries) = idx + 1
           /\ arc'.entries[idx + 1] = HeaderOf(list[idx + 1])
           /\ \A k \in 1..idx : arc'.entries[k] = arc.entries[k]
           /\ list[idx + 1] \in SoundItem /\ list[idx + 1] \in Item
<1> DEFINE e == HeaderOf(list[idx + 1])
           new == Append(arc.entries, e)
<1>1. /\ arc \in ArchiveFile /\ list \in Seq(SoundItem) /\ list \in Seq(Item) /\ idx \in 0..Len(list)
      /\ arc.form = "indexed" /\ stack = <<>> /\ arc.items = list /\ arc.size = dataSize
      /\ ~arc.whole /\ Len(arc.entries) = idx
      /\ \A k \in 1..Len(arc.entries) : /\ arc.entries[k].item = arc.items[k]
                                        /\ arc.entries[k].got <= arc.items[k].size
  BY DEF CreateInv, CreateTypeOK, WalkTypeOK, ListingInv, Positions, Written, Progress
<1>2. list[idx + 1] \in SoundItem /\ list[idx + 1] \in Item /\ idx \in Nat /\ Len(list) \in Nat
  BY <1>1
<1>3. e \in Entry /\ e.item = list[idx + 1] /\ e.got = 0
  BY <1>2 DEF HeaderOf, Entry
<1>4. arc.entries \in Seq(Entry)
  BY <1>1 DEF ArchiveFile
<1>5. arc' = [arc EXCEPT !.entries = new]
  OBVIOUS
<1> HIDE DEF e
<1>6. /\ new \in Seq(Entry) /\ Len(new) = idx + 1 /\ new[idx + 1] = e
      /\ \A k \in 1..idx : new[k] = arc.entries[k]
  BY <1>1, <1>3, <1>4
<1> HIDE DEF new
<1>7. /\ arc' \in ArchiveFile /\ arc'.entries = new /\ arc'.items = arc.items /\ arc'.form = arc.form
      /\ arc'.size = arc.size /\ arc'.whole = arc.whole
  BY <1>1, <1>5, <1>6 DEF ArchiveFile
<1>8. ASSUME NEW k \in 1..Len(new)
      PROVE  new[k].item = list[k] /\ new[k].got <= list[k].size
  <2>1. CASE k \in 1..idx
    BY <1>1, <1>6, <2>1
  <2>2. CASE k = idx + 1
    <3>1. list[idx + 1].size \in Nat
      BY <1>2 DEF Item
    <3>2. QED
      BY <1>3, <1>6, <2>2, <3>1
  <2>3. QED
    BY <1>2, <1>6, <2>1, <2>2
<1>9. Written'
  BY <1>1, <1>2, <1>6, <1>7, <1>8 DEF Written
<1>10. QED
  BY <1>1, <1>2, <1>6, <1>7, <1>9 DEF e

\* construct() writes the header of the next item.
LEMMA WriteHeaderStep == ASSUME CreateInv, WriteHeader PROVE CreateInv'
<1>1. /\ pc = "item" /\ idx < Len(list)
      /\ arc' = [arc EXCEPT !.entries = Append(@, HeaderOf(list[idx + 1]))]
      /\ IF list[idx + 1].type = "coll" THEN idx' = idx + 1 /\ pc' = "item"
                                        ELSE idx' = idx /\ pc' = "open"
      /\ UNCHANGED <<catalogVars, walkVars>> /\ faults' = faults
      /\ UNCHANGED <<stored, status, src, off, fds, fatal>>
  BY DEF WriteHeader
<1>2. /\ ListingInv' /\ WalkTypeOK' /\ UNCHANGED <<collOf, edits, stack, list, dataSize>>
      /\ Len(list) \in Nat /\ idx \in 0..Len(list)
  BY <1>1, ConstructKeeps
<1>3. /\ arc' \in ArchiveFile /\ Written' /\ arc'.form = "indexed"
      /\ arc'.items = list /\ Len(arc.entries) = idx /\ Len(arc'.entries) = idx + 1
      /\ arc'.entries[idx + 1] = HeaderOf(list[idx + 1])
      /\ \A k \in 1..idx : arc'.entries[k] = arc.entries[k]
      /\ list[idx + 1] \in SoundItem /\ list[idx + 1] \in Item
  BY <1>1, <1>2, HeaderWritten
<1>4. arc'.entries[idx + 1].got = 0
  BY <1>3 DEF HeaderOf
<1>5. list[idx + 1].type \in {"coll", "dataObj"} /\ (list[idx + 1].type = "coll" => list[idx + 1].size = 0)
  BY <1>3 DEF SoundItem, Item, CollItem
<1>6. CreateTypeOK'
  BY <1>1, <1>2, <1>3 DEF CreateInv, CreateTypeOK
<1>7. Positions' /\ Descriptors'
  BY <1>1, <1>2, <1>3 DEF CreateInv, Positions, Descriptors
<1>8. edits = 0 => \A k \in 1..idx : arc'.entries[k].got = list[k].size
  BY <1>1, <1>2, <1>3 DEF CreateInv, Progress, Positions, Written
<1>9. Progress'
  <2>1. CASE list[idx + 1].type = "coll"
    <3>1. pc' = "item" /\ idx' = idx + 1
      BY <1>1, <2>1
    <3>2. edits = 0 => \A k \in 1..(idx + 1) : arc'.entries[k].got = list[k].size
      BY <1>2, <1>4, <1>5, <1>8, <2>1
    <3>3. QED
      BY <1>2, <1>3, <3>1, <3>2 DEF Progress
  <2>2. CASE list[idx + 1].type = "dataObj"
    <3>1. pc' = "open" /\ idx' = idx
      BY <1>1, <2>2
    <3>2. QED
      BY <1>1, <1>2, <1>3, <1>4, <1>8, <2>2, <3>1 DEF Progress
  <2>3. QED
    BY <1>5, <2>1, <2>2
<1>10. Outcome'
  <2>1. pc' \in {"item", "open"}
    BY <1>1
  <2>2. PathTaken(Target.coll)' <=> PathTaken(Target.coll)
    BY <1>2 DEF PathTaken
  <2>3. QED
    BY <1>1, <1>2, <2>1, <2>2 DEF CreateInv, Outcome
<1>11. WellFormed(stored)'
  BY <1>1 DEF CreateInv
<1>12. QED
  BY <1>2, <1>3, <1>6, <1>7, <1>9, <1>10, <1>11 DEF CreateInv

\* Entries of items that were copied before stay complete.
Copied == edits = 0 => \A k \in 1..Len(arc.entries) :
                          k <= idx => arc.entries[k].got = arc.items[k].size

\* construct() returns an error.
LEMMA AbandonStep ==
    ASSUME CreateInv, pc \in {"walk", "item", "open", "read"}, pc' = "free",
           status' \in Status \ {"ok"}, fds' = fds \ {"object"}, fatal' \in BOOLEAN,
           UNCHANGED <<catalogVars, walkVars>>, UNCHANGED <<stored, idx, src, off>>,
           faults' = faults \/ faults' = faults + 1, fatal' => faults' # 0,
           faults' = 0 => edits # 0,
           arc' \in ArchiveFile, Written', Copied'
    PROVE  CreateInv'
<1>1. /\ ListingInv' /\ WalkTypeOK' /\ UNCHANGED <<edits, stack, list, dataSize>>
  BY ConstructKeeps
<1>2. fds' = {"archive"}
  BY DEF CreateInv, Descriptors
<1>3. CreateTypeOK'
  BY <1>1, <1>2 DEF CreateInv, CreateTypeOK
<1>4. Positions' /\ Descriptors'
  BY <1>1, <1>2 DEF CreateInv, Positions, Descriptors
<1>5. Progress'
  BY DEF Copied, Progress
<1>6. Outcome'
  BY <1>1 DEF Outcome
<1>7. WellFormed(stored)'
  BY DEF CreateInv
<1>8. QED
  BY <1>1, <1>3, <1>4, <1>5, <1>6, <1>7 DEF CreateInv

\* archive_write_header or archive_write_data fails.
LEMMA AppendFailsStep == ASSUME CreateInv, AppendFails PROVE CreateInv'
<1>1. /\ faults' = faults + 1 /\ pc' = "free" /\ status' = "SYS_TAR_APPEND_ERR"
      /\ fds' = fds \ {"object"} /\ fatal' \in BOOLEAN
      /\ UNCHANGED <<catalogVars, walkVars>> /\ UNCHANGED <<stored, idx, src, off>>
      /\ pc \in {"walk", "item", "read"}
      /\ \/ arc' = arc
         \/ /\ pc = "item" /\ idx < Len(list)
            /\ arc' = [arc EXCEPT !.entries = Append(@, HeaderOf(list[idx + 1]))]
  BY DEF AppendFails, Fault, Abandon
<1>2. /\ UNCHANGED <<edits, stack, list, dataSize>> /\ faults \in Nat
      /\ arc \in ArchiveFile /\ idx \in 0..Len(list) /\ Len(list) \in Nat
  BY <1>1, ConstructKeeps
<1>3. faults' # 0 /\ status' \in Status \ {"ok"}
  BY <1>1, <1>2 DEF Status
<1>4. arc' \in ArchiveFile /\ Written' /\ Copied'
  <2>1. Copied
    BY DEF CreateInv, Progress, Copied
  <2>2. CASE arc' = arc
    BY <1>1, <1>2, <2>1, <2>2 DEF CreateInv, Written, Copied
  <2>3. CASE /\ pc = "item" /\ idx < Len(list)
             /\ arc' = [arc EXCEPT !.entries = Append(@, HeaderOf(list[idx + 1]))]
    <3>1. /\ arc' \in ArchiveFile /\ Written' /\ arc.form = "indexed"
          /\ arc'.items = list /\ Len(arc.entries) = idx /\ Len(arc'.entries) = idx + 1
          /\ \A k \in 1..idx : arc'.entries[k] = arc.entries[k]
      BY <1>2, <2>3, HeaderWritten
    <3>2. arc.items = list
      BY <3>1 DEF CreateInv, Written
    <3>3. Copied'
      BY <1>1, <1>2, <2>1, <3>1, <3>2 DEF Copied
    <3>4. QED
      BY <3>1, <3>3
  <2>4. QED
    BY <1>1, <2>2, <2>3
<1>5. QED
  BY <1>1, <1>3, <1>4, AbandonStep

\* The next data object is opened: while no agent interferes it has the size
\* that the index gives.
LEMMA OpenObjStep == ASSUME CreateInv, OpenObj PROVE CreateInv'
<1>1. /\ pc = "open" /\ pc' = "read" /\ off' = 0 /\ fds' = fds \cup {"object"}
      /\ UNCHANGED <<catalogVars, walkVars>> /\ faults' = faults
      /\ UNCHANGED <<stored, status, arc, idx, fatal>>
  BY DEF OpenObj
<1>2. /\ ListingInv' /\ WalkTypeOK' /\ UNCHANGED <<collOf, edits, stack, list, dataSize>>
      /\ list \in Seq(Item) /\ Len(list) \in Nat /\ idx \in 0..Len(list)
  BY <1>1, ConstructKeeps
<1>3. PICK id \in HolderIds : \E r \in GoodReplicas(id, list[idx + 1].base) : src' = r.size
  BY DEF OpenObj
<1>4. PICK r \in GoodReplicas(id, list[idx + 1].base) : src' = r.size
  BY <1>3
<1> DEFINE i == list[idx + 1]
<1>5. /\ idx < Len(list) /\ i.type = "dataObj" /\ Len(arc.entries) = idx + 1
      /\ arc.entries[idx + 1].got = 0 /\ arc.form = "indexed" /\ arc.items = list
  BY <1>1 DEF CreateInv, Progress, Positions, Written
<1>6. i \in SoundItem /\ i \in Item
  BY <1>2, <1>5 DEF CreateInv, ListingInv
<1>7. /\ i.base \in Base /\ i.size \in Nat
      /\ edits = 0 => Readable(i.coll, i.base, i.size)
  BY <1>5, <1>6, CatalogAssumption DEF SoundItem
<1>8. id \in CollId /\ collOf[id] = i.coll /\ i.coll \in Coll
  BY <1>3, <1>6 DEF HolderIds, Item
<1>9. r \in Replica /\ r \in repl[id][i.base] /\ r.good
  BY <1>4, <1>7, <1>8 DEF GoodReplicas, CreateInv, CreateTypeOK, WalkTypeOK
<1>10. src' \in Nat
  BY <1>4, <1>9, CatalogAssumption DEF Replica
<1>11. edits = 0 => src' = i.size
  <2> SUFFICES ASSUME edits = 0 PROVE src' = i.size
    OBVIOUS
  <2>1. PICK k \in CollId : collOf[k] = i.coll /\ \E q \in GoodReplicas(k, i.base) : q.size = i.size
    BY <1>7 DEF Readable
  <2>2. CleanCatalog
    BY DEF CreateInv, ListingInv
  <2>3. i.coll # NoColl
    BY <1>8, CatalogAssumption
  <2>4. k = id
    BY <1>8, <2>1, <2>2, <2>3 DEF CleanCatalog
  <2>5. PICK q \in GoodReplicas(id, i.base) : q.size = i.size
    BY <2>1, <2>4
  <2>6. q \in repl[id][i.base] /\ q.good
    BY <2>5 DEF GoodReplicas
  <2>7. q.size = r.size
    BY <1>7, <1>8, <1>9, <2>2, <2>6 DEF CleanCatalog
  <2>8. QED
    BY <1>4, <2>5, <2>7
<1> HIDE DEF i
<1>12. CreateTypeOK'
  <2>1. off' \in 0..src'
    BY <1>1, <1>10
  <2>2. fds' \subseteq {"archive", "object"}
    BY <1>1 DEF CreateInv, CreateTypeOK
  <2>3. QED
    BY <1>1, <1>2, <1>10, <2>1, <2>2 DEF CreateInv, CreateTypeOK
<1>13. Positions' /\ Written' /\ Descriptors'
  BY <1>1, <1>2 DEF CreateInv, Positions, Written, Descriptors
<1>14. Progress'
  <2>1. arc.entries[idx + 1].got = AtMost(0, i.size)
    BY <1>5, <1>7 DEF AtMost
  <2>2. QED
    BY <1>1, <1>2, <1>5, <1>11, <2>1 DEF CreateInv, Progress, i
<1>15. Outcome'
  <2>1. PathTaken(Target.coll)' <=> PathTaken(Target.coll)
    BY <1>2 DEF PathTaken
  <2>2. QED
    BY <1>1, <1>2, <2>1 DEF CreateInv, Outcome
<1>16. WellFormed(stored)'
  BY <1>1 DEF CreateInv
<1>17. QED
  BY <1>2, <1>12, <1>13, <1>14, <1>15, <1>16 DEF CreateInv

\* It cannot be opened: a call failed or another agent removed it.
LEMMA OpenObjFailsStep == ASSUME CreateInv, OpenObjFails PROVE CreateInv'
<1>1. /\ pc = "open" /\ pc' = "free" /\ status' = "open error"
      /\ UNCHANGED <<catalogVars, walkVars>> /\ UNCHANGED <<stored, arc, idx, src, off, fds, fatal>>
      /\ \/ faults' = faults + 1
         \/ /\ \A id \in HolderIds : GoodReplicas(id, list[idx + 1].base) = {}
            /\ faults' = faults
  BY DEF OpenObjFails, Fault, Abandon
<1>2. /\ UNCHANGED <<edits, stack, list, dataSize>> /\ faults \in Nat
      /\ arc \in ArchiveFile /\ idx \in 0..Len(list) /\ Len(list) \in Nat
      /\ list \in Seq(Item) /\ (faults' = 0 => faults = 0 /\ faults' = faults)
  BY <1>1, ConstructKeeps
<1> DEFINE i == list[idx + 1]
<1>3. faults' = 0 => edits # 0
  <2> SUFFICES ASSUME faults' = 0, edits = 0 PROVE FALSE
    OBVIOUS
  <2>1. idx < Len(list) /\ i.type = "dataObj"
    BY <1>1 DEF CreateInv, Progress
  <2>2. i \in SoundItem
    BY <1>2, <2>1 DEF CreateInv, ListingInv
  <2>3. Readable(i.coll, i.base, i.size)
    BY <2>1, <2>2 DEF SoundItem
  <2>4. PICK k \in CollId : collOf[k] = i.coll /\ \E q \in GoodReplicas(k, i.base) : q.size = i.size
    BY <2>3 DEF Readable
  <2>5. k \in HolderIds
    BY <2>4 DEF HolderIds
  <2>6. \A id \in HolderIds : GoodReplicas(id, i.base) = {}
    <3>1. faults' # faults + 1
      BY <1>2
    <3>2. QED
      BY <1>1, <3>1
  <2>7. QED
    BY <2>4, <2>5, <2>6
<1> HIDE DEF i
<1>4. fds' = fds \ {"object"} /\ status' \in Status \ {"ok"} /\ fatal' \in BOOLEAN
  BY <1>1 DEF CreateInv, Descriptors, CreateTypeOK, Status
<1>5. fatal' => faults' # 0
  BY <1>1, <1>2 DEF CreateInv, Outcome
<1>6. arc' \in ArchiveFile /\ Written' /\ Copied'
  BY <1>1, <1>2 DEF CreateInv, Written, Progress, Copied
<1>7. QED
  BY <1>1, <1>3, <1>4, <1>5, <1>6, AbandonStep

\* Reading it fails.
LEMMA ReadFailsStep == ASSUME CreateInv, ReadFails PROVE CreateInv'
<1>1. /\ pc = "read" /\ pc' = "free" /\ status' = "SYS_TAR_APPEND_ERR" /\ fds' = fds \ {"object"}
      /\ UNCHANGED <<catalogVars, walkVars>> /\ UNCHANGED <<stored, arc, idx, src, off, fatal>>
      /\ faults' = faults + 1
  BY DEF ReadFails, Fault, Abandon
<1>2. UNCHANGED <<edits, stack, list, dataSize>> /\ faults \in Nat /\ arc \in ArchiveFile
  BY <1>1, ConstructKeeps
<1>3. faults' # 0 /\ status' \in Status \ {"ok"}
  BY <1>1, <1>2 DEF Status
<1>4. fatal' \in BOOLEAN
  BY <1>1 DEF CreateInv, CreateTypeOK
<1>5. arc' \in ArchiveFile /\ Written' /\ Copied'
  BY <1>1, <1>2 DEF CreateInv, Written, Progress, Copied
<1>6. QED
  BY <1>1, <1>3, <1>4, <1>5, AbandonStep
\* What one turn of the copying loop does to the entry of the data object: its
\* size in the index is never exceeded.
LEMMA ChunkCopied ==
    ASSUME CreateInv, CopyChunk
    PROVE  /\ off' \in 0..src /\ off <= off'
           /\ Len(arc.entries) = idx + 1 /\ idx \in Nat /\ idx < Len(list) /\ arc.items = list
           /\ list[idx + 1].size \in Nat
           /\ arc.entries[idx + 1].got = AtMost(off, list[idx + 1].size)
           /\ arc.entries \in Seq(Entry)
           /\ arc' \in ArchiveFile
           /\ arc'.form = arc.form /\ arc'.items = arc.items /\ arc'.size = arc.size
           /\ arc'.whole = arc.whole
           /\ arc'.entries = [arc.entries EXCEPT ![idx + 1].got = AtMost(off', list[idx + 1].size)]
           /\ Len(arc'.entries) = idx + 1
           /\ arc'.entries[idx + 1].item = arc.entries[idx + 1].item
           /\ arc'.entries[idx + 1].got = AtMost(off', list[idx + 1].size)
           /\ \A k \in 1..idx : arc'.entries[k] = arc.entries[k]
<1> DEFINE n == AtMost(off', list[idx + 1].size)
           es == arc.entries
           new == [es EXCEPT ![idx + 1].got = n]
<1>1. /\ pc = "read" /\ off < src /\ off' = AtMost(off + Buf, src)
      /\ arc' = [arc EXCEPT !.entries[idx + 1].got = n]
  BY DEF CopyChunk
<1>2. /\ arc \in ArchiveFile /\ list \in Seq(Item) /\ idx \in 0..Len(list)
      /\ src \in Nat /\ off \in 0..src
      /\ Len(arc.entries) = idx + 1 /\ idx < Len(list) /\ arc.items = list
      /\ arc.entries[idx + 1].got = AtMost(off, list[idx + 1].size)
  BY <1>1 DEF CreateInv, CreateTypeOK, WalkTypeOK, Progress, Positions, Written
<1>3. off' \in 0..src /\ off <= off'
  BY <1>1, <1>2, CreateAssumption DEF AtMost
<1>4. list[idx + 1] \in Item /\ idx \in Nat
  BY <1>2
<1>5. list[idx + 1].size \in Nat
  BY <1>4 DEF Item
<1>6. n \in Nat
  BY <1>2, <1>3, <1>5 DEF AtMost
<1>7. es \in Seq(Entry) /\ idx + 1 \in 1..Len(es)
  BY <1>2, <1>4 DEF ArchiveFile
<1>8. arc' = [arc EXCEPT !.entries = new]
  BY <1>1, <1>2, <1>7 DEF ArchiveFile
<1> HIDE DEF n
<1>9. es[idx + 1] \in Entry
  BY <1>7
<1>10. [es[idx + 1] EXCEPT !.got = n] \in Entry /\ [es[idx + 1] EXCEPT !.got = n].got = n
       /\ [es[idx + 1] EXCEPT !.got = n].item = es[idx + 1].item
  BY <1>6, <1>9 DEF Entry
<1> DEFINE e == [es[idx + 1] EXCEPT !.got = n]
<1>11. new = [es EXCEPT ![idx + 1] = e]
  BY <1>7
<1>12. e \in Entry /\ e.got = n /\ e.item = es[idx + 1].item
  BY <1>10
<1> HIDE DEF e
<1>13. /\ new \in Seq(Entry) /\ Len(new) = Len(es) /\ new[idx + 1] = e
       /\ \A k \in 1..Len(es) : k # idx + 1 => new[k] = es[k]
  BY <1>7, <1>11, <1>12
<1>14. \A k \in 1..idx : new[k] = es[k]
  BY <1>4, <1>7, <1>13
<1> DEFINE w == new
<1>15. arc' = [arc EXCEPT !.entries = w] /\ w \in Seq(Entry)
  BY <1>8, <1>13
<1> HIDE DEF w
<1>16. /\ arc' \in ArchiveFile /\ arc'.entries = w /\ arc'.form = arc.form
       /\ arc'.items = arc.items /\ arc'.size = arc.size /\ arc'.whole = arc.whole
  BY <1>2, <1>15 DEF ArchiveFile
<1>17. arc'.entries = new
  BY <1>16 DEF w
<1> HIDE DEF new
<1>18. /\ Len(arc'.entries) = idx + 1 /\ arc'.entries[idx + 1].item = es[idx + 1].item
       /\ arc'.entries[idx + 1].got = n /\ \A k \in 1..idx : arc'.entries[k] = es[k]
  BY <1>2, <1>12, <1>13, <1>14, <1>17
<1>19. QED
  BY <1>2, <1>3, <1>4, <1>5, <1>7, <1>16, <1>17, <1>18 DEF n, new

\* One turn of the copying loop.
LEMMA CopyChunkStep == ASSUME CreateInv, CopyChunk PROVE CreateInv'
<1>1. /\ pc = "read" /\ pc' = pc
      /\ UNCHANGED <<catalogVars, walkVars>> /\ faults' = faults
      /\ UNCHANGED <<stored, status, idx, src, fds, fatal>>
  BY DEF CopyChunk
<1>2. /\ ListingInv' /\ WalkTypeOK' /\ UNCHANGED <<collOf, edits, stack, list, dataSize>>
      /\ Len(list) \in Nat
  BY <1>1, ConstructKeeps
<1> DEFINE s == list[idx + 1].size
<1>3. /\ off' \in 0..src /\ off <= off'
      /\ Len(arc.entries) = idx + 1 /\ idx \in Nat /\ idx < Len(list) /\ arc.items = list
      /\ s \in Nat
      /\ arc' \in ArchiveFile
      /\ arc'.form = arc.form /\ arc'.items = arc.items /\ arc'.size = arc.size
      /\ arc'.whole = arc.whole
      /\ Len(arc'.entries) = idx + 1
      /\ arc'.entries[idx + 1].item = arc.entries[idx + 1].item
      /\ arc'.entries[idx + 1].got = AtMost(off', s)
      /\ \A k \in 1..idx : arc'.entries[k] = arc.entries[k]
  BY ChunkCopied
<1>4. CreateTypeOK'
  BY <1>1, <1>2, <1>3 DEF CreateInv, CreateTypeOK
<1>5. Positions' /\ Descriptors'
  BY <1>1, <1>2, <1>3 DEF CreateInv, Positions, Descriptors
<1>6. Written'
  <2>1. ASSUME NEW k \in 1..Len(arc'.entries)
        PROVE  arc'.entries[k].item = list[k] /\ arc'.entries[k].got <= list[k].size
    <3>1. arc.entries[k].item = list[k] /\ arc.entries[k].got <= list[k].size
      BY <1>3 DEF CreateInv, Written
    <3>2. CASE k \in 1..idx
      BY <1>3, <3>1, <3>2
    <3>3. CASE k = idx + 1
      <4>1. AtMost(off', s) <= s
        BY <1>3 DEF AtMost
      <4>2. QED
        BY <1>3, <3>1, <3>3, <4>1
    <3>4. QED
      BY <1>3, <3>2, <3>3
  <2>2. arc.form = "indexed" /\ stack = <<>> /\ arc.size = dataSize /\ ~arc.whole
    BY <1>1 DEF CreateInv, Positions, Written
  <2>3. QED
    BY <1>2, <1>3, <2>1, <2>2 DEF Written
<1>7. Progress'
  <2>1. edits = 0 => src = s /\ \A k \in 1..idx : arc'.entries[k].got = list[k].size
    BY <1>1, <1>3 DEF CreateInv, Progress
  <2>2. list[idx + 1].type = "dataObj"
    BY <1>1 DEF CreateInv, Progress
  <2>3. QED
    BY <1>1, <1>2, <1>3, <2>1, <2>2 DEF Progress
<1>8. Outcome'
  <2>1. PathTaken(Target.coll)' <=> PathTaken(Target.coll)
    BY <1>2 DEF PathTaken
  <2>2. QED
    BY <1>1, <1>2, <2>1 DEF CreateInv, Outcome
<1>9. WellFormed(stored)'
  BY <1>1 DEF CreateInv
<1>10. QED
  BY <1>2, <1>4, <1>5, <1>6, <1>7, <1>8, <1>9 DEF CreateInv

\* The end of the data object.
LEMMA CopyDoneStep == ASSUME CreateInv, CopyDone PROVE CreateInv'
<1>1. /\ pc = "read" /\ off = src /\ pc' = "item" /\ idx' = idx + 1 /\ fds' = fds \ {"object"}
      /\ UNCHANGED <<catalogVars, walkVars>> /\ faults' = faults
      /\ UNCHANGED <<stored, status, arc, src, off, fatal>>
  BY DEF CopyDone
<1>2. /\ ListingInv' /\ WalkTypeOK' /\ UNCHANGED <<collOf, edits, stack, list, dataSize>>
      /\ list \in Seq(Item) /\ Len(list) \in Nat /\ idx \in 0..Len(list) /\ src \in Nat
  BY <1>1, ConstructKeeps
<1>3. /\ Len(arc.entries) = idx + 1 /\ idx < Len(list) /\ arc.items = list
      /\ arc.entries[idx + 1].got = AtMost(off, list[idx + 1].size)
      /\ edits = 0 => src = list[idx + 1].size
      /\ edits = 0 => \A k \in 1..Len(arc.entries) : k <= idx => arc.entries[k].got = arc.items[k].size
  BY <1>1 DEF CreateInv, Progress, Positions, Written
<1>4. fds' = {"archive"}
  BY <1>1 DEF CreateInv, Descriptors
<1>5. CreateTypeOK'
  BY <1>1, <1>2, <1>3, <1>4 DEF CreateInv, CreateTypeOK
<1>6. Positions' /\ Written' /\ Descriptors'
  BY <1>1, <1>2, <1>4 DEF CreateInv, Positions, Written, Descriptors
<1>7. edits = 0 => \A k \in 1..(idx + 1) : arc.entries[k].got = list[k].size
  <2>1. edits = 0 => arc.entries[idx + 1].got = list[idx + 1].size
    BY <1>1, <1>2, <1>3 DEF AtMost
  <2>2. QED
    BY <1>2, <1>3, <2>1
<1>8. Progress'
  BY <1>1, <1>2, <1>3, <1>7 DEF Progress
<1>9. Outcome'
  <2>1. PathTaken(Target.coll)' <=> PathTaken(Target.coll)
    BY <1>2 DEF PathTaken
  <2>2. QED
    BY <1>1, <1>2, <2>1 DEF CreateInv, Outcome
<1>10. WellFormed(stored)'
  BY <1>1 DEF CreateInv
<1>11. QED
  BY <1>2, <1>5, <1>6, <1>8, <1>9, <1>10 DEF CreateInv

\* The loop over the index ends.
LEMMA AllItemsWrittenStep == ASSUME CreateInv, AllItemsWritten PROVE CreateInv'
<1>1. /\ pc = "item" /\ idx = Len(list) /\ pc' = "free"
      /\ UNCHANGED <<catalogVars, walkVars>> /\ faults' = faults
      /\ UNCHANGED <<stored, status, arc, idx, src, off, fds, fatal>>
  BY DEF AllItemsWritten
<1>2. ListingInv' /\ WalkTypeOK' /\ UNCHANGED <<collOf, edits, stack, list, dataSize>>
  BY <1>1, ConstructKeeps
<1>3. arc.form = "indexed" /\ Len(arc.entries) = Len(list) /\ status = "ok"
  BY <1>1 DEF CreateInv, Positions, Progress
<1>4. CreateTypeOK'
  BY <1>1, <1>2 DEF CreateInv, CreateTypeOK
<1>5. Positions' /\ Written' /\ Progress' /\ Descriptors'
  BY <1>1, <1>2 DEF CreateInv, Positions, Written, Progress, Descriptors
<1>6. Outcome'
  BY <1>1, <1>2, <1>3 DEF CreateInv, Outcome
<1>7. WellFormed(stored)'
  BY <1>1 DEF CreateInv
<1>8. QED
  BY <1>2, <1>4, <1>5, <1>6, <1>7 DEF CreateInv
-----------------------------------------------------------------------------
(* The archive is freed.                                                   *)

\* What libarchive was given makes a readable archive at any time.
LEMMA ArcWellFormed == ASSUME CreateInv PROVE WellFormed(arc)
<1>1. CASE arc.form = "bare"
  BY <1>1, NoIndexOK DEF CreateInv, Written
<1>2. CASE arc.form = "indexed"
  <2>1. arc.items = list /\ arc.size = dataSize
    BY <1>2 DEF CreateInv, Written
  <2>2. HoldersFirst(list) /\ dataSize = Blocks(list)
    BY DEF CreateInv, ListingInv, WalkInv
  <2>3. QED
    BY <1>2, <2>1, <2>2 DEF CreateInv, Written, WellFormed
<1>3. QED
  BY <1>1, <1>2 DEF CreateInv, Written

\* What is stored of it stays readable when it is cut short.
LEMMA CutWellFormed ==
    ASSUME NEW f \in ArchiveFile, WellFormed(f), NEW g \in Cut(f)
    PROVE  g \in ArchiveFile /\ WellFormed(g)
<1>1. CASE g = NoIndex("bare")
  BY <1>1, NoIndexOK
<1>2. CASE g # NoIndex("bare")
  <2>1. PICK n \in 0..Len(f.entries) : g = [f EXCEPT !.entries = SubSeq(f.entries, 1, n)]
    BY <1>2 DEF Cut
  <2> DEFINE part == SubSeq(f.entries, 1, n)
  <2>2. f.entries \in Seq(Entry) /\ f.items \in Seq(Item)
    BY DEF ArchiveFile
  <2>3. /\ part \in Seq(Entry) /\ Len(part) = n /\ n \in Nat /\ n <= Len(f.entries)
        /\ Len(f.entries) \in Nat /\ Len(f.items) \in Nat
        /\ \A k \in 1..n : part[k] = f.entries[k]
    BY <2>2
  <2>4. g = [f EXCEPT !.entries = part]
    BY <2>1
  <2>5. f.entries = <<>> => part = <<>>
    BY <2>2, <2>3
  <2> HIDE DEF part
  <2>6. /\ g \in ArchiveFile /\ g.entries = part /\ g.items = f.items /\ g.form = f.form
        /\ g.size = f.size
    BY <2>3, <2>4 DEF ArchiveFile
  <2>7. \A k \in 1..Len(g.entries) : g.entries[k].item = g.items[k] /\ g.entries[k].got <= g.items[k].size
    BY <2>3, <2>6 DEF WellFormed
  <2>8. QED
    BY <2>3, <2>5, <2>6, <2>7 DEF WellFormed
<1>3. QED
  BY <1>1, <1>2

\* archive_write_free succeeds.
LEMMA FreeStep == ASSUME CreateInv, Free PROVE CreateInv'
<1>1. /\ pc = "free" /\ ~fatal /\ stored' = [arc EXCEPT !.whole = TRUE]
      /\ fds' = fds \ {"archive"} /\ pc' = "done"
      /\ UNCHANGED <<catalogVars, walkVars>> /\ faults' = faults
      /\ UNCHANGED <<status, arc, idx, src, off, fatal>>
  BY DEF Free
<1>2. /\ ListingInv' /\ WalkTypeOK' /\ UNCHANGED <<collOf, edits, stack, list, dataSize>>
      /\ arc \in ArchiveFile
  BY <1>1, ConstructKeeps
<1>3. stored' \in ArchiveFile /\ WellFormed(stored')
  <2>1. /\ stored' \in ArchiveFile
        /\ stored'.form = arc.form /\ stored'.items = arc.items
        /\ stored'.size = arc.size /\ stored'.entries = arc.entries
    BY <1>1, <1>2 DEF ArchiveFile
  <2>2. QED
    BY <2>1, ArcWellFormed DEF WellFormed
<1>4. fds' = {}
  BY <1>1 DEF CreateInv, Descriptors
<1>5. CreateTypeOK'
  BY <1>1, <1>2, <1>3, <1>4 DEF CreateInv, CreateTypeOK
<1>6. Positions' /\ Written' /\ Progress' /\ Descriptors'
  BY <1>1, <1>2, <1>4 DEF CreateInv, Positions, Written, Progress, Descriptors
<1>7. Outcome'
  <2>1. PathTaken(Target.coll)' <=> PathTaken(Target.coll)
    BY <1>2 DEF PathTaken
  <2>2. QED
    BY <1>1, <1>2, <2>1 DEF CreateInv, Outcome
<1>8. QED
  BY <1>2, <1>3, <1>5, <1>6, <1>7 DEF CreateInv

\* It fails, and nobody is told.
LEMMA FreeFailsStep == ASSUME CreateInv, FreeFails PROVE CreateInv'
<1>1. /\ pc = "free" /\ pc' = "done" /\ stored' \in Cut(arc)
      /\ \/ fatal /\ faults' = faults /\ fds' = fds
         \/ ~fatal /\ faults' = faults + 1 /\ fds' = fds \ {"archive"}
      /\ UNCHANGED <<catalogVars, walkVars>> /\ UNCHANGED <<status, arc, idx, src, off, fatal>>
  BY DEF FreeFails, Fault
<1>2. /\ ListingInv' /\ WalkTypeOK' /\ UNCHANGED <<collOf, edits, stack, list, dataSize>>
      /\ arc \in ArchiveFile /\ faults \in Nat
  BY <1>1, ConstructKeeps
<1>3. stored' \in ArchiveFile /\ WellFormed(stored')
  BY <1>1, <1>2, ArcWellFormed, CutWellFormed
<1>4. fds' = {} \/ (fatal /\ fds' = {"archive"})
  BY <1>1 DEF CreateInv, Descriptors
<1>5. CreateTypeOK'
  BY <1>1, <1>2, <1>3, <1>4 DEF CreateInv, CreateTypeOK
<1>6. Positions' /\ Written' /\ Progress' /\ Descriptors'
  BY <1>1, <1>2, <1>4 DEF CreateInv, Positions, Written, Progress, Descriptors
<1>7. faults' # 0
  BY <1>1, <1>2 DEF CreateInv, Outcome
<1>8. Outcome'
  BY <1>1, <1>7 DEF Outcome
<1>9. QED
  BY <1>2, <1>3, <1>5, <1>6, <1>8 DEF CreateInv

-----------------------------------------------------------------------------
(* The theorems.                                                           *)

\* Every step preserves the invariant.
LEMMA CreateInvNext == CreateInv /\ [CreateNext]_vars => CreateInv'
<1> SUFFICES ASSUME CreateInv, [CreateNext]_vars PROVE CreateInv'
  OBVIOUS
<1>1. CASE InvalidInput \/ collIDFails \/ createFails
  BY <1>1, RefusedStep
<1>2. CASE collID \/ create \/ Walk
  BY <1>2, collIDStep, createStep, WalkingStep
<1>3. CASE WriteIndex \/ AppendFails \/ WriteHeader
  BY <1>3, WriteIndexStep, AppendFailsStep, WriteHeaderStep
<1>4. CASE OpenObj \/ OpenObjFails \/ CopyChunk \/ ReadFails \/ CopyDone
  BY <1>4, OpenObjStep, OpenObjFailsStep, CopyChunkStep, ReadFailsStep, CopyDoneStep
<1>5. CASE AllItemsWritten \/ Free \/ FreeFails
  BY <1>5, AllItemsWrittenStep, FreeStep, FreeFailsStep
<1>6. CASE pc # "done" /\ CatalogEdit /\ UNCHANGED <<walkVars, faults, createVars>>
  BY <1>6, EditStep
<1>7. CASE UNCHANGED vars
  <2>1. /\ UNCHANGED <<catalogVars, walkVars>> /\ faults' = faults
        /\ UNCHANGED <<pc, status, arc, stored, idx, src, off, fds, fatal>>
    BY <1>7 DEF vars, createVars
  <2>2. ListingInv' /\ WalkTypeOK' /\ UNCHANGED <<collOf, edits, stack, list, dataSize>>
    BY <2>1, ConstructKeeps
  <2>3. CreateTypeOK' /\ WellFormed(stored)'
    BY <2>1, <2>2 DEF CreateInv, CreateTypeOK
  <2>4. Positions' /\ Written' /\ Progress' /\ Descriptors'
    BY <2>1, <2>2 DEF CreateInv, Positions, Written, Progress, Descriptors
  <2>5. Outcome'
    BY <2>1, <2>2 DEF CreateInv, Outcome, PathTaken
  <2>6. QED
    BY <2>2, <2>3, <2>4, <2>5 DEF CreateInv
<1>8. QED
  BY <1>1, <1>2, <1>3, <1>4, <1>5, <1>6, <1>7 DEF CreateNext, CreateStep, Construct, Returned

\* The invariant holds throughout, whatever fails and whatever others do.
THEOREM CreateInvariance == CreateSpec => []CreateInv
BY CreateInvInit, CreateInvNext, PTL DEF CreateSpec

\* Type correctness of msiArchiveCreate.
THEOREM CreateTypeCorrect == CreateSpec => []CreateTypeOK
<1>1. CreateInv => CreateTypeOK
  BY DEF CreateInv
<1>2. QED
  BY <1>1, CreateInvariance, PTL

\* However msiArchiveCreate ends, the archive object can be read by position.
THEOREM ArchiveIsReadable == CreateSpec => []StoredWellFormed
<1>1. CreateInv => StoredWellFormed
  BY DEF CreateInv, StoredWellFormed
<1>2. QED
  BY <1>1, CreateInvariance, PTL

\* msiArchiveCreate returns with no data object open, and with the archive
\* closed unless libarchive gave up on it.
THEOREM NothingStaysOpen == CreateSpec => []DescriptorsClosed
<1>1. CreateInv => DescriptorsClosed
  BY DEF CreateInv, Descriptors, DescriptorsClosed
<1>2. QED
  BY <1>1, CreateInvariance, PTL

\* When no call failed, status 0 means that the archive is complete; when no
\* agent interfered either, that every data object was copied in full.
THEOREM SuccessMeansComplete == CreateSpec => []SuccessIsComplete
<1>1. ASSUME CreateInv, pc = "done", status = "ok", faults = 0
      PROVE  /\ Complete(stored)
             /\ edits = 0 => \A k \in 1..Len(stored.entries) :
                                stored.entries[k].got = stored.items[k].size
  <2>1. /\ stored = [arc EXCEPT !.whole = TRUE]
        /\ arc.form = "indexed" /\ idx = Len(list) /\ Len(arc.entries) = Len(list)
    BY <1>1 DEF CreateInv, Outcome
  <2>2. arc \in ArchiveFile /\ arc.items = list
    BY <1>1, <2>1 DEF CreateInv, CreateTypeOK, Written
  <2>3. /\ stored.form = arc.form /\ stored.items = arc.items
        /\ stored.entries = arc.entries /\ stored.whole = TRUE
    BY <2>1, <2>2 DEF ArchiveFile
  <2>4. list \in Seq(SoundItem)
    BY <1>1 DEF CreateInv, ListingInv
  <2>5. Len(list) \in Nat
    BY <2>4
  <2>6. edits = 0 => \A k \in 1..Len(arc.entries) : arc.entries[k].got = arc.items[k].size
    BY <1>1, <2>1, <2>5 DEF CreateInv, Progress
  <2>7. Complete(stored)
    BY <2>1, <2>2, <2>3 DEF Complete
  <2>8. QED
    BY <2>3, <2>6, <2>7
<1>2. CreateInv => SuccessIsComplete
  BY <1>1 DEF SuccessIsComplete
<1>3. QED
  BY <1>2, CreateInvariance, PTL

\* When nothing fails and nobody interferes, what the walk lists can be opened
\* and archived.
THEOREM QuietRunsSucceed == CreateSpec => []QuietRunSucceeds
<1>1. CreateInv => QuietRunSucceeds
  BY DEF CreateInv, Outcome, QuietRunSucceeds
<1>2. QED
  BY <1>1, CreateInvariance, PTL
-----------------------------------------------------------------------------
(* msiArchiveCreate implements ArchiveLog.                                 *)

\* Where the phases of ArchiveLog are.
LEMMA Phases ==
    /\ pc \in {"start", "create"} => LogPhase = "idle"
    /\ pc = "walk" => LogPhase = "indexing"
    /\ pc \in {"item", "open", "read"} => LogPhase = "logging"
    /\ pc = "free" => LogPhase = IF arc.form = "indexed" THEN "logging" ELSE "indexing"
    /\ pc = "done" => LogPhase = "closed"
BY DEF LogPhase

\* The same of the next state.
LEMMA PhasesNext ==
    /\ pc' \in {"start", "create"} => LogPhase' = "idle"
    /\ pc' = "walk" => LogPhase' = "indexing"
    /\ pc' \in {"item", "open", "read"} => LogPhase' = "logging"
    /\ pc' = "free" => LogPhase' = IF arc'.form = "indexed" THEN "logging" ELSE "indexing"
    /\ pc' = "done" => LogPhase' = "closed"
BY DEF LogPhase

\* The call begins in an initial state of ArchiveLog.
LEMMA LogInitMaps == CreateInit => Log!LogInit
<1> SUFFICES ASSUME CreateInit PROVE Log!LogInit
  OBVIOUS
<1>1. LogPhase = "idle"
  BY Phases DEF CreateInit
<1>2. arc.entries = <<>>
  BY DEF CreateInit, NoIndex
<1>3. QED
  BY <1>1, <1>2 DEF Log!LogInit, Log!NoIndex, NoIndex, CreateInit

\* Sound items are items of the log.
LEMMA SoundLogged ==
    ASSUME NEW e \in SoundItem, e.type = "coll" => e.coll # Root
    PROVE  e \in LogItems
<1>1. e \in Item
  BY DEF SoundItem
<1>2. e.type \in {"coll", "dataObj"} /\ e.coll \in Coll
  BY <1>1 DEF Item
<1>3. CASE e.type = "coll"
  BY <1>2, <1>3 DEF SoundItem, LogItems
<1>4. CASE e.type = "dataObj"
  <2>1. e = DataItem(e.coll, e.base, e.size)
    BY <1>1, <1>4 DEF DataItem, Item
  <2>2. e.base \in Base /\ e.size \in Size
    BY <1>4 DEF SoundItem
  <2>3. QED
    BY <1>2, <2>1, <2>2 DEF LogItems
<1>5. QED
  BY <1>2, <1>3, <1>4

\* A step that the log does not see.
LEMMA Unseen ==
    ASSUME LogPhase' = LogPhase, UNCHANGED <<list, dataSize, stored>>, arc'.entries = arc.entries
    PROVE  UNCHANGED Log!logVars
BY DEF Log!logVars

\* Before construct(): the caller is turned away, or the archive is opened.
LEMMA LogBegins ==
    ASSUME CreateInv, InvalidInput \/ collID \/ collIDFails \/ create \/ createFails
    PROVE  [Log!LogNextState]_(Log!logVars)
<1>1. CASE InvalidInput \/ collIDFails \/ createFails
  <2>1. /\ pc \in {"start", "create"} /\ pc' = "done"
        /\ UNCHANGED <<stored, arc>> /\ UNCHANGED walkVars
    BY <1>1 DEF InvalidInput, collIDFails, createFails, Return
  <2>2. LogPhase = "idle" /\ LogPhase' = "closed"
    BY <2>1, Phases, PhasesNext
  <2>3. Log!GiveUp
    BY <2>1, <2>2 DEF Log!GiveUp, walkVars
  <2>4. QED
    BY <2>3 DEF Log!LogNextState
<1>2. CASE collID
  <2>1. pc = "start" /\ pc' = "create" /\ UNCHANGED <<stored, arc>> /\ UNCHANGED walkVars
    BY <1>2 DEF collID
  <2>2. LogPhase = "idle" /\ LogPhase' = "idle"
    BY <2>1, Phases, PhasesNext
  <2>3. QED
    BY <2>1, <2>2, Unseen DEF walkVars
<1>3. CASE create
  <2>1. /\ pc = "create" /\ pc' = "walk" /\ stored' = NoIndex("bare")
        /\ UNCHANGED <<list, dataSize, arc>>
    BY <1>3 DEF create
  <2>2. LogPhase = "idle" /\ LogPhase' = "indexing"
    BY <2>1, Phases, PhasesNext
  <2>3. Log!Start
    BY <2>1, <2>2 DEF Log!Start, Log!NoIndex, NoIndex
  <2>4. QED
    BY <2>3 DEF Log!LogNextState
<1>4. QED
  BY <1>1, <1>2, <1>3

\* The walk lists items.
LEMMA LogLists == ASSUME CreateInv, Walk PROVE [Log!LogNextState]_(Log!logVars)
<1>1. pc = "walk" /\ WalkStep /\ UNCHANGED <<pc, arc, stored>>
  BY DEF Walk, createVars
<1>2. LogPhase = "indexing" /\ LogPhase' = "indexing"
  BY <1>1, Phases, PhasesNext
<1>3. CASE UNCHANGED <<list, dataSize>>
  BY <1>1, <1>2, <1>3, Unseen
<1>4. CASE ~UNCHANGED <<list, dataSize>>
  <2>1. PICK e \in SoundItem :
          /\ Known(list, Holder(e))
          /\ e.type = "coll" => e.coll # Root
          /\ list' = Append(list, e)
          /\ dataSize' = dataSize + (IF e.type = "dataObj" THEN BlockCeil(e.size) ELSE 0)
    BY <1>1, <1>4, WalkLists DEF CreateInv
  <2>2. e \in LogItems
    BY <2>1, SoundLogged
  <2>3. Holder(e) = Root \/ ListedIn(list, Len(list), Holder(e))
    BY <2>1 DEF Known
  <2>4. Log!List
    BY <1>1, <1>2, <2>1, <2>2, <2>3
       DEF Log!List, Log!Holder, Holder, Log!ListedIn, ListedIn, Log!BlockCeil, BlockCeil
  <2>5. QED
    BY <2>4 DEF Log!LogNextState
<1>5. QED
  BY <1>3, <1>4

\* The header of the next item continues the log.
LEMMA LogNextMaps ==
    ASSUME CreateInv, pc = "item", idx < Len(list), UNCHANGED <<stack, list, dataSize, stored>>,
           arc' = [arc EXCEPT !.entries = Append(@, HeaderOf(list[idx + 1]))],
           LogPhase' = "logging"
    PROVE  Log!LogNext
<1>1. arc \in ArchiveFile /\ Len(arc.entries) = idx
  BY DEF CreateInv, CreateTypeOK, Progress
<1>2. arc'.entries = Append(arc.entries, [item |-> list[Len(arc.entries) + 1], got |-> 0])
  BY <1>1 DEF ArchiveFile, HeaderOf
<1>3. LogPhase = "logging"
  BY Phases
<1>4. QED
  BY <1>1, <1>2, <1>3 DEF Log!LogNext

\* construct() seals the index and logs the items.
LEMMA LogGrows ==
    ASSUME CreateInv, WriteIndex \/ AppendFails \/ WriteHeader
    PROVE  [Log!LogNextState]_(Log!logVars)
<1>1. CASE WriteIndex
  <2>1. /\ pc = "walk" /\ pc' = "item" /\ UNCHANGED walkVars /\ stored' = stored
        /\ arc' = [arc EXCEPT !.form = "indexed", !.items = list, !.size = dataSize]
    BY <1>1 DEF WriteIndex
  <2>2. arc'.entries = arc.entries
    BY <2>1 DEF CreateInv, CreateTypeOK, ArchiveFile
  <2>3. LogPhase = "indexing" /\ LogPhase' = "logging"
    BY <2>1, Phases, PhasesNext
  <2>4. Log!Seal
    BY <2>1, <2>2, <2>3 DEF Log!Seal, walkVars
  <2>5. QED
    BY <2>4 DEF Log!LogNextState
<1>2. CASE WriteHeader
  <2>1. /\ pc = "item" /\ idx < Len(list) /\ pc' \in {"item", "open"}
        /\ arc' = [arc EXCEPT !.entries = Append(@, HeaderOf(list[idx + 1]))]
        /\ stored' = stored /\ UNCHANGED <<stack, list, dataSize>>
    BY <1>2 DEF WriteHeader, walkVars
  <2>2. LogPhase' = "logging"
    BY <2>1, PhasesNext
  <2>3. Log!LogNext
    BY <2>1, <2>2, LogNextMaps
  <2>4. QED
    BY <2>3 DEF Log!LogNextState
<1>3. CASE AppendFails
  <2>1. /\ pc' = "free" /\ stored' = stored /\ UNCHANGED <<stack, list, dataSize>>
        /\ pc \in {"walk", "item", "read"}
        /\ \/ arc' = arc
           \/ /\ pc = "item" /\ idx < Len(list)
              /\ arc' = [arc EXCEPT !.entries = Append(@, HeaderOf(list[idx + 1]))]
    BY <1>3 DEF AppendFails, Abandon, walkVars
  <2>2. CASE arc' = arc
    <3>1. LogPhase' = LogPhase
      <4>1. CASE pc = "walk"
        <5>1. arc.form = "bare"
          BY <4>1, NoIndexOK DEF CreateInv, Positions
        <5>2. QED
          BY <2>1, <2>2, <4>1, <5>1, Phases, PhasesNext
      <4>2. CASE pc \in {"item", "read"}
        <5>1. arc.form = "indexed"
          BY <4>2 DEF CreateInv, Positions
        <5>2. QED
          BY <2>1, <2>2, <4>2, <5>1, Phases, PhasesNext
      <4>3. QED
        BY <2>1, <4>1, <4>2
    <3>2. QED
      BY <2>1, <2>2, <3>1, Unseen
  <2>3. CASE /\ pc = "item" /\ idx < Len(list)
             /\ arc' = [arc EXCEPT !.entries = Append(@, HeaderOf(list[idx + 1]))]
    <3>1. arc'.form = "indexed"
      BY <2>1, <2>3, HeaderWritten
    <3>2. LogPhase' = "logging"
      BY <2>1, <3>1, PhasesNext
    <3>3. Log!LogNext
      BY <2>1, <2>3, <3>2, LogNextMaps
    <3>4. QED
      BY <3>3 DEF Log!LogNextState
  <2>4. QED
    BY <2>1, <2>2, <2>3
<1>4. QED
  BY <1>1, <1>2, <1>3

\* The data of an item fills its entry.
LEMMA LogFills ==
    ASSUME CreateInv, OpenObj \/ OpenObjFails \/ CopyChunk \/ ReadFails \/ CopyDone
    PROVE  [Log!LogNextState]_(Log!logVars)
<1>1. CASE OpenObj \/ OpenObjFails \/ ReadFails \/ CopyDone
  <2>1. /\ pc \in {"open", "read"} /\ pc' \in {"read", "free", "item"}
        /\ UNCHANGED <<arc, stored>> /\ UNCHANGED walkVars
    BY <1>1 DEF OpenObj, OpenObjFails, ReadFails, CopyDone, Abandon
  <2>2. arc.form = "indexed"
    BY <2>1 DEF CreateInv, Positions
  <2>3. LogPhase = "logging" /\ LogPhase' = "logging"
    BY <2>1, <2>2, Phases, PhasesNext
  <2>4. QED
    BY <2>1, <2>3, Unseen DEF walkVars
<1>2. CASE CopyChunk
  <2> DEFINE s == list[idx + 1].size
             n == AtMost(off', s)
             es == arc.entries
  <2>1. /\ off' \in 0..src /\ off <= off'
        /\ Len(es) = idx + 1 /\ idx \in Nat
        /\ s \in Nat /\ es[idx + 1].got = AtMost(off, s)
        /\ es \in Seq(Entry)
        /\ arc'.entries = [es EXCEPT ![idx + 1].got = n]
    BY <1>2, ChunkCopied
  <2>2. /\ pc = "read" /\ pc' = "read" /\ stored' = stored
        /\ UNCHANGED <<list, dataSize>>
    BY <1>2 DEF CopyChunk, walkVars
  <2>3. LogPhase = "logging" /\ LogPhase' = "logging"
    BY <2>2, Phases, PhasesNext
  <2>4. off \in Nat /\ off' \in Nat
    <3>1. src \in Nat /\ off \in 0..src
      BY DEF CreateInv, CreateTypeOK
    <3>2. QED
      BY <2>1, <3>1
  <2>5. n \in Nat /\ es[idx + 1].got <= n /\ n <= s
    BY <2>1, <2>4 DEF AtMost
  <2>6. es[idx + 1].got \in Nat
    BY <2>1, <2>4 DEF AtMost
  <2>7. es # <<>>
    BY <2>1
  <2> HIDE DEF n
  <2>8. CASE n = es[idx + 1].got
    <3>1. es[idx + 1] \in Entry
      BY <2>1
    <3>2. [es[idx + 1] EXCEPT !.got = n] = es[idx + 1]
      BY <2>8, <3>1 DEF Entry
    <3>3. arc'.entries = [es EXCEPT ![idx + 1] = es[idx + 1]]
      BY <2>1, <3>2
    <3>4. arc'.entries = es
      BY <2>1, <3>3
    <3>5. QED
      BY <2>2, <2>3, <3>4, Unseen
  <2>9. CASE n # es[idx + 1].got
    <3>1. n \in (es[Len(es)].got + 1)..list[Len(es)].size
      BY <2>1, <2>5, <2>6, <2>9
    <3>2. arc'.entries = [es EXCEPT ![Len(es)].got = n]
      BY <2>1
    <3>3. Log!Fill
      BY <2>2, <2>3, <2>7, <3>1, <3>2 DEF Log!Fill
    <3>4. QED
      BY <3>3 DEF Log!LogNextState
  <2>10. QED
    BY <2>8, <2>9
<1>3. QED
  BY <1>1, <1>2

\* What is stored is what was logged, or a first part of it.
LEMMA LogEnds ==
    ASSUME CreateInv, AllItemsWritten \/ Free \/ FreeFails
    PROVE  [Log!LogNextState]_(Log!logVars)
<1>1. CASE AllItemsWritten
  <2>1. pc = "item" /\ pc' = "free" /\ UNCHANGED <<arc, stored>> /\ UNCHANGED walkVars
    BY <1>1 DEF AllItemsWritten
  <2>2. arc.form = "indexed"
    BY <2>1 DEF CreateInv, Positions
  <2>3. LogPhase = "logging" /\ LogPhase' = "logging"
    BY <2>1, <2>2, Phases, PhasesNext
  <2>4. QED
    BY <2>1, <2>3, Unseen DEF walkVars
<1>2. CASE Free \/ FreeFails
  <2>1. /\ pc = "free" /\ pc' = "done" /\ arc' = arc /\ UNCHANGED <<list, dataSize>>
        /\ stored' = [arc EXCEPT !.whole = TRUE] \/ stored' \in Cut(arc)
    BY <1>2 DEF Free, FreeFails, walkVars
  <2>2. arc \in ArchiveFile /\ arc.form \in {"bare", "indexed"} /\ arc.whole = FALSE
    <3>1. arc \in ArchiveFile /\ arc.form \in {"bare", "indexed"} /\ ~arc.whole
      BY DEF CreateInv, CreateTypeOK, Written
    <3>2. arc.whole \in BOOLEAN
      BY <3>1 DEF ArchiveFile
    <3>3. QED
      BY <3>1, <3>2
  <2>3. LogPhase' = "closed"
    BY <2>1, PhasesNext
  <2>4. CASE arc.form = "bare"
    <3>1. LogPhase = "indexing" /\ arc = NoIndex("bare")
      BY <2>1, <2>4, Phases DEF CreateInv, Written
    <3>2. \A n \in 0..Len(arc.entries) : SubSeq(arc.entries, 1, n) = <<>>
      BY <3>1 DEF NoIndex
    <3>3. \A n \in 0..Len(arc.entries) :
            [arc EXCEPT !.entries = SubSeq(arc.entries, 1, n)] = NoIndex("bare")
      BY <3>1, <3>2 DEF NoIndex
    <3>4. stored' = NoIndex("bare") \/ stored' = [NoIndex("bare") EXCEPT !.whole = TRUE]
      BY <2>1, <3>1, <3>3 DEF Cut
    <3>5. stored' \in Log!CutLogs(FALSE) \/ stored' = [Log!NoIndex("bare") EXCEPT !.whole = TRUE]
      BY <3>4 DEF Log!CutLogs, Log!NoIndex, NoIndex
    <3>6. Log!Keep
      BY <2>1, <2>3, <3>1, <3>5 DEF Log!Keep
    <3>7. QED
      BY <3>6 DEF Log!LogNextState
  <2>5. CASE arc.form = "indexed"
    <3>1. LogPhase = "logging" /\ arc.items = list /\ arc.size = dataSize
      BY <2>1, <2>5, Phases DEF CreateInv, Written
    <3>2. [arc EXCEPT !.whole = TRUE] =
            [form |-> "indexed", items |-> list, size |-> dataSize,
             entries |-> arc.entries, whole |-> TRUE]
      <4> DEFINE f == [arc EXCEPT !.whole = TRUE]
      <4>1. /\ f \in ArchiveFile /\ f.form = "indexed" /\ f.items = list /\ f.size = dataSize
            /\ f.entries = arc.entries /\ f.whole = TRUE
        BY <2>2, <2>5, <3>1 DEF ArchiveFile
      <4> HIDE DEF f
      <4>2. f = [form |-> f.form, items |-> f.items, size |-> f.size,
                 entries |-> f.entries, whole |-> f.whole]
        BY <4>1 DEF ArchiveFile
      <4>3. QED
        BY <4>1, <4>2, Zenon DEF f
    <3>3. ASSUME NEW p \in Seq(Entry)
          PROVE  [arc EXCEPT !.entries = p] =
                   [form |-> "indexed", items |-> list, size |-> dataSize,
                    entries |-> p, whole |-> FALSE]
      <4> DEFINE f == [arc EXCEPT !.entries = p]
      <4>1. /\ f \in ArchiveFile /\ f.form = "indexed" /\ f.items = list /\ f.size = dataSize
            /\ f.entries = p /\ f.whole = arc.whole
        BY <2>2, <2>5, <3>1 DEF ArchiveFile
      <4> HIDE DEF f
      <4>2. f = [form |-> f.form, items |-> f.items, size |-> f.size,
                 entries |-> f.entries, whole |-> f.whole]
        BY <4>1 DEF ArchiveFile
      <4>3. f.whole = FALSE
        BY <2>2, <4>1, Zenon
      <4>4. QED
        BY <4>1, <4>2, <4>3, Zenon DEF f
    <3>4. \/ stored' \in Log!CutLogs(TRUE)
          \/ stored' = [form |-> "indexed", items |-> list, size |-> dataSize,
                        entries |-> arc.entries, whole |-> TRUE]
      <4>1. CASE stored' = [arc EXCEPT !.whole = TRUE]
        BY <3>2, <4>1
      <4>2. CASE stored' = NoIndex("bare")
        BY <4>2 DEF Log!CutLogs, Log!NoIndex, NoIndex
      <4>3. CASE \E n \in 0..Len(arc.entries) :
                   stored' = [arc EXCEPT !.entries = SubSeq(arc.entries, 1, n)]
        <5>1. PICK n \in 0..Len(arc.entries) :
                 stored' = [arc EXCEPT !.entries = SubSeq(arc.entries, 1, n)]
          BY <4>3
        <5>2. arc.entries \in Seq(Entry)
          BY <2>2 DEF ArchiveFile
        <5>3. SubSeq(arc.entries, 1, n) \in Seq(Entry)
          BY <5>2
        <5>4. stored' = [form |-> "indexed", items |-> list, size |-> dataSize,
                         entries |-> SubSeq(arc.entries, 1, n), whole |-> FALSE]
          BY <3>3, <5>1, <5>3
        <5>5. QED
          BY <5>4 DEF Log!CutLogs
      <4>4. QED
        BY <2>1, <4>1, <4>2, <4>3 DEF Cut
    <3>5. Log!Keep
      BY <2>1, <2>3, <3>1, <3>4 DEF Log!Keep
    <3>6. QED
      BY <3>5 DEF Log!LogNextState
  <2>6. QED
    BY <2>2, <2>4, <2>5
<1>3. QED
  BY <1>1, <1>2

\* Every step of msiArchiveCreate is a step of the log, or is not seen by it.
LEMMA StepLogs == CreateInv /\ [CreateNext]_vars => [Log!LogNextState]_(Log!logVars)
<1> SUFFICES ASSUME CreateInv, [CreateNext]_vars PROVE [Log!LogNextState]_(Log!logVars)
  OBVIOUS
<1>1. CASE InvalidInput \/ collID \/ collIDFails \/ create \/ createFails
  BY <1>1, LogBegins
<1>2. CASE Walk
  BY <1>2, LogLists
<1>3. CASE WriteIndex \/ AppendFails \/ WriteHeader
  BY <1>3, LogGrows
<1>4. CASE OpenObj \/ OpenObjFails \/ CopyChunk \/ ReadFails \/ CopyDone
  BY <1>4, LogFills
<1>5. CASE AllItemsWritten \/ Free \/ FreeFails
  BY <1>5, LogEnds
<1>6. CASE UNCHANGED <<walkVars, createVars>>
  <2>1. UNCHANGED <<pc, arc, stored, list, dataSize>>
    BY <1>6 DEF walkVars, createVars
  <2>2. LogPhase' = LogPhase
    BY <2>1 DEF LogPhase
  <2>3. QED
    BY <2>1, <2>2, Unseen
<1>7. CASE UNCHANGED vars
  BY <1>6, <1>7 DEF vars
<1>8. QED
  BY <1>1, <1>2, <1>3, <1>4, <1>5, <1>6, <1>7 DEF CreateNext, CreateStep, Construct, Returned

\* msiArchiveCreate does nothing but list items holders first, log them in the
\* order of the index and keep the log or a first part of it; what it refuses
\* leaves an earlier archive as it was.
THEOREM CreateImplementsLog == CreateSpec => ImplementsLog
<1>1. CreateInit => Log!LogInit
  BY LogInitMaps
<1>2. CreateInv /\ [CreateNext]_vars => [Log!LogNextState]_(Log!logVars)
  BY StepLogs
<1>3. QED
  BY <1>1, <1>2, CreateInvariance, PTL DEF CreateSpec, ImplementsLog, Log!LogSpec
=============================================================================
