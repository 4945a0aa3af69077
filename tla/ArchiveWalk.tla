---------------------------- MODULE ArchiveWalk ----------------------------
(***************************************************************************)
(* How msiArchiveCreate collects the index of an archive: dirColl walks    *)
(* the collection tree, dirDataObj lists the data objects of one           *)
(* collection (src/msiArchiveCreate.cc), and addColl and addDataObj append *)
(* what they are given to the list of items (src/Archive.hh).              *)
(*                                                                         *)
(* Every rsGenQuery call is one step, so other agents change the catalog   *)
(* between any two calls.  A query sees the catalog as it is at its first  *)
(* call; later calls return further pages of that result.  A call that     *)
(* returns a full page leaves a statement open on the server.              *)
(*                                                                         *)
(* The recursion is a stack of activations, the running one at its head.   *)
(* dirColl calls itself only after its own loop has ended, so its          *)
(* activation is replaced by the calls it makes.                           *)
(***************************************************************************)
EXTENDS Catalog

CONSTANTS
    PageSize,     \* MAX_SQL_ROWS, the rows of a full page
    MaxAvuPages,  \* bound: full pages of attributes or ACLs of one item
    MaxFaults,    \* bound: how many server calls fail
    Target        \* path of the archive: [coll |-> c, base |-> b], with base
                  \* NoBase when it lies outside the archived collection

ASSUME WalkAssumption ==
    /\ PageSize \in Nat \ {0}
    /\ MaxAvuPages \in Nat
    /\ MaxFaults \in Nat
    /\ Target \in [coll : Coll, base : Base \cup {NoBase}]

VARIABLES
    stack,     \* activations of dirColl and dirDataObj, the running one first
    inner,     \* full pages fetched by the running attribute or ACL query
    list,      \* Archive::list
    dataSize,  \* Archive::dataSize
    faults     \* number of failed server calls so far

walkVars == <<stack, inner, list, dataSize>>

\* One row of a dirColl or dirDataObj query.  A replica's modification time is
\* among the selected columns, so replicas that differ in it are two rows.
Row == [coll : Coll, id : CollId, base : Base \cup {NoBase},
        size : Nat, mtime : Nat]

Dir == [coll : Coll, id : CollId]

Frame == [fn    : {"dirColl", "dirDataObj"},
          coll  : Coll,
          id    : CollId,
          phase : {"query", "attr", "acl"},
          page  : SUBSET Row,   \* rows of the current page, not yet handled
          rest  : SUBSET Row,   \* rows the server has not returned yet
          cont  : BOOLEAN,      \* continueInx # 0
          dirs  : Seq(Dir)]     \* std::list of collections to visit

NewFrame(fn, c, id) ==
    [fn |-> fn, coll |-> c, id |-> id, phase |-> "query",
     page |-> {}, rest |-> {}, cont |-> FALSE, dirs |-> <<>>]

\* for (dir : dirs) { dirColl(dir); dirDataObj(dir) }
Calls(dirs) ==
    [i \in 1..(2 * Len(dirs)) |->
        IF i % 2 = 1
        THEN NewFrame("dirColl", dirs[(i + 1) \div 2].coll, dirs[(i + 1) \div 2].id)
        ELSE NewFrame("dirDataObj", dirs[i \div 2].coll, dirs[i \div 2].id)]

\* dirColl(collection); dirDataObj(collection) in msiArchiveCreate.
WalkStart == <<NewFrame("dirColl", Root, RootId),
               NewFrame("dirDataObj", Root, RootId)>>

\* The running activation leaves its query loop.
AfterLoop(f, callers) == Calls(f.dirs) \o callers

-----------------------------------------------------------------------------
(* The two queries.                                                        *)

\* COL_COLL_PARENT_NAME = path
CollRows(c) ==
    {[coll |-> collOf[id], id |-> id, base |-> NoBase, size |-> 0, mtime |-> 0] :
        id \in {k \in CollId : /\ collOf[k] \in Coll \ {Root}
                               /\ ParentOf[collOf[k]] = c}}

\* Slip: no condition on COL_D_REPL_STATUS.
SlipDataRows(c, id) ==
    UNION {{[coll |-> c, id |-> id, base |-> b, size |-> r.size, mtime |-> r.mtime] :
               r \in repl[id][b]} : b \in Base}

\* COL_D_COLL_ID = collId and COL_D_REPL_STATUS = 1.  The item's name is built
\* from the path the collection had when dirColl listed it.
DataRows(c, id) ==
    UNION {{[coll |-> c, id |-> id, base |-> b, size |-> r.size, mtime |-> r.mtime] :
               r \in GoodReplicas(id, b)} : b \in Base}

Rows(f) == IF f.fn = "dirColl" THEN CollRows(f.coll) ELSE DataRows(f.coll, f.id)

\* Slip: continueInx is not copied to the next query.
SlipPending(f) == Rows(f)

\* continueInx # 0 asks for more of the open result, 0 starts the query.
Pending(f) == IF f.cont THEN f.rest ELSE Rows(f)

IsPage(page, rows) ==
    /\ page \subseteq rows
    /\ page # {}
    /\ \/ Cardinality(page) = PageSize
       \/ Cardinality(page) < PageSize /\ page = rows

\* Slip: the loop is left after the first page.
SlipFetched(f, page) ==
    [f EXCEPT !.phase = "attr", !.page = page, !.rest = {}, !.cont = FALSE]

Fetched(f, page) ==
    [f EXCEPT !.phase = "attr",
              !.page = page,
              !.rest = Pending(f) \ page,
              !.cont = (Cardinality(page) = PageSize)]

-----------------------------------------------------------------------------
(* The steps of the walk.                                                  *)

Running(phase) == stack # <<>> /\ Head(stack).phase = phase

\* rsGenQuery in dirColl or dirDataObj returns a page.
FetchPage ==
    /\ Running("query")
    /\ \E page \in SUBSET Pending(Head(stack)) :
          /\ IsPage(page, Pending(Head(stack)))
          /\ stack' = <<Fetched(Head(stack), page)>> \o Tail(stack)
    /\ UNCHANGED <<inner, list, dataSize, faults>>

\* Slip: an answer without rows does not end the loop.
SlipNoMoreRows ==
    /\ Running("query")
    /\ Pending(Head(stack)) = {}
    /\ UNCHANGED <<stack, inner, list, dataSize, faults>>

\* It returns CAT_NO_ROWS_FOUND: the loop ends, the server closes the statement.
NoMoreRows ==
    /\ Running("query")
    /\ Pending(Head(stack)) = {}
    /\ stack' = AfterLoop(Head(stack), Tail(stack))
    /\ UNCHANGED <<inner, list, dataSize, faults>>

\* It returns another error: the loop ends in the same way, without a report.
QueryFails ==
    /\ Running("query")
    /\ faults < MaxFaults
    /\ faults' = faults + 1
    /\ stack' = AfterLoop(Head(stack), Tail(stack))
    /\ UNCHANGED <<inner, list, dataSize>>

\* attrDataObj or attrColl gets a full page of attributes, its loop goes on.
\* (C++ leaves open whether the attributes or the ACLs of a row are asked for
\* first; the two queries have the same shape, the model takes one order.)
AttrPage ==
    /\ Running("attr")
    /\ inner < MaxAvuPages
    /\ inner' = inner + 1
    /\ UNCHANGED <<stack, list, dataSize, faults>>

\* attrDataObj or attrColl returns (last page, no rows, or an error).
AttrDone ==
    /\ Running("attr")
    /\ stack' = <<[Head(stack) EXCEPT !.phase = "acl"]>> \o Tail(stack)
    /\ inner' = 0
    /\ UNCHANGED <<list, dataSize, faults>>

\* aclDataObj or aclColl gets a full page of ACLs.
AclPage ==
    /\ Running("acl")
    /\ inner < MaxAvuPages
    /\ inner' = inner + 1
    /\ UNCHANGED <<stack, list, dataSize, faults>>

\* Slip: collections are put in front of the list.
SlipAddColl(r) ==
    /\ list' = <<CollItem(r.coll)>> \o list
    /\ UNCHANGED dataSize

addColl(r) ==
    /\ list' = Append(list, CollItem(r.coll))
    /\ UNCHANGED dataSize

\* Slip: the name is compared without "origin", so it never is the path.
SlipAddDataObj(r) ==
    /\ list' = Append(list, DataItem(r.coll, r.base, r.size))
    /\ dataSize' = dataSize + BlockCeil(r.size)

\* The archive that is being written is not an item of itself.
addDataObj(r) ==
    IF [coll |-> r.coll, base |-> r.base] # Target
    THEN /\ list' = Append(list, DataItem(r.coll, r.base, r.size))
         /\ dataSize' = dataSize + BlockCeil(r.size)
    ELSE UNCHANGED <<list, dataSize>>

\* The rest of the loop body for row r: dirColl also remembers the collection.
Handled(f, r) ==
    [f EXCEPT !.page = f.page \ {r},
              !.dirs = IF f.fn = "dirColl"
                       THEN Append(f.dirs, [coll |-> r.coll, id |-> r.id])
                       ELSE f.dirs,
              !.phase = IF f.page \ {r} # {} THEN "attr" ELSE "query"]

\* Slip: dirColl visits a collection as soon as it has listed it.
SlipAfterRow(f, r) ==
    (IF f.fn = "dirColl"
     THEN <<NewFrame("dirColl", r.coll, r.id), NewFrame("dirDataObj", r.coll, r.id)>>
     ELSE <<>>)
      \o (IF f.page = {r} /\ ~f.cont THEN <<>> ELSE <<[Handled(f, r) EXCEPT !.dirs = <<>>]>>)
      \o Tail(stack)

\* continueInx = 0 after the last row of a page: break.
AfterRow(f, r) ==
    IF f.page = {r} /\ ~f.cont
    THEN AfterLoop(Handled(f, r), Tail(stack))
    ELSE <<Handled(f, r)>> \o Tail(stack)

\* aclDataObj or aclColl returns and the item is added to the archive.
AddRow ==
    /\ Running("acl")
    /\ \E r \in Head(stack).page :
          /\ IF Head(stack).fn = "dirColl" THEN addColl(r) ELSE addDataObj(r)
          /\ stack' = AfterRow(Head(stack), r)
    /\ inner' = 0
    /\ UNCHANGED faults

WalkStep ==
    \/ FetchPage
    \/ NoMoreRows
    \/ QueryFails
    \/ AttrPage
    \/ AttrDone
    \/ AclPage
    \/ AddRow

WalkInit ==
    /\ CatalogInit
    /\ stack = WalkStart
    /\ inner = 0
    /\ list = <<>>
    /\ dataSize = 0
    /\ faults = 0

-----------------------------------------------------------------------------
(* The walk on its own, between Archive::create and construct().           *)

walkAllVars == <<catalogVars, walkVars, faults>>

\* dirColl and dirDataObj have returned to msiArchiveCreate.
WalkReturned == stack = <<>> /\ UNCHANGED walkAllVars

WalkNext ==
    \/ WalkStep /\ UNCHANGED catalogVars
    \/ CatalogEdit /\ UNCHANGED <<walkVars, faults>>
    \/ WalkReturned

\* The agent keeps executing and every server call returns, so the walk is
\* weakly fair; nothing is assumed about other agents.
WalkSpec ==
    /\ WalkInit
    /\ [][WalkNext]_walkAllVars
    /\ WF_walkAllVars(WalkStep /\ UNCHANGED catalogVars)

-----------------------------------------------------------------------------
(* Properties.                                                             *)

\* Type correctness of the catalog and of the walk; the size of the archive
\* never becomes negative by rounding to blocks.
WalkTypeOK ==
    /\ collOf \in [CollId -> Coll \cup {NoColl}]
    /\ repl \in [CollId -> [Base -> SUBSET Replica]]
    /\ unused \in SUBSET CollId
    /\ edits \in Nat
    /\ stack \in Seq(Frame)
    /\ inner \in Nat
    /\ list \in Seq(Item)
    /\ dataSize \in Nat
    /\ faults \in Nat

\* The query of collID, before the walk, asks for one row.  That row is a full
\* page, and nobody asks for another: the statement stays open.
CollIDStatements == 1

\* Statements open on the server: those of the activations whose last page was
\* full, that of the running attribute or ACL query, and that of collID.
OpenStatements ==
    Cardinality({i \in 1..Len(stack) : stack[i].cont})
      + (IF inner > 0 THEN 1 ELSE 0)
      + CollIDStatements

\* However deep the tree and however many pages its queries take, no more than
\* three statements of msiArchiveCreate are open: "This is done separately so
\* that the maximum number of open queries is not exceeded" (dirColl).
StatementsBounded == OpenStatements <= 3

\* The index lists a collection before anything inside it, whatever other
\* agents do during the walk.  msiArchiveExtract depends on this order: it
\* creates collections and data objects without creating their parents.
HoldersListedFirst == HoldersFirst(list)

\* No collection is listed twice, although pages of a query are fetched over
\* several calls and other agents rename and recreate collections meanwhile.
CollectionsListedOnce ==
    \A i, j \in 1..Len(list) :
        (list[i].type = "coll" /\ list[j] = list[i]) => i = j

\* The rows a complete listing of the tree has, without the archive's own.
AllRows ==
    {r \in UNION ({CollRows(c) : c \in Coll}
                    \cup {DataRows(collOf[id], id) : id \in {k \in CollId : collOf[k] # NoColl}}) :
        r.base = NoBase \/ [coll |-> r.coll, base |-> r.base] # Target}

\* When no other agent interferes and no query fails, the index has exactly
\* one item per collection and per distinct row of a good replica, except for
\* the archive itself: paging loses nothing and repeats nothing.
IndexExact ==
    (stack = <<>> /\ edits = 0 /\ faults = 0) =>
        /\ {list[i] : i \in 1..Len(list)} =
              {IF r.base = NoBase THEN CollItem(r.coll)
                                  ELSE DataItem(r.coll, r.base, r.size) : r \in AllRows}
        /\ Len(list) = Cardinality(AllRows)

\* The walk ends and msiArchiveCreate goes on to construct().
WalkTerminates == <>(stack = <<>>)
=============================================================================
