------------------------------ MODULE Catalog ------------------------------
(***************************************************************************)
(* The part of the iRODS catalog that msiArchiveCreate queries, and what   *)
(* other agents may do to it while the microservice runs.  External: it is *)
(* modelled from the queries and opens in src/msiArchiveCreate.cc and      *)
(* src/Archive.hh.                                                         *)
(*                                                                         *)
(* A collection has an id that is never reused and a path that a rename    *)
(* changes; data objects belong to a collection id.  A data object is the  *)
(* set of its replicas; it exists when that set is not empty.              *)
(***************************************************************************)
EXTENDS ArchiveItems, FiniteSets

CONSTANTS
    NoColl,        \* "path" of an id that names no collection
    CollId,        \* collection ids
    RootId,        \* the id of Root
    Size,          \* sizes of data objects
    Stamp,         \* modification times
    InitCatalogs,  \* the catalogs a run starts from
    MaxEdits       \* bound: how many times other agents change the catalog

Replica == [good : BOOLEAN, size : Size, mtime : Stamp]

ASSUME CatalogAssumption ==
    /\ NoColl \notin Coll
    /\ RootId \in CollId
    /\ Size \subseteq Nat
    /\ Stamp \subseteq Nat
    /\ MaxEdits \in Nat
    /\ InitCatalogs \subseteq
          [collOf : [CollId -> Coll \cup {NoColl}],
           repl   : [CollId -> [Base -> SUBSET Replica]],
           unused : SUBSET CollId]
    /\ \A k \in InitCatalogs :
          \* a path has one id
          /\ \A i, j \in CollId : (k.collOf[i] = k.collOf[j] /\ k.collOf[i] # NoColl) => i = j
          \* good replicas of a data object are copies of each other
          /\ \A id \in CollId, b \in Base : \A q, r \in k.repl[id][b] :
                (q.good /\ r.good) => q.size = r.size

\* The catalogs a run starts from are trees: only RootId has the path Root, a
\* collection lies in another one, and a data object lies in a collection.
ASSUME CatalogTreeAssumption ==
    \A k \in InitCatalogs : \A id \in CollId :
        /\ k.collOf[id] = Root <=> (id = RootId /\ k.collOf[id] # NoColl)
        /\ k.collOf[id] \in Coll \ {Root} =>
               \E p \in CollId : k.collOf[p] = ParentOf[k.collOf[id]]
        /\ k.collOf[id] = NoColl => \A b \in Base : k.repl[id][b] = {}

VARIABLES
    collOf,  \* the path of every collection id
    repl,    \* the replicas of every data object, by collection id and name
    unused,  \* ids that were never given to a collection
    edits    \* number of changes made by other agents so far

catalogVars == <<collOf, repl, unused, edits>>

GoodReplicas(id, b) == {r \in repl[id][b] : r.good}
PathTaken(c) == \E id \in CollId : collOf[id] = c
Leaf(id) == \A k \in CollId :
    collOf[k] \in Coll \ {Root} => ParentOf[collOf[k]] # collOf[id]

CatalogInit ==
    /\ \E k \in InitCatalogs :
          /\ collOf = k.collOf
          /\ repl = k.repl
          /\ unused = k.unused
    /\ edits = 0

-----------------------------------------------------------------------------
(* What other agents do.  Edit counts the step against MaxEdits.           *)

Edit == edits < MaxEdits /\ edits' = edits + 1

\* A data object is created or overwritten: the written replica is good, the
\* other replicas become stale.
PutObj(id, b) ==
    /\ Edit
    /\ collOf[id] # NoColl
    /\ \E s \in Size, t \in Stamp :
          repl' = [repl EXCEPT ![id][b] =
              {[good |-> TRUE, size |-> s, mtime |-> t]}
                 \cup {[r EXCEPT !.good = FALSE] : r \in @}]
    /\ UNCHANGED <<collOf, unused>>

\* A good replica is copied to another resource, with a time of its own.
ReplicateObj(id, b) ==
    /\ Edit
    /\ \E r \in GoodReplicas(id, b), t \in Stamp :
          repl' = [repl EXCEPT ![id][b] = @ \cup {[r EXCEPT !.mtime = t]}]
    /\ UNCHANGED <<collOf, unused>>

RmObj(id, b) ==
    /\ Edit
    /\ repl[id][b] # {}
    /\ repl' = [repl EXCEPT ![id][b] = {}]
    /\ UNCHANGED <<collOf, unused>>

MkColl(id, c) ==
    /\ Edit
    /\ id \in unused /\ collOf[id] = NoColl
    /\ c # Root /\ ~PathTaken(c) /\ PathTaken(ParentOf[c])
    /\ collOf' = [collOf EXCEPT ![id] = c]
    /\ unused' = unused \ {id}
    /\ UNCHANGED repl

\* Only an empty collection is removed; only one without sub-collections is
\* renamed (bounds: a recursive remove is several steps, a rename of a larger
\* tree would move several paths at once).
RmColl(id) ==
    /\ Edit
    /\ id # RootId /\ collOf[id] # NoColl /\ Leaf(id)
    /\ \A b \in Base : repl[id][b] = {}
    /\ collOf' = [collOf EXCEPT ![id] = NoColl]
    /\ UNCHANGED <<repl, unused>>

MvColl(id, c) ==
    /\ Edit
    /\ id # RootId /\ collOf[id] # NoColl /\ Leaf(id)
    /\ c # Root /\ ~PathTaken(c)
    /\ \E k \in CollId \ {id} : collOf[k] = ParentOf[c]
    /\ collOf' = [collOf EXCEPT ![id] = c]
    /\ UNCHANGED <<repl, unused>>

CatalogEdit ==
    \E id \in CollId :
        \/ \E b \in Base : PutObj(id, b) \/ ReplicateObj(id, b) \/ RmObj(id, b)
        \/ \E c \in Coll \ {Root} : MkColl(id, c) \/ MvColl(id, c)
        \/ RmColl(id)
=============================================================================
