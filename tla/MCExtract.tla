----------------------------- MODULE MCExtract -----------------------------
(***************************************************************************)
(* Extraction of archives of three indexes over the tree r -- a -- aa, cut *)
(* off after every number of entries, the last entry copied in full or in  *)
(* part; and of objects that are no archive.                               *)
(***************************************************************************)
EXTENDS ArchiveExtract, TLC

CONSTANTS r, a, aa, x, y, none

MCColl == {r, a, aa}
MCParentOf == (a :> r) @@ (aa :> a)

\* As the walk lists them: collections by level, objects at the end; a data
\* object with two good replicas, overwritten between two pages of the walk,
\* is listed twice; an archive without collections.
MCIndexes ==
    {<<CollItem(a), CollItem(aa), DataItem(aa, x, 3), DataItem(a, y, 1), DataItem(r, x, 3)>>,
     <<CollItem(a), DataItem(a, x, 3), DataItem(a, x, 1)>>,
     <<DataItem(r, x, 1), DataItem(r, y, 3)>>}

Copied(item, full) == IF full \/ item.size = 0 THEN item.size ELSE item.size - 1

ArchiveOf(lst, n, full, whole) ==
    [form    |-> "indexed",
     items   |-> lst,
     size    |-> Blocks(lst),
     entries |-> [k \in 1..n |-> [item |-> lst[k], got |-> Copied(lst[k], full \/ k < n)]],
     whole   |-> whole]

\* Archives without an end also arise during a call, by Truncated.
MCArchives ==
    {NoIndex(form) : form \in {"none", "alien", "bare"}} \cup
    UNION {{ArchiveOf(lst, n, full, TRUE) : n \in 0..Len(lst), full \in BOOLEAN} \cup
           {ArchiveOf(lst, Len(lst), FALSE, FALSE)} : lst \in MCIndexes}

MCRewritten ==
    {NoIndex("bare"),
     LET lst == <<CollItem(a), DataItem(a, x, 3), DataItem(a, x, 1)>>
     IN  ArchiveOf(lst, Len(lst), TRUE, TRUE)}

\* Nothing, or an older and longer version of one data object.
MCTargets ==
    {[colls |-> {}, objs |-> <<>>],
     [colls |-> {r},
      objs  |-> [n \in {[coll |-> r, base |-> x]} |-> [of |-> n, units |-> 4, len |-> 4]]]}

All(s) == [op |-> "all", name |-> [coll |-> r, base |-> none], space |-> s]
One(c, n, s) == [op |-> "one", name |-> [coll |-> c, base |-> n], space |-> s]

\* Free space unset, too small for a data object, and enough for the first
\* index but for the reserve.
MCRequests ==
    {[All(0) EXCEPT !.op = "index"], All(0), All(2), All(10),
     One(aa, none, 0), One(aa, x, 0), One(a, x, 10), One(r, x, 2)}
=============================================================================
