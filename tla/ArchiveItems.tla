--------------------------- MODULE ArchiveItems ---------------------------
(***************************************************************************)
(* The vocabulary shared by the archive microservices: the paths below the *)
(* archived collection and the items that INDEX.json lists.                *)
(*                                                                         *)
(* A path is not a string here.  A collection path is a member of Coll, a  *)
(* tree given by ParentOf; a data object path is a collection path and a   *)
(* base name.  An item keeps the fields of its JSON object that control    *)
(* what create and extract do: its type, its name (coll, base), its size.  *)
(***************************************************************************)
EXTENDS Naturals, Sequences

CONSTANTS
    Coll,      \* collection paths at and below the archived collection
    Root,      \* the archived collection itself ("origin")
    ParentOf,  \* the path one level up, for every collection but Root
    Base,      \* base names of data objects
    NoBase,    \* stands for "no base name" in the item of a collection
    Block      \* A_BLOCKSIZE

ASSUME TreeAssumption ==
    /\ Root \in Coll
    /\ ParentOf \in [Coll \ {Root} -> Coll]
    /\ \A S \in SUBSET (Coll \ {Root}) :   \* going up ends at Root
          S # {} => \E c \in S : ParentOf[c] \notin S
    /\ NoBase \notin Base

ASSUME BlockAssumption == Block \in Nat \ {0}

\* A JSON object of the "items" array.
Item == [type : {"coll", "dataObj"},
         coll : Coll,
         base : Base \cup {NoBase},
         size : Nat]

\* What addColl and addDataObj put in the array.
CollItem(c) == [type |-> "coll", coll |-> c, base |-> NoBase, size |-> 0]
DataItem(c, b, s) == [type |-> "dataObj", coll |-> c, base |-> b, size |-> s]

Name == [coll : Coll, base : Base \cup {NoBase}]
NameOf(item) == [coll |-> item.coll, base |-> item.base]

\* The collection that has to exist before the item can be created in it.
Holder(item) == IF item.type = "coll" THEN ParentOf[item.coll] ELSE item.coll

\* Slip: the block size is subtracted where it should be added.
SlipBlockCeil(s) == LET up == s - Block IN up - (up % Block)

\* (size + A_BLOCKSIZE - 1) & ~(A_BLOCKSIZE - 1), A_BLOCKSIZE a power of two:
\* clearing the low bits of up is up - up % A_BLOCKSIZE.
BlockCeil(s) == LET up == s + Block - 1 IN up - (up % Block)

\* c has a collection item among the first n items of lst.
ListedIn(lst, n, c) ==
    \E j \in 1..n : lst[j].type = "coll" /\ lst[j].coll = c

\* Every item comes after the collection it lives in.
HoldersFirst(lst) ==
    \A i \in 1..Len(lst) :
        /\ lst[i].type = "coll" => lst[i].coll # Root
        /\ Holder(lst[i]) = Root \/ ListedIn(lst, i - 1, Holder(lst[i]))

\* The blocks that the data objects of lst take up once extracted.
Blocks(lst) ==
    LET sum[n \in 0..Len(lst)] ==
            IF n = 0 THEN 0
            ELSE sum[n - 1] + (IF lst[n].type = "dataObj" THEN BlockCeil(lst[n].size) ELSE 0)
    IN  sum[Len(lst)]

-----------------------------------------------------------------------------
(* The archive as a stored object.                                         *)

\* An entry of the archive: the header was made from item, and got units of
\* the data object were copied.  libarchive cuts off what exceeds the size in
\* the header and pads what falls short of it.
Entry == [item : Item, got : Nat]

\* A data object that was restored from an archive: its first units come from
\* the entry of item "of" (or from an earlier version of that item); it is len
\* units long.
Content == [of : Name, units : Nat, len : Nat]

\* form: "alien" is not in any archive format, "bare" is an archive (an empty
\* object included) whose first entry is not a readable INDEX.json, or one that
\* names no "collection".  Without "items" an INDEX.json lists nothing.
\* whole: the end of the archive was written.
ArchiveFile == [form    : {"none", "alien", "bare", "indexed"},
                items   : Seq(Item),   \* "items" of INDEX.json
                size    : Nat,         \* "size" of INDEX.json
                entries : Seq(Entry),  \* the entries after INDEX.json
                whole   : BOOLEAN]

NoIndex(form) ==
    [form |-> form, items |-> <<>>, size |-> 0, entries |-> <<>>, whole |-> FALSE]

\* What msiArchiveExtract relies on and msiArchiveCreate guarantees, however
\* creating the archive ends: entry k is item k of the index, the index lists
\* a collection before its contents and its size covers all data objects.
WellFormed(f) ==
    /\ f.form # "indexed" => f.entries = <<>>
    /\ HoldersFirst(f.items)
    /\ f.size = Blocks(f.items)
    /\ Len(f.entries) <= Len(f.items)
    /\ \A k \in 1..Len(f.entries) :
          /\ f.entries[k].item = f.items[k]
          /\ f.entries[k].got <= f.items[k].size

\* Nothing is missing from the archive.
Complete(f) ==
    /\ f.form = "indexed"
    /\ f.whole
    /\ Len(f.entries) = Len(f.items)
=============================================================================
