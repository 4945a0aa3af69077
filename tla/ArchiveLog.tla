----------------------------- MODULE ArchiveLog -----------------------------
(***************************************************************************)
(* What msiArchiveCreate promises, without its calls, loops and failures:  *)
(* first an index is listed, then its items are logged one by one in that  *)
(* order, then the log is kept, possibly cut short.  Until the archive     *)
(* object has been opened the caller may be turned away, and then what was *)
(* kept before stays as it is.                                             *)
(***************************************************************************)
EXTENDS ArchiveItems

CONSTANT Items  \* the items there can be

VARIABLES
    phase,    \* "idle", "indexing", "logging", "closed"
    index,    \* the items to be logged
    size,     \* the blocks they take up
    entries,  \* the entries logged so far
    kept      \* the archive that others see

logVars == <<phase, index, size, entries, kept>>

LogInit ==
    /\ phase = "idle"
    /\ index = <<>> /\ size = 0 /\ entries = <<>>
    /\ kept = NoIndex("none")

\* An error before the archive object is opened: nothing has happened to it.
GiveUp ==
    /\ phase = "idle"
    /\ phase' = "closed"
    /\ UNCHANGED <<index, size, entries, kept>>

\* The archive object is opened and emptied.
Start ==
    /\ phase = "idle"
    /\ phase' = "indexing"
    /\ kept' = NoIndex("bare")
    /\ UNCHANGED <<index, size, entries>>

\* An item is listed; the collection it lives in is listed already.
List ==
    /\ phase = "indexing"
    /\ \E item \in Items :
          /\ Holder(item) = Root \/ ListedIn(index, Len(index), Holder(item))
          /\ index' = Append(index, item)
          /\ size' = size + (IF item.type = "dataObj" THEN BlockCeil(item.size) ELSE 0)
    /\ UNCHANGED <<phase, entries, kept>>

\* INDEX.json is written: from now on the index does not change.
Seal ==
    /\ phase = "indexing"
    /\ phase' = "logging"
    /\ UNCHANGED <<index, size, entries, kept>>

\* The header of the next item.
LogNext ==
    /\ phase = "logging"
    /\ Len(entries) < Len(index)
    /\ entries' = Append(entries, [item |-> index[Len(entries) + 1], got |-> 0])
    /\ UNCHANGED <<phase, index, size, kept>>

\* More of the item whose header was written last, up to its recorded size.
Fill ==
    /\ phase = "logging"
    /\ entries # <<>>
    /\ \E n \in (entries[Len(entries)].got + 1)..index[Len(entries)].size :
          entries' = [entries EXCEPT ![Len(entries)].got = n]
    /\ UNCHANGED <<phase, index, size, kept>>

\* What is kept when the last blocks may not have reached the archive object.
CutLogs(sealed) ==
    {NoIndex("bare")} \cup
    (IF ~sealed THEN {} ELSE
        {[form |-> "indexed", items |-> index, size |-> size,
          entries |-> SubSeq(entries, 1, n), whole |-> FALSE] : n \in 0..Len(entries)})

\* The archive is freed, after the last item or after an error; an empty
\* archive is kept with an end, too.
Keep ==
    /\ phase \in {"indexing", "logging"}
    /\ phase' = "closed"
    /\ \/ kept' \in CutLogs(phase = "logging")
       \/ kept' = [NoIndex("bare") EXCEPT !.whole = TRUE] /\ phase = "indexing"
       \/ /\ phase = "logging"
          /\ kept' = [form |-> "indexed", items |-> index, size |-> size,
                      entries |-> entries, whole |-> TRUE]
    /\ UNCHANGED <<index, size, entries>>

LogNextState == GiveUp \/ Start \/ List \/ Seal \/ LogNext \/ Fill \/ Keep

LogSpec == LogInit /\ [][LogNextState]_logVars
=============================================================================
