--------------------------- MODULE ArchiveCreate ---------------------------
(***************************************************************************)
(* msiArchiveCreate (src/msiArchiveCreate.cc) with Archive::create,        *)
(* Archive::construct and the destructor (src/Archive.hh): look up the     *)
(* collection, create or truncate the archive object, walk the collection, *)
(* write INDEX.json, copy every item of the index, free the archive.       *)
(* The archive format, zip or pax, is left out.                            *)
(*                                                                         *)
(* Every server call is a step.  The catalog changes between them, so an   *)
(* object may be gone, shorter or longer when construct() gets to it.      *)
(***************************************************************************)
EXTENDS ArchiveWalk

CONSTANTS
    Buf  \* A_BUFSIZE, in the units of Size

ASSUME CreateAssumption ==
    /\ Buf \in Nat \ {0}
    /\ 0 \in Size

VARIABLES
    pc,      \* where msiArchiveCreate is
    status,  \* its status
    arc,     \* what has been handed to libarchive
    stored,  \* content of the archive object; "none" until it is opened
    idx,     \* Archive::index
    src,     \* units in the data object that is being copied
    off,     \* units read from it
    fds,     \* open descriptors: of the archive, of the data object
    fatal    \* libarchive gave up on the archive

createVars == <<pc, status, arc, stored, idx, src, off, fds, fatal>>
vars == <<catalogVars, walkVars, faults, createVars>>

Status == {"ok", "SYS_INVALID_INPUT_PARAM", "CAT_NO_ROWS_FOUND", "query error",
           "SYS_TAR_OPEN_ERR", "SYS_TAR_APPEND_ERR", "open error"}

CreateInit ==
    /\ CatalogInit
    /\ stack = <<>> /\ inner = 0 /\ list = <<>> /\ dataSize = 0 /\ faults = 0
    /\ pc = "start" /\ status = "ok"
    /\ arc = NoIndex("bare")
    /\ stored = NoIndex("none")
    /\ idx = 0 /\ src = 0 /\ off = 0
    /\ fds = {} /\ fatal = FALSE

-----------------------------------------------------------------------------
Fault == faults < MaxFaults /\ faults' = faults + 1

Return(s) == status' = s /\ pc' = "done"

\* A parameter has the wrong type or is "null".
InvalidInput ==
    /\ pc = "start"
    /\ Return("SYS_INVALID_INPUT_PARAM")
    /\ UNCHANGED <<catalogVars, walkVars, faults, stored, arc, idx, src, off, fds, fatal>>

\* collID finds the collection (its statement stays open, CollIDStatements).
collID ==
    /\ pc = "start"
    /\ collOf[RootId] = Root
    /\ pc' = "create"
    /\ UNCHANGED <<catalogVars, walkVars, faults, stored, status, arc, idx, src, off, fds, fatal>>

\* It does not, or the query fails.  Nothing has been created yet.
collIDFails ==
    /\ pc = "start"
    /\ \/ collOf[RootId] # Root /\ Return("CAT_NO_ROWS_FOUND") /\ UNCHANGED faults
       \/ Fault /\ Return("query error")
    /\ UNCHANGED <<catalogVars, walkVars, stored, arc, idx, src, off, fds, fatal>>

\* _creat in the catalog: a replica of the archive is written, others become
\* stale.  Whether the catalog calls it good before it is closed depends on
\* the iRODS version.
Registered(id) ==
    \E r \in {q \in Replica : q.size = 0} :
        repl' = [repl EXCEPT ![id][Target.base] =
                     {r} \cup {[q EXCEPT !.good = FALSE] : q \in @}]

\* Archive::create: open with O_TRUNC, or create; then start the walk.
create ==
    /\ pc = "create"
    /\ IF Target.base = NoBase
       THEN UNCHANGED repl
       ELSE \E id \in CollId : collOf[id] = Target.coll /\ Registered(id)
    /\ stored' = NoIndex("bare")
    /\ fds' = {"archive"}
    /\ stack' = WalkStart
    /\ pc' = "walk"
    /\ UNCHANGED <<collOf, unused, edits, inner, list, dataSize, faults, status,
                   arc, idx, src, off, fatal>>

\* Slip: the archive is emptied before the call fails.
SlipCreateFails ==
    /\ pc = "create"
    /\ Fault
    /\ Return("SYS_TAR_OPEN_ERR")
    /\ stored' = NoIndex("bare")
    /\ UNCHANGED <<catalogVars, walkVars, arc, idx, src, off, fds, fatal>>

\* The object cannot be opened or created, or its collection is gone.
createFails ==
    /\ pc = "create"
    /\ \/ Fault
       \/ Target.base # NoBase /\ ~PathTaken(Target.coll) /\ UNCHANGED faults
    /\ Return("SYS_TAR_OPEN_ERR")
    /\ UNCHANGED <<catalogVars, walkVars, stored, arc, idx, src, off, fds, fatal>>

\* dirColl and dirDataObj.
Walk ==
    /\ pc = "walk"
    /\ WalkStep
    /\ UNCHANGED <<catalogVars, createVars>>

-----------------------------------------------------------------------------
(* construct()                                                             *)

\* An error return of construct(): delete a, which frees the archive.
Abandon(s) == status' = s /\ pc' = "free"

\* INDEX.json, header and data.
WriteIndex ==
    /\ pc = "walk" /\ stack = <<>>
    /\ arc' = [arc EXCEPT !.form = "indexed", !.items = list, !.size = dataSize]
    /\ idx' = 0
    /\ pc' = "item"
    /\ UNCHANGED <<catalogVars, walkVars, faults, stored, status, src, off, fds, fatal>>

HeaderOf(item) == [item |-> item, got |-> 0]

\* archive_write_header or archive_write_data returns less than ARCHIVE_OK.
\* After a warning the header of an item is in the archive, after an error it
\* is not; some errors put the archive in a fatal state.  An open data object
\* is closed before the return.
AppendFails ==
    /\ \/ pc = "walk" /\ stack = <<>> /\ UNCHANGED arc
       \/ /\ pc = "item" /\ idx < Len(list)
          /\ \/ UNCHANGED arc
             \/ arc' = [arc EXCEPT !.entries = Append(@, HeaderOf(list[idx + 1]))]
       \/ pc = "read" /\ off < src /\ UNCHANGED arc
    /\ Fault
    /\ Abandon("SYS_TAR_APPEND_ERR")
    /\ fds' = fds \ {"object"}
    /\ fatal' \in BOOLEAN
    /\ UNCHANGED <<catalogVars, walkVars, stored, idx, src, off>>

\* Slip: a collection has no data, so it gets no entry.
SlipWriteHeader ==
    /\ pc = "item" /\ idx < Len(list)
    /\ IF list[idx + 1].type = "coll"
       THEN idx' = idx + 1 /\ UNCHANGED <<arc, pc>>
       ELSE /\ arc' = [arc EXCEPT !.entries = Append(@, HeaderOf(list[idx + 1]))]
            /\ idx' = idx /\ pc' = "open"
    /\ UNCHANGED <<catalogVars, walkVars, faults, stored, status, src, off, fds, fatal>>

\* The header of item index; a collection has no data.
WriteHeader ==
    /\ pc = "item" /\ idx < Len(list)
    /\ arc' = [arc EXCEPT !.entries = Append(@, HeaderOf(list[idx + 1]))]
    /\ IF list[idx + 1].type = "coll"
       THEN idx' = idx + 1 /\ pc' = "item"
       ELSE idx' = idx /\ pc' = "open"
    /\ UNCHANGED <<catalogVars, walkVars, faults, stored, status, src, off, fds, fatal>>

\* Ids of the collection that holds item index now.
HolderIds == {id \in CollId : collOf[id] = list[idx + 1].coll}

\* _open by path: iRODS opens one of the good replicas.
OpenObj ==
    /\ pc = "open"
    /\ \E id \in HolderIds : \E r \in GoodReplicas(id, list[idx + 1].base) :
          src' = r.size
    /\ off' = 0
    /\ fds' = fds \cup {"object"}
    /\ pc' = "read"
    /\ UNCHANGED <<catalogVars, walkVars, faults, stored, status, arc, idx, fatal>>

\* The object cannot be opened or is gone; its header has been written.
OpenObjFails ==
    /\ pc = "open"
    /\ \/ Fault
       \/ /\ \A id \in HolderIds : GoodReplicas(id, list[idx + 1].base) = {}
          /\ UNCHANGED faults
    /\ Abandon("open error")
    /\ UNCHANGED <<catalogVars, walkVars, stored, arc, idx, src, off, fds, fatal>>

AtMost(m, n) == IF m <= n THEN m ELSE n

\* Slip: the size of the buffer is taken for the number of bytes read.
SlipCopyChunk ==
    /\ pc = "read" /\ off < src
    /\ off' = off + Buf
    /\ arc' = [arc EXCEPT !.entries[idx + 1].got =
                   AtMost(off', list[idx + 1].size)]
    /\ UNCHANGED <<catalogVars, walkVars, faults, stored, pc, status, idx, src, fds, fatal>>

\* Slip: what does not fill the buffer is not written.
SlipFullChunk ==
    /\ pc = "read" /\ off < src
    /\ off' = AtMost(off + Buf, src)
    /\ arc' = [arc EXCEPT !.entries[idx + 1].got =
                   AtMost(Buf * (off' \div Buf), list[idx + 1].size)]
    /\ UNCHANGED <<catalogVars, walkVars, faults, stored, pc, status, idx, src, fds, fatal>>

\* One turn of the copying loop.
CopyChunk ==
    /\ pc = "read" /\ off < src
    /\ off' = AtMost(off + Buf, src)
    /\ arc' = [arc EXCEPT !.entries[idx + 1].got =
                   AtMost(off', list[idx + 1].size)]
    /\ UNCHANGED <<catalogVars, walkVars, faults, stored, pc, status, idx, src, fds, fatal>>

\* Slip: the data object is not closed before the return.
SlipReadFails ==
    /\ pc = "read"
    /\ Fault
    /\ Abandon("SYS_TAR_APPEND_ERR")
    /\ UNCHANGED <<catalogVars, walkVars, stored, arc, idx, src, off, fds, fatal>>

ReadFails ==
    /\ pc = "read"
    /\ Fault
    /\ Abandon("SYS_TAR_APPEND_ERR")
    /\ fds' = fds \ {"object"}
    /\ UNCHANGED <<catalogVars, walkVars, stored, arc, idx, src, off, fatal>>

\* Slip: one read per data object.
SlipCopyDone ==
    /\ pc = "read" /\ (off > 0 \/ src = 0)
    /\ fds' = fds \ {"object"}
    /\ idx' = idx + 1
    /\ pc' = "item"
    /\ UNCHANGED <<catalogVars, walkVars, faults, stored, status, arc, src, off, fatal>>

\* End of the data object: close it, next item.
CopyDone ==
    /\ pc = "read" /\ off = src
    /\ fds' = fds \ {"object"}
    /\ idx' = idx + 1
    /\ pc' = "item"
    /\ UNCHANGED <<catalogVars, walkVars, faults, stored, status, arc, src, off, fatal>>

\* Slip: the loop condition is off by one.
SlipAllItemsWritten ==
    /\ pc = "item" /\ idx > Len(list)
    /\ pc' = "free"
    /\ UNCHANGED <<catalogVars, walkVars, faults, stored, status, arc, idx, src, off, fds, fatal>>

AllItemsWritten ==
    /\ pc = "item" /\ idx = Len(list)
    /\ pc' = "free"
    /\ UNCHANGED <<catalogVars, walkVars, faults, stored, status, arc, idx, src, off, fds, fatal>>

\* archive_write_free, by construct() or by the destructor: flush what is
\* buffered, write the end of the archive, a_close.
Free ==
    /\ pc = "free" /\ ~fatal
    /\ stored' = [arc EXCEPT !.whole = TRUE]
    /\ fds' = fds \ {"archive"}
    /\ pc' = "done"
    /\ UNCHANGED <<catalogVars, walkVars, faults, status, arc, idx, src, off, fatal>>

\* What may have reached the archive object when flushing fails.
Cut(f) ==
    {NoIndex("bare")} \cup
    {[f EXCEPT !.entries = SubSeq(f.entries, 1, n)] : n \in 0..Len(f.entries)}

\* archive_write_free fails; its result is not looked at.  In a fatal state it
\* neither flushes nor calls a_close.
FreeFails ==
    /\ pc = "free"
    /\ \/ fatal /\ UNCHANGED <<faults, fds>>
       \/ ~fatal /\ Fault /\ fds' = fds \ {"archive"}
    /\ stored' \in Cut(arc)
    /\ pc' = "done"
    /\ UNCHANGED <<catalogVars, walkVars, status, arc, idx, src, off, fatal>>

-----------------------------------------------------------------------------
Construct ==
    \/ WriteIndex \/ AppendFails \/ WriteHeader
    \/ OpenObj \/ OpenObjFails
    \/ CopyChunk \/ ReadFails \/ CopyDone
    \/ AllItemsWritten \/ Free \/ FreeFails

CreateStep ==
    \/ InvalidInput \/ collID \/ collIDFails
    \/ create \/ createFails
    \/ Walk
    \/ Construct

\* msiArchiveCreate has returned.
Returned == pc = "done" /\ UNCHANGED vars

CreateNext ==
    \/ CreateStep
    \/ pc # "done" /\ CatalogEdit /\ UNCHANGED <<walkVars, faults, createVars>>
    \/ Returned

\* The agent keeps executing and its server calls return.
CreateSpec == CreateInit /\ [][CreateNext]_vars /\ WF_vars(CreateStep)

-----------------------------------------------------------------------------
(* Properties.                                                             *)

\* Type correctness; no more is copied of a data object than it has.
CreateTypeOK ==
    /\ WalkTypeOK
    /\ pc \in {"start", "create", "walk", "item", "open", "read", "free", "done"}
    /\ status \in Status
    /\ arc \in ArchiveFile
    /\ stored \in ArchiveFile
    /\ idx \in 0..Len(list) /\ src \in Nat /\ off \in 0..src
    /\ fds \subseteq {"archive", "object"}
    /\ fatal \in BOOLEAN

\* However msiArchiveCreate ends, whatever fails and whatever other agents do
\* meanwhile, the archive object can be read by position: entry k belongs to
\* item k of INDEX.json, collections come first, the recorded size is right.
StoredWellFormed == WellFormed(stored)

\* msiArchiveCreate returns with no data object left open, and with the
\* archive closed unless libarchive was in its fatal state.
DescriptorsClosed ==
    pc = "done" => /\ "object" \notin fds
                   /\ fatal \/ fds = {}

\* If no server call failed, status 0 means that every item of the index is in
\* the archive.  If moreover no agent touched the collection, every data
\* object was copied in full: the sizes in the index are those of the replicas
\* that are read.
SuccessIsComplete ==
    (pc = "done" /\ status = "ok" /\ faults = 0) =>
        /\ Complete(stored)
        /\ edits = 0 => \A k \in 1..Len(stored.entries) :
                            stored.entries[k].got = stored.items[k].size

\* When no call fails and no agent interferes, an existing collection is
\* archived without an error into a collection that exists: everything the
\* walk lists can be opened.
QuietRunSucceeds ==
    (/\ pc = "done" /\ faults = 0 /\ edits = 0
     /\ Target.base = NoBase \/ PathTaken(Target.coll)) =>
        status \in {"ok", "SYS_INVALID_INPUT_PARAM", "CAT_NO_ROWS_FOUND"}

\* The phases of ArchiveLog.  construct() may fail before INDEX.json is
\* written; what is freed then has no index.
LogPhase ==
    CASE pc \in {"start", "create"} -> "idle"
      [] pc = "walk" -> "indexing"
      [] pc \in {"item", "open", "read"} -> "logging"
      [] pc = "free" -> IF arc.form = "indexed" THEN "logging" ELSE "indexing"
      [] pc = "done" -> "closed"

LogItems == {CollItem(c) : c \in Coll \ {Root}} \cup
            {DataItem(c, b, s) : c \in Coll, b \in Base, s \in Size}

Log == INSTANCE ArchiveLog WITH
    Items <- LogItems, phase <- LogPhase,
    index <- list, size <- dataSize, entries <- arc.entries, kept <- stored

\* Whatever fails and whatever other agents do, msiArchiveCreate does nothing
\* but list items holders first, log them in the order of the index and keep
\* the whole log or a first part of it; and an error reported before the
\* archive object is opened leaves an earlier archive as it was.
ImplementsLog == Log!LogSpec

\* msiArchiveCreate returns.
CreateReturns == <>(pc = "done")
=============================================================================
