--------------------------- MODULE ArchiveExtract ---------------------------
(***************************************************************************)
(* msiArchiveExtract (src/msiArchiveExtract.cc) and msiArchiveIndex        *)
(* (src/msiArchiveIndex.cc) with Archive::open, nextItem, extractItem and  *)
(* the destructor (src/Archive.hh).                                        *)
(*                                                                         *)
(* A call starts from any archive that msiArchiveCreate can leave behind,  *)
(* complete or not, or from an object that is no such archive, and from a  *)
(* target that may hold the results of earlier, failed calls: after a call *)
(* returns the rule may make another one.  While the archive is open, an   *)
(* agent that runs msiArchiveCreate for the same path may truncate it.     *)
(***************************************************************************)
EXTENDS ArchiveItems

CONSTANTS
    Archives,     \* the archives that are extracted
    Rewritten,    \* what another agent may leave after it truncated the archive
    Targets,      \* what may be at the extraction path beforehand
    Requests,     \* what a caller asks for
    MaxFaults,    \* bound: how many server calls fail during one call
    MaxAttempts,  \* bound: how many calls of the microservice are made
    Buf           \* A_BUFSIZE, in the units of sizes

\* msiArchiveIndex, or msiArchiveExtract of everything or of one name.
\* space: free space recorded for the resource; 0 when it is unset or no
\* resource is given.
Request == [op : {"index", "all", "one"}, name : Name, space : Nat]

ASSUME ExtractAssumption ==
    /\ Archives \cup Rewritten \subseteq ArchiveFile
    /\ \A f \in Archives \cup Rewritten : WellFormed(f)
    /\ \A t \in Targets :
          /\ t.colls \subseteq Coll
          /\ DOMAIN t.objs \subseteq Name
          /\ t.objs \in [DOMAIN t.objs -> Content]
          /\ \A n \in DOMAIN t.objs : t.objs[n].of = n
    /\ Requests \subseteq Request
    /\ MaxFaults \in Nat /\ MaxAttempts \in Nat
    /\ Buf \in Nat \ {0}

VARIABLES
    pc,       \* where the microservice is
    status,   \* its status
    archive,  \* content of the archive object
    request,  \* what this call is asked for
    cur,      \* Archive::index, the number of headers read
    fds,      \* open descriptors: of the archive, of the data object
    tcolls,   \* collections below the extraction path
    tobjs,    \* data objects below it
    tmeta,    \* items whose metadata this call has restored
    shown,    \* what msiArchiveIndex returned
    faults,   \* server calls that failed during this call
    attempts, \* calls of the microservice made so far
    cut       \* another agent has truncated the archive

targetVars == <<tcolls, tobjs, tmeta>>
callVars == <<archive, request>>
boundVars == <<faults, attempts>>
vars == <<pc, status, callVars, cur, fds, targetVars, shown, boundVars, cut>>

Status == {"ok", "SYS_INVALID_INPUT_PARAM", "SYS_TAR_OPEN_ERR",
           "SYS_RESC_QUOTA_EXCEEDED", "query error",
           "collection error", "create error", "write error",
           "SYS_TAR_EXTRACT_ALL_ERR", "close error"}

ExtractInit ==
    /\ pc = "open" /\ status = "ok"
    /\ archive \in Archives
    /\ request \in Requests
    /\ cur = 0 /\ fds = {}
    /\ \E t \in Targets : tcolls = t.colls /\ tobjs = t.objs
    /\ tmeta = {}
    /\ shown = <<>>
    /\ faults = 0 /\ attempts = 1
    /\ cut = FALSE

-----------------------------------------------------------------------------
Fault == faults < MaxFaults /\ faults' = faults + 1 /\ UNCHANGED attempts

Return(s) == status' = s /\ pc' = "done"

space == request.space

\* A parameter has the wrong type or is "null".
InvalidInput ==
    /\ pc = "open"
    /\ Return("SYS_INVALID_INPUT_PARAM")
    /\ UNCHANGED <<callVars, cur, fds, targetVars, shown, boundVars>>

\* Archive::open finds INDEX.json as the first entry and loads it.
Open ==
    /\ pc = "open"
    /\ archive.form = "indexed"
    /\ fds' = {"archive"}
    /\ cur' = 0
    /\ pc' = IF request.op = "index" THEN "index" ELSE "space"
    /\ UNCHANGED <<status, callVars, targetVars, shown, boundVars>>

\* The object cannot be opened, or its format is not recognised: libarchive
\* has closed it when archive_read_open returns the error.
OpenFails ==
    /\ pc = "open"
    /\ \/ archive.form \in {"none", "alien"} /\ UNCHANGED boundVars
       \/ Fault
    /\ Return("SYS_TAR_OPEN_ERR")
    /\ UNCHANGED <<callVars, cur, fds, targetVars, shown>>

\* The object is an archive, but INDEX.json is not there or cannot be read.
\* open() deletes data before archive_read_free calls a_close with it.  The
\* behaviour is undefined: a_close may still find the descriptor, may find
\* another number, or may not return.  Nor does open() return when INDEX.json
\* has no "collection": a std::string is made from NULL.
OpenRejects ==
    /\ pc = "open"
    /\ \/ archive.form = "bare" /\ UNCHANGED boundVars
       \/ archive.form = "indexed" /\ Fault
    /\ \/ Return("SYS_TAR_OPEN_ERR") /\ fds' \in {{}, {"archive"}}
       \/ pc' = "crashed" /\ fds' = {"archive"} /\ UNCHANGED status
    /\ UNCHANGED <<callVars, cur, targetVars, shown>>

\* Slip: the entries are returned instead of the items of the index.
SlipIndex ==
    /\ pc = "index"
    /\ shown' = archive.entries
    /\ fds' = {}
    /\ Return("ok")
    /\ UNCHANGED <<callVars, cur, targetVars, boundVars>>

\* msiArchiveIndex: return the index, delete the archive.
Index ==
    /\ pc = "index"
    /\ shown' = archive.items
    /\ fds' = {}
    /\ Return("ok")
    /\ UNCHANGED <<callVars, cur, targetVars, boundVars>>

\* Slip: no reserve is kept.
SlipUsable == space

\* Nine tenths of the free space.
Usable == space - (space \div 10)

\* freeSpace(resource), and the check when everything is extracted.
EnoughSpace ==
    /\ pc = "space"
    /\ ~(space # 0 /\ request.op = "all" /\ archive.size > Usable)
    /\ pc' = "mkpath"
    /\ UNCHANGED <<status, callVars, cur, fds, targetVars, shown, boundVars>>

NotEnoughSpace ==
    /\ pc = "space"
    /\ \/ /\ space # 0 /\ request.op = "all" /\ archive.size > Usable
          /\ Return("SYS_RESC_QUOTA_EXCEEDED") /\ UNCHANGED boundVars
       \/ Fault /\ Return("query error")
    /\ fds' = {}
    /\ UNCHANGED <<callVars, cur, targetVars, shown>>

\* rsCollCreate(path), allowed to fail.
MakePath ==
    /\ pc = "mkpath"
    /\ \/ tcolls' = tcolls \cup {Root} /\ UNCHANGED boundVars
       \/ Fault /\ UNCHANGED tcolls
    /\ pc' = "next"
    /\ UNCHANGED <<status, callVars, cur, fds, tobjs, tmeta, shown>>

-----------------------------------------------------------------------------
(* The extraction loop.                                                    *)

\* Slip: names are compared without their collections.
SlipSelected(item) == request.op = "all" \/ request.name.base = item.base

Selected(item) == request.op = "all" \/ request.name = NameOf(item)

\* nextItem reads header cur + 1 and returns item cur + 1 of the index.
NextItem ==
    /\ pc = "next"
    /\ cur < Len(archive.entries)
    /\ cur' = cur + 1
    /\ pc' = IF ~Selected(archive.items[cur + 1]) THEN "next"
             ELSE IF request.op = "all" THEN "extract" ELSE "single"
    /\ UNCHANGED <<status, callVars, fds, targetVars, shown, boundVars>>

\* Slip: the loop runs to the end of the index, not of the archive.
SlipNoNextItem ==
    /\ pc = "next"
    /\ cur = Len(archive.items)
    /\ pc' = "close"
    /\ UNCHANGED <<status, callVars, cur, fds, targetVars, shown, boundVars>>

\* No further header: the end of the archive, an archive that stops short, or
\* an error.  They are not told apart.
NoNextItem ==
    /\ pc = "next"
    /\ \/ cur = Len(archive.entries) /\ UNCHANGED boundVars
       \/ Fault
    /\ pc' = "close"
    /\ UNCHANGED <<status, callVars, cur, fds, targetVars, shown>>

\* Slip: the index runs one ahead of the entries.
SlipCurrent == archive.items[IF cur < Len(archive.items) THEN cur + 1 ELSE cur]

Current == archive.items[cur]
CurrentEntry == archive.entries[cur]
Break(s) == status' = s /\ pc' = "close"

\* c and everything above it.
Ancestors[c \in Coll] ==
    IF c = Root THEN {Root} ELSE {c} \cup Ancestors[ParentOf[c]]

\* Slip: the collection is made without those above it.
SlipMakeHolder ==
    /\ pc = "single"
    /\ ~(space # 0 /\ Current.size > Usable)
    /\ tcolls' = IF Holder(Current) # Root /\ ParentOf[Holder(Current)] \in tcolls
                 THEN tcolls \cup {Holder(Current)} ELSE tcolls
    /\ pc' = "extract"
    /\ UNCHANGED <<status, callVars, cur, fds, tobjs, tmeta, shown, boundVars>>

\* One item was asked for: make the collection it lives in, with all those
\* above it; the result is not looked at.
MakeHolder ==
    /\ pc = "single"
    /\ ~(space # 0 /\ Current.size > Usable)
    /\ \/ /\ tcolls' = IF Holder(Current) = Root THEN tcolls
                       ELSE tcolls \cup Ancestors[Holder(Current)]
          /\ UNCHANGED boundVars
       \/ Holder(Current) # Root /\ Fault /\ UNCHANGED tcolls
    /\ pc' = "extract"
    /\ UNCHANGED <<status, callVars, cur, fds, tobjs, tmeta, shown>>

\* Slip: a return instead of the break.
SlipSingleTooLarge ==
    /\ pc = "single"
    /\ space # 0 /\ Current.size > Usable
    /\ Return("SYS_RESC_QUOTA_EXCEEDED")
    /\ UNCHANGED <<callVars, cur, fds, targetVars, shown, boundVars>>

SingleTooLarge ==
    /\ pc = "single"
    /\ space # 0 /\ Current.size > Usable
    /\ Break("SYS_RESC_QUOTA_EXCEEDED")
    /\ UNCHANGED <<callVars, cur, fds, targetVars, shown, boundVars>>

\* extractItem, a directory entry: a collection that is there already is fine.
ExtractColl ==
    /\ pc = "extract"
    /\ CurrentEntry.item.type = "coll"
    /\ \/ /\ Current.coll \in tcolls \/ Holder(Current) \in tcolls
          /\ tcolls' = tcolls \cup {Current.coll}
          /\ status' = "ok"
          /\ pc' = "meta"
          /\ UNCHANGED boundVars
       \/ /\ Current.coll \notin tcolls /\ Holder(Current) \notin tcolls
          /\ Break("collection error")
          /\ UNCHANGED <<tcolls, boundVars>>
       \/ Fault /\ Break("collection error") /\ UNCHANGED tcolls
    /\ UNCHANGED <<callVars, cur, fds, tobjs, tmeta, shown>>

Put(n, content) ==
    tobjs' = [m \in DOMAIN tobjs \cup {n} |-> IF m = n THEN content ELSE tobjs[m]]

\* Slip: an existing data object is opened without O_TRUNC.
SlipCreateObj ==
    /\ pc = "extract"
    /\ CurrentEntry.item.type = "dataObj"
    /\ NameOf(Current) \in DOMAIN tobjs \/ Current.coll \in tcolls
    /\ Put(NameOf(Current),
           [of |-> NameOf(CurrentEntry.item), units |-> 0,
            len |-> IF NameOf(Current) \in DOMAIN tobjs THEN tobjs[NameOf(Current)].len ELSE 0])
    /\ fds' = fds \cup {"object"}
    /\ pc' = "write"
    /\ UNCHANGED <<status, callVars, cur, tcolls, tmeta, shown, boundVars>>

\* extractItem, a file entry: _creat truncates or creates the data object.
CreateObj ==
    /\ pc = "extract"
    /\ CurrentEntry.item.type = "dataObj"
    /\ NameOf(Current) \in DOMAIN tobjs \/ Current.coll \in tcolls
    /\ Put(NameOf(Current),
           [of |-> NameOf(CurrentEntry.item), units |-> 0, len |-> 0])
    /\ fds' = fds \cup {"object"}
    /\ pc' = "write"
    /\ UNCHANGED <<status, callVars, cur, tcolls, tmeta, shown, boundVars>>

CreateObjFails ==
    /\ pc = "extract"
    /\ CurrentEntry.item.type = "dataObj"
    /\ \/ /\ NameOf(Current) \notin DOMAIN tobjs /\ Current.coll \notin tcolls
          /\ UNCHANGED boundVars
       \/ Fault
    /\ Break("create error")
    /\ UNCHANGED <<callVars, cur, fds, targetVars, shown>>

Written == tobjs[NameOf(Current)]

\* Units of the entry that can be read: all of it, padding included, unless
\* the archive stops short in its last entry.
Readable ==
    IF archive.whole \/ cur < Len(archive.entries)
    THEN CurrentEntry.item.size ELSE CurrentEntry.got

AtMost(m, n) == IF m <= n THEN m ELSE n

\* One turn of the copying loop.
WriteChunk ==
    /\ pc = "write"
    /\ Written.units < Readable
    /\ LET n == AtMost(Written.units + Buf, Readable)
       IN  Put(NameOf(Current),
               [Written EXCEPT !.units = n, !.len = IF @ < n THEN n ELSE @])
    /\ UNCHANGED <<pc, status, callVars, cur, fds, tcolls, tmeta, shown, boundVars>>

\* archive_read_data, the write or the close fails; the descriptor is released
\* by _close in all three cases.
WriteFails ==
    /\ pc = "write"
    /\ \/ /\ Written.units = Readable /\ Readable < CurrentEntry.item.size
          /\ Break("SYS_TAR_EXTRACT_ALL_ERR") /\ UNCHANGED boundVars
       \/ Fault /\ Break("SYS_TAR_EXTRACT_ALL_ERR")
       \/ Fault /\ Written.units < Readable /\ Break("write error")
       \/ Fault /\ Written.units = CurrentEntry.item.size /\ Break("close error")
    /\ fds' = fds \ {"object"}
    /\ UNCHANGED <<callVars, cur, targetVars, shown>>

\* Slip: an error of archive_read_data is taken for the end of the entry.
SlipWriteDone ==
    /\ pc = "write"
    /\ Written.units = Readable
    /\ fds' = fds \ {"object"}
    /\ status' = "ok"
    /\ pc' = "meta"
    /\ UNCHANGED <<callVars, cur, targetVars, shown, boundVars>>

\* The end of the entry: extractItem returns what _close returns.
WriteDone ==
    /\ pc = "write"
    /\ Written.units = CurrentEntry.item.size
    /\ fds' = fds \ {"object"}
    /\ status' = "ok"
    /\ pc' = "meta"
    /\ UNCHANGED <<callVars, cur, targetVars, shown, boundVars>>

\* modify and attributes, allowed to fail; one item is all, or go on.
Metadata ==
    /\ pc = "meta"
    /\ \/ tmeta' = tmeta \cup {NameOf(Current)} /\ UNCHANGED boundVars
       \/ Fault /\ UNCHANGED tmeta
    /\ pc' = IF request.op = "all" THEN "next" ELSE "close"
    /\ UNCHANGED <<status, callVars, cur, fds, tcolls, tobjs, shown>>

\* delete a
Close ==
    /\ pc = "close"
    /\ fds' = fds \ {"archive"}
    /\ pc' = "done"
    /\ UNCHANGED <<status, callVars, cur, targetVars, shown, boundVars>>

\* Units of entry k that can still be read when the archive is truncated: at
\* least those that have been read.
Left(k) ==
    IF k = cur /\ pc = "write" THEN Written.units..Readable
    ELSE 0..archive.entries[k].got

\* msiArchiveCreate, run by another agent, opens the archive with O_TRUNC
\* (_creat).  What this call has not read yet may be gone; what libarchive has
\* buffered, up to any point, is not.  Bounds: once, and what the other agent
\* goes on to write is not read by this call.
Truncated ==
    /\ "archive" \in fds /\ pc # "crashed"
    /\ ~cut /\ cut' = TRUE
    /\ \E n \in cur..Len(archive.entries) : \E left \in IF n = 0 THEN {0} ELSE Left(n) :
          archive' = [archive EXCEPT !.whole = FALSE,
                         !.entries = [k \in 1..n |->
                             IF k = n THEN [@[k] EXCEPT !.got = left] ELSE @[k]]]
    /\ UNCHANGED <<pc, status, request, cur, fds, targetVars, shown, boundVars>>

\* The rule makes another call for the same archive and the same path.  If the
\* archive was truncated, it is now what the other agent made of it.
CallAgain ==
    /\ pc = "done"
    /\ attempts < MaxAttempts
    /\ attempts' = attempts + 1
    /\ IF cut THEN archive' \in Rewritten ELSE archive' = archive
    /\ request' \in Requests
    /\ pc' = "open" /\ status' = "ok" /\ cur' = 0 /\ fds' = {}
    /\ tmeta' = {} /\ shown' = <<>> /\ faults' = 0
    /\ UNCHANGED <<tcolls, tobjs, cut>>

-----------------------------------------------------------------------------
ExtractStep ==
    \/ InvalidInput \/ Open \/ OpenFails \/ OpenRejects
    \/ Index
    \/ EnoughSpace \/ NotEnoughSpace
    \/ MakePath
    \/ NextItem \/ NoNextItem
    \/ MakeHolder \/ SingleTooLarge
    \/ ExtractColl
    \/ CreateObj \/ CreateObjFails
    \/ WriteChunk \/ WriteFails \/ WriteDone
    \/ Metadata
    \/ Close

Over == pc \in {"done", "crashed"}

ExtractNext ==
    \/ ExtractStep /\ UNCHANGED cut
    \/ Truncated
    \/ CallAgain
    \/ Over /\ UNCHANGED vars

\* The agent keeps executing and its server calls return; no rule has to make
\* another call.
ExtractSpec == ExtractInit /\ [][ExtractNext]_vars /\ WF_vars(ExtractStep /\ UNCHANGED cut)

-----------------------------------------------------------------------------
(* Properties.                                                             *)

\* Type correctness; what msiArchiveIndex returns are items of an index.
ExtractTypeOK ==
    /\ pc \in {"open", "index", "space", "mkpath", "next", "single", "extract",
              "write", "meta", "close", "done", "crashed"}
    /\ status \in Status
    /\ archive \in ArchiveFile /\ WellFormed(archive)
    /\ request \in Requests
    /\ cur \in 0..Len(archive.entries)
    /\ fds \subseteq {"archive", "object"}
    /\ tcolls \subseteq Coll
    /\ DOMAIN tobjs \subseteq Name
    /\ tobjs \in [DOMAIN tobjs -> Content]
    /\ tmeta \subseteq Name
    /\ shown \in Seq(Item)
    /\ faults \in Nat /\ attempts \in Nat
    /\ cut \in BOOLEAN

\* Every data object in the target has the content that was archived under its
\* own name.  Names come from INDEX.json and contents from the entries; they
\* are matched by position only, over skipped items, broken-off loops and
\* repeated calls.
OwnContent == \A n \in DOMAIN tobjs : tobjs[n].of = n

\* Item k of the index is in the target, in full and without a remainder of
\* what an earlier call left there.
Extracted(k) ==
    LET item == archive.items[k]
    IN  IF item.type = "coll"
        THEN item.coll \in tcolls
        ELSE /\ NameOf(item) \in DOMAIN tobjs
             /\ tobjs[NameOf(item)] =
                   [of |-> NameOf(item), units |-> item.size, len |-> item.size]

\* Of the items of one name, the one whose content stays: the last when all
\* are extracted, the first when the name was asked for.
Decisive(k) ==
    \A j \in 1..Len(archive.items) :
        NameOf(archive.items[j]) = NameOf(archive.items[k]) =>
            IF request.op = "all" THEN j <= k ELSE k <= j

\* If no server call failed and the archive is complete, status 0 means that
\* everything asked for is in the target with its metadata, also when earlier
\* calls were broken off and left parts of it.
SuccessIsExtracted ==
    (/\ pc = "done" /\ status = "ok" /\ faults = 0
     /\ request.op # "index" /\ Complete(archive)) =>
        \A k \in 1..Len(archive.items) :
            Selected(archive.items[k]) /\ Decisive(k) =>
                Extracted(k) /\ NameOf(archive.items[k]) \in tmeta

\* The target is built without -p: items are created in a collection that is
\* not made for them, and that never is the reason for an error.
HolderIsThere ==
    (pc = "extract" /\ faults = 0) => Holder(Current) \in tcolls

\* Nothing is extracted beyond nine tenths (rounded up) of the recorded free
\* space, be it the blocks of a whole archive or the size of one item.
SpaceRespected ==
    (pc \in {"extract", "write", "meta"} /\ space # 0) =>
        10 * (IF request.op = "all" THEN Blocks(SubSeq(archive.items, 1, cur)) ELSE Current.size)
            <= 9 * space + 9

\* When metadata is about to be restored, the item is in the target in full:
\* the modification time is not set on a data object that is still written.
MetadataOnExtracted == pc = "meta" => Extracted(cur)

\* No data object stays open, and the archive only where Archive::open lost
\* its descriptor.
DescriptorsReleased ==
    pc = "done" => fds = {} \/ (status = "SYS_TAR_OPEN_ERR" /\ fds = {"archive"})

\* What a call is to restore: the first item of a name, or all items.
PlanOf(items, req) ==
    CASE req.op = "index" -> <<>>
      [] req.op = "all" -> items
      [] req.op = "one" ->
            LET found == {k \in 1..Len(items) : NameOf(items[k]) = req.name}
            IN  IF found = {} THEN <<>>
                ELSE <<items[CHOOSE k \in found : \A j \in found : k <= j]>>

RestorePhase ==
    CASE pc \in {"open", "index"} -> "idle"
      [] pc \in {"close", "done", "crashed"} -> "over"
      [] OTHER -> "restoring"

TakenUp ==
    CASE request.op = "all" -> cur
      [] request.op = "one" -> IF cur > 0 /\ Selected(Current) THEN 1 ELSE 0
      [] OTHER -> 0

Restoring == INSTANCE Restore WITH
    Plans <- {PlanOf(f.items, req) : f \in Archives \cup Rewritten, req \in Requests},
    Before <- Targets,
    phase <- RestorePhase, failed <- status # "ok",
    plan <- PlanOf(archive.items, request), n <- TakenUp,
    busy <- pc \in {"single", "extract", "write", "meta"},
    colls <- tcolls, objs <- tobjs, marked <- tmeta

\* Over repeated calls, failures and a truncated archive, extraction takes up
\* the items asked for in the order of the index, restores one at a time,
\* touches no other data object, and marks only what is restored in full.
ImplementsRestore == Restoring!RestoreSpec

\* The call returns (or the agent is lost in Archive::open).
ExtractReturns == []<>Over
=============================================================================
