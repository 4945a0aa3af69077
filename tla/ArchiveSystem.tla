--------------------------- MODULE ArchiveSystem ---------------------------
(***************************************************************************)
(* msiArchiveCreate and msiArchiveExtract over one archive object: a rule  *)
(* archives a collection while other agents work on it, then everything is *)
(* extracted into an empty collection elsewhere.  The archive is whatever  *)
(* the first call left behind; nothing is assumed of it.                   *)
(***************************************************************************)
EXTENDS ArchiveCreate

VARIABLES
    xpc,      \* where msiArchiveExtract is
    xstatus,  \* its status
    xcur,     \* its Archive::index
    xfds,     \* its descriptors
    tcolls,   \* collections below the extraction path
    tobjs,    \* data objects below it
    tmeta,    \* items whose metadata has been restored
    request,  \* what is asked of it: everything
    shown, attempts, cut,  \* as in ArchiveExtract; they keep their first values
    touched   \* names that other agents changed while the archive was created

extractVars == <<xpc, xstatus, xcur, xfds, tcolls, tobjs, tmeta,
                 request, shown, attempts, cut>>
systemVars == <<vars, extractVars, touched>>

NoContents == [colls |-> {}, objs |-> <<>>]
Everything == [op |-> "all", name |-> [coll |-> Root, base |-> NoBase], space |-> 0]

E == INSTANCE ArchiveExtract WITH
    Archives <- ArchiveFile, Rewritten <- {}, Targets <- {NoContents},
    Requests <- {Everything}, MaxAttempts <- 1,
    pc <- xpc, status <- xstatus, archive <- stored, cur <- xcur, fds <- xfds

SystemInit ==
    /\ CreateInit
    /\ xpc = "open" /\ xstatus = "ok" /\ xcur = 0 /\ xfds = {}
    /\ tcolls = NoContents.colls /\ tobjs = NoContents.objs /\ tmeta = {}
    /\ request = Everything /\ shown = <<>> /\ attempts = 1 /\ cut = FALSE
    /\ touched = {}

\* What the catalog has under a name: collection ids, or replicas.
At(name) ==
    LET ids == {id \in CollId : collOf[id] = name.coll}
    IN  IF name.base = NoBase THEN ids ELSE {<<id, repl[id][name.base]>> : id \in ids}

Creating ==
    /\ CreateStep
    /\ UNCHANGED <<extractVars, touched>>

Editing ==
    /\ pc # "done"
    /\ CatalogEdit
    /\ touched' = touched \cup {name \in Name : At(name)' # At(name)}
    /\ UNCHANGED <<walkVars, faults, createVars, extractVars>>

Extracting ==
    /\ pc = "done"
    /\ E!ExtractStep
    /\ UNCHANGED cut
    /\ UNCHANGED <<catalogVars, walkVars, pc, status, arc, idx, src, off, fds, fatal, touched>>

SystemOver == pc = "done" /\ E!Over /\ UNCHANGED systemVars

SystemNext == Creating \/ Editing \/ Extracting \/ SystemOver

SystemSpec == SystemInit /\ [][SystemNext]_systemVars

-----------------------------------------------------------------------------
(* Properties.                                                             *)

\* Both microservices have returned 0, and no server call failed.
BothSucceeded ==
    /\ pc = "done" /\ status = "ok"
    /\ xpc = "done" /\ xstatus = "ok"
    /\ faults = 0

\* Names in the archived collection, the collection itself and the archive
\* left out.
Archivable ==
    {name \in Name :
        IF name.base = NoBase
        THEN name.coll # Root /\ PathTaken(name.coll)
        ELSE /\ name # Target
             /\ \E id \in CollId : /\ collOf[id] = name.coll
                                   /\ GoodReplicas(id, name.base) # {}}

\* Every entry of a name has n units of its data object, not padding.
Archived(name, n) ==
    \A e \in {stored.entries[k] : k \in DOMAIN stored.entries} :
        NameOf(e.item) = name => e.got = n

\* name is in the target as it is in the catalog, with its metadata; what the
\* archive has of it was read from the data object.
Restored(name) ==
    /\ name \in tmeta
    /\ IF name.base = NoBase
       THEN name.coll \in tcolls
       ELSE \E id \in CollId : \E r \in GoodReplicas(id, name.base) :
               /\ collOf[id] = name.coll
               /\ name \in DOMAIN tobjs
               /\ tobjs[name] = [of |-> name, units |-> r.size, len |-> r.size]
               /\ Archived(name, r.size)

\* Archiving and extracting an undisturbed collection reproduces it exactly,
\* over paging, stale and multiple replicas, the archive lying inside the
\* collection, and copying in chunks: a data object with two good replicas is
\* archived and extracted twice and still is there once, in full.
RoundTrip ==
    (BothSucceeded /\ edits = 0) =>
        /\ \A name \in Archivable : Restored(name)
        /\ tmeta = Archivable
        /\ DOMAIN tobjs \subseteq Archivable
        /\ tcolls = {Root} \cup {name.coll : name \in Archivable}

\* Other agents' changes during archiving cost at most what they touched: if
\* both calls succeed, every collection and data object that nobody changed is
\* restored as it is, wherever in the walk or the copying the changes fell.
UntouchedRestored ==
    BothSucceeded => \A name \in Archivable \ touched : Restored(name)

\* Collections of the target, the one at the extraction path left out.
Made == {[coll |-> c, base |-> NoBase] : c \in tcolls \ {Root}}

\* However the two calls end, nothing gets into the target but what the
\* collection holds and what other agents changed meanwhile: not the archive
\* itself, which lies in the collection while it is walked, no data object
\* without a good replica, nothing under a path that another collection had
\* before.  addDataObj compares names (Archive.hh:212): when the archive's
\* collection is renamed after Archive::create, the archive is copied into
\* itself under its new path; that name is then one that was changed.
NothingElseRestored ==
    tmeta \cup DOMAIN tobjs \cup Made \subseteq Archivable \cup touched

\* tests/msi_archive_create_test.r reports "Archive created successfully" and
\* tests/msi_archive_extract_test.r "Archive extracted successfully" when the
\* status is 0.  When both do, the archive had an entry for every item listed.
\* It need not: msiArchiveCreate drops the result of archive_write_free, which
\* writes the last blocks, and msiArchiveExtract takes an archive that stops
\* short for one that has come to its end.
StatusZeroMeansArchived ==
    (pc = "done" /\ status = "ok" /\ xpc = "done" /\ xstatus = "ok") =>
        Len(stored.entries) = Len(list)
=============================================================================
