----------------------------- MODULE VaultFiles -----------------------------
(***************************************************************************)
(* The microservices that look at files in the vault of a resource:        *)
(* msiStatVault (src/msi_stat_vault.cpp), msiFileChecksum                  *)
(* (src/msi_file_checksum.cpp) and msiDirList (src/msi_dir_list.cpp).      *)
(* While one of them runs, administrators change the resource and others   *)
(* change files, between any two of its catalog queries and system calls.  *)
(*                                                                         *)
(* A path is a sequence of names.  No directory on the way along a path is *)
(* a symbolic link.  A link to something counts as that thing, "link" is   *)
(* one that leads nowhere.                                                 *)
(***************************************************************************)
EXTENDS Naturals, FiniteSets, SequencesExt

CONSTANTS
    Hosts, Here,  \* servers, and the one the agent runs on
    Places,       \* paths, in normal form, where something can be
    Nodes,        \* what others put there: [kind, data]
    Busy,         \* pairs <<host, place>> where others are at work
    Rows,         \* what the catalog can say of the resource: [vault, loc, type]
    Disks,        \* what is on the disks at first: [Hosts -> [Places -> Node]]
    Requests,     \* calls: [op, path]
    MaxChanges    \* bound: changes by others during the call

Kinds == {"none", "file", "dir", "link", "socket", "block", "other"}
Node == [kind : Kinds, data : Nat]

IsSeq(s) == s \in Seq(ToSet(s))

\* No vault is the root, or above it.
ASSUME VaultAssumption ==
    /\ Here \in Hosts
    /\ IsFiniteSet(Places)
    /\ Nodes \subseteq Node
    /\ Busy \subseteq Hosts \X Places
    /\ \A row \in Rows : row = [vault |-> row.vault, loc |-> row.loc, type |-> row.type]
    /\ \A row \in Rows : IsSeq(row.vault) /\ row.vault # <<>> /\ row.vault[1] # ".."
    /\ \A row \in Rows : row.loc \in Hosts
    /\ Disks \subseteq [Hosts -> [Places -> Node]]
    /\ \A req \in Requests : req.op \in {"stat", "checksum", "list"} /\ IsSeq(req.path)
    /\ MaxChanges \in Nat

VARIABLES
    world,      \* [row, disk] now; row = NoRow: the resource does not exist
    worlds,     \* how world has been during the call
    changes,    \* number of changes by others
    request,    \* the call
    pc,         \* where the microservice is
    status,     \* what it returns
    reiStatus,  \* _rei->status
    known,      \* the row the microservice has read
    pending,    \* names the directory iterator still has
    entry,      \* the entry in work: [name, type, count]
    counting,   \* names the iterator of its subdirectory still has
    counted,    \* names that iterator has given
    listing,    \* jsonResult
    out,        \* the output parameter(s)
    faulty      \* a server call failed

envVars == <<world, worlds, changes>>
listVars == <<pending, entry, counting, counted, listing>>
vaultVars == <<envVars, request, pc, status, reiStatus, known, listVars, out, faulty>>

NoRow == [vault |-> <<>>, loc |-> "nowhere", type |-> "none"]
Before == <<"before">>  \* what the rule's variable held
NoEntry == [name |-> <<>>, type |-> "none", count |-> 0]

Init ==
    /\ world \in [row : Rows \cup {NoRow}, disk : Disks]
    /\ worlds = {world} /\ changes = 0
    /\ request \in Requests
    /\ pc = "start" /\ status = "ok"
    /\ reiStatus \in {"ok", "earlier error"}
    /\ known = NoRow
    /\ pending = {} /\ entry = NoEntry /\ listing = <<>>
    /\ counting = {} /\ counted = {}
    /\ out = Before /\ faulty = FALSE

-----------------------------------------------------------------------------
(* Paths and files.                                                        *)

\* Slip: ".." is kept.
SlipNormal(path) == SelectSeq(path, LAMBDA n : n # ".")

\* lexically_normal: "." goes away unless it is the last (a path that ends in
\* "/" ends in "."), ".." takes the name before it along and stays at the root.
AddNormal(path, name, last) ==
    CASE name = "." /\ ~last                                -> path
      [] name = ".." /\ path # <<>> /\ Last(path) # ".."    -> Front(path)
      [] OTHER                                              -> Append(path, name)

Normal(path) ==
    LET upTo[i \in 0..Len(path)] ==
            IF i = 0 THEN <<>> ELSE AddNormal(upTo[i - 1], path[i], i = Len(path))
    IN  upTo[Len(path)]

\* strncmp with the vault path, and '/' behind it.
InVault(path, vault) ==
    Len(path) > Len(vault) /\ SubSeq(path, 1, Len(vault)) = vault

\* External: the place a path leads to.
GoTo(place, name) ==
    CASE name = "."  -> place
      [] name = ".." -> Front(place)
      [] OTHER       -> Append(place, name)

Place(path) ==
    LET upTo[i \in 0..Len(path)] == IF i = 0 THEN <<>> ELSE GoTo(upTo[i - 1], path[i])
    IN  upTo[Len(path)]

Missing == [kind |-> "none", data |-> 0]
Blocked == [kind |-> "blocked", data |-> 0]  \* ENOTDIR

\* External: what is in a place; what is in a directory.
At(disk, place) == IF place \in Places THEN disk[place] ELSE Missing
Children(disk, dir) ==
    {p \in Places : /\ p # <<>> /\ Front(p) = dir
                    /\ disk[p].kind # "none"}

\* External: stat of a path.  It goes from directory to directory.
Way(path) == {Place(SubSeq(path, 1, i)) : i \in 1..(Len(path) - 1)} \ {<<>>}
Stat(disk, path) ==
    LET kinds == {At(disk, dir).kind : dir \in Way(path)}
    IN  IF kinds \subseteq {"dir"} THEN At(disk, Place(path))
        ELSE IF kinds \subseteq {"dir", "none", "link"} THEN Missing ELSE Blocked

Local == world.disk[Here]

-----------------------------------------------------------------------------
(* Others (external).                                                      *)

Become(w) ==
    /\ changes < MaxChanges
    /\ changes' = changes + 1
    /\ world' = w
    /\ worlds' = worlds \cup {w}

ChangeResource ==
    \E row \in (Rows \cup {NoRow}) \ {world.row} : Become([world EXCEPT !.row = row])

\* Something is made, removed, replaced or written.
ChangeFile ==
    \E spot \in Busy, node \in Nodes \cup {Missing} :
        LET host  == spot[1]
            place == spot[2]
            disk  == world.disk[host]
        IN  /\ node # disk[place]
            /\ node.kind # "dir" => Children(disk, place) = {}
            /\ node # Missing /\ Front(place) \in Places => disk[Front(place)].kind = "dir"
            /\ Become([world EXCEPT !.disk[host][place] = node])

Others ==
    /\ pc # "done"
    /\ ChangeResource \/ ChangeFile
    /\ UNCHANGED <<request, pc, status, reiStatus, known, listVars, out, faulty>>

-----------------------------------------------------------------------------
(* What the three have in common.                                          *)

Return(s) == pc' = "done" /\ status' = s

\* A step that returns s without an output.
Fail(s) ==
    /\ Return(s)
    /\ UNCHANGED <<envVars, request, reiStatus, known, listVars, out, faulty>>

Go(next) ==
    /\ pc' = next
    /\ UNCHANGED <<envVars, request, status, reiStatus, listVars, out, faulty>>

\* A NULL parameter, or a user who is not privileged.
Reject ==
    /\ pc = "start"
    /\ Fail("SYS_INVALID_INPUT_PARAM") \/ Fail("SYS_USER_NO_PERMISSION")

\* When rsFileStat fails, msiFileChecksum logs the resource id, a number, as a
\* string: undefined behaviour, which may cost the agent.
LogCrashes == request.op = "checksum" /\ pc = "stat"

\* A query fails, or rsFileStat or chksumLocFile for another reason than a
\* missing file, or the file system throws.
CallFails ==
    /\ pc # "done"
    /\ faulty' = TRUE
    /\ Return("call failed") \/ (LogCrashes /\ Return("crashed"))
    /\ reiStatus' = IF pc = "read" THEN "call failed" ELSE reiStatus
    /\ UNCHANGED <<envVars, request, known, listVars, out>>

\* get_resource_info: all columns in one query; then the type, if it matters,
\* and the path are looked at.
Query(types, next) ==
    IF world.row = NoRow \/ world.row.type \notin types THEN Fail("CAT_UNKNOWN_RESOURCE")
    ELSE IF ~InVault(Normal(request.path), world.row.vault) THEN Fail("SYS_INVALID_FILE_PATH")
    ELSE known' = world.row /\ Go(next)

\* External: rsFileStat goes to the host that the agent takes for that of the
\* resource; its table may be older than the row.
StatHosts == {w.row.loc : w \in {v \in worlds : v.row # NoRow}}
Statted(host) == Stat(world.disk[host], Normal(request.path))

\* -516002: stat follows links.
NotThere(node) == node.kind \in {"none", "link"}

\* rsFileStat fails: something on the way is no directory.
StatBlocked(op) ==
    /\ request.op = op /\ pc = "stat"
    /\ \E host \in StatHosts : Statted(host) = Blocked
    /\ Fail("UNIX_FILE_STAT_ERR") \/ (LogCrashes /\ Fail("crashed"))

-----------------------------------------------------------------------------
(* msiStatVault.                                                           *)

UnixFileSystem == {"unixfilesystem", "unix file system"}

StatQuery ==
    /\ request.op = "stat" /\ pc = "start"
    /\ Query(UnixFileSystem, "stat")

\* S_IFREG and S_IFDIR are tested as single bits: the mode of a socket has
\* that of a regular file, the mode of a block device that of a directory.
Types(node) ==
    CASE NotThere(node)                   -> <<"NOTEXIST", 0>>
      [] node.kind \in {"file", "socket"} -> <<"FILE", node.data>>
      [] node.kind \in {"dir", "block"}   -> <<"DIR", 0>>
      [] OTHER                            -> <<"OTHER", 0>>

StatFile ==
    /\ request.op = "stat" /\ pc = "stat"
    /\ \E host \in StatHosts : Statted(host) # Blocked /\ out' = Types(Statted(host))
    /\ reiStatus' = "ok"
    /\ Return("ok")
    /\ UNCHANGED <<envVars, request, known, listVars, faulty>>

-----------------------------------------------------------------------------
(* msiFileChecksum.                                                        *)

\* is_regular_file, on this server and before the resource is looked up.
ChecksumLook ==
    /\ request.op = "checksum" /\ pc = "start"
    /\ IF Stat(Local, request.path).kind = "file" THEN Go("query") /\ UNCHANGED known
       ELSE Fail("SYS_INVALID_FILE_PATH")

ChecksumQuery ==
    /\ request.op = "checksum" /\ pc = "query"
    /\ Query({world.row.type}, "stat")

\* Slip: the location of the resource is not compared with this host.
SlipChecksumStat ==
    /\ request.op = "checksum" /\ pc = "stat"
    /\ \E host \in StatHosts :
          /\ Statted(host) # Blocked
          /\ IF NotThere(Statted(host)) THEN Fail(reiStatus)
             ELSE Go("read") /\ UNCHANGED known

\* When there is no such file, _rei->status is returned as it was.
ChecksumStat ==
    /\ request.op = "checksum" /\ pc = "stat"
    /\ \E host \in StatHosts :
          /\ Statted(host) # Blocked
          /\ IF NotThere(Statted(host)) THEN Fail(reiStatus)
             ELSE IF known.loc # Here THEN Fail("USER_INVALID_RESC_INPUT")
             ELSE Go("read") /\ UNCHANGED known

\* chksumLocFile (external) reads the file, or fails.
ChecksumRead ==
    /\ request.op = "checksum" /\ pc = "read"
    /\ LET node == Stat(Local, request.path)
           s    == IF node.kind = "file" THEN "ok" ELSE "UNIX_FILE_OPEN_ERR"
       IN  /\ out' = IF s = "ok" THEN <<"digest", node.data>> ELSE out
           /\ reiStatus' = s
           /\ Return(s)
    /\ UNCHANGED <<envVars, request, known, listVars, faulty>>

-----------------------------------------------------------------------------
(* msiDirList.  get_resource_attribute_by_name is called three times.      *)

Listing(at) == request.op = "list" /\ pc = at

ListQueryId ==
    /\ Listing("start")
    /\ IF world.row = NoRow THEN Fail("CAT_UNKNOWN_RESOURCE")
       ELSE Go("look") /\ UNCHANGED known

Directory == Place(request.path)

\* exists and is_directory give the same error, and a directory exists.
ListLook ==
    /\ Listing("look")
    /\ IF Stat(Local, request.path).kind # "dir" THEN Fail("SYS_INVALID_FILE_PATH")
       ELSE Go("vault") /\ UNCHANGED known

ListQueryVault ==
    /\ Listing("vault")
    /\ IF world.row = NoRow THEN Fail("CAT_NO_ROWS_FOUND")
       ELSE IF ~InVault(Normal(request.path), world.row.vault) THEN Fail("SYS_INVALID_FILE_PATH")
       ELSE known' = [known EXCEPT !.vault = world.row.vault] /\ Go("loc")

\* Slip: strcmp is taken for equality.
SlipListQueryLoc ==
    /\ Listing("loc")
    /\ IF world.row = NoRow THEN Fail("CAT_NO_ROWS_FOUND")
       ELSE IF world.row.loc = Here THEN Fail("USER_INVALID_RESC_INPUT")
       ELSE known' = [known EXCEPT !.loc = world.row.loc] /\ Go("open")

ListQueryLoc ==
    /\ Listing("loc")
    /\ IF world.row = NoRow THEN Fail("CAT_NO_ROWS_FOUND")
       ELSE IF world.row.loc # Here THEN Fail("USER_INVALID_RESC_INPUT")
       ELSE known' = [known EXCEPT !.loc = world.row.loc] /\ Go("open")

ListOpen ==
    /\ Listing("open")
    /\ \/ Stat(Local, request.path).kind # "dir" /\ Fail("SYS_INVALID_FILE_PATH")
       \/ /\ Stat(Local, request.path).kind = "dir"
          /\ pending' = Children(Local, Directory)
          /\ pc' = "next"
          /\ UNCHANGED <<envVars, request, status, reiStatus, known,
                         entry, counting, counted, listing, out, faulty>>

Listed == {listing[i].name : i \in DOMAIN listing}

\* type, from entry.status(): FILE and DIR, SYMLINK for a link to nowhere.
EntryType(node) ==
    CASE node.kind = "file" -> "FILE"
      [] node.kind = "dir"  -> "DIR"
      [] node.kind = "link" -> "SYMLINK"
      [] OTHER              -> "none"

\* The iterator may or may not give a name that came after it was opened.  One
\* that is gone is given, or left out.
ListNext ==
    /\ Listing("next")
    /\ \E name \in pending \cup (Children(Local, Directory) \ Listed) :
          /\ pending' = pending \ {name}
          /\ \/ /\ entry' = [name |-> name, type |-> EntryType(At(Local, name)), count |-> 0]
                /\ pc' = "size"
             \/ /\ At(Local, name).kind = "none"
                /\ UNCHANGED <<entry, pc>>
    /\ UNCHANGED <<envVars, request, status, reiStatus, known,
                   counting, counted, listing, out, faulty>>

\* file_size throws when the file is no longer one.
ListSize ==
    /\ Listing("size") /\ entry.type # "DIR"
    /\ LET node == At(Local, entry.name)
       IN  IF entry.type = "FILE" /\ node.kind # "file" THEN Fail("SYS_INVALID_FILE_PATH")
           ELSE /\ entry' = IF entry.type = "FILE" THEN [entry EXCEPT !.count = node.data]
                            ELSE entry
                /\ pc' = "time"
                /\ UNCHANGED <<envVars, request, status, reiStatus, known,
                               pending, counting, counted, listing, out, faulty>>

\* subdirectory_entries: a second iterator is opened, or cannot be, ...
ListSubdirectory ==
    /\ Listing("size") /\ entry.type = "DIR"
    /\ IF At(Local, entry.name).kind # "dir" THEN Fail("SYS_INVALID_FILE_PATH")
       ELSE /\ counting' = Children(Local, entry.name) /\ counted' = {}
            /\ pc' = "count"
            /\ UNCHANGED <<envVars, request, status, reiStatus, known,
                           pending, entry, listing, out, faulty>>

\* ... std::distance goes on to its next name, under the conditions of ListNext, ...
ListCount ==
    /\ Listing("count")
    /\ \E name \in counting \cup (Children(Local, entry.name) \ counted) :
          /\ counting' = counting \ {name}
          /\ \/ counted' = counted \cup {name}
             \/ At(Local, name).kind = "none" /\ UNCHANGED counted
    /\ UNCHANGED <<envVars, request, pc, status, reiStatus, known,
                   pending, entry, listing, out, faulty>>

\* ... and has come to its end.
ListCounted ==
    /\ Listing("count") /\ counting = {}
    /\ entry' = [entry EXCEPT !.count = Cardinality(counted)]
    /\ counted' = {}
    /\ pc' = "time"
    /\ UNCHANGED <<envVars, request, status, reiStatus, known,
                   pending, counting, listing, out, faulty>>

\* Slip: an entry whose time cannot be read is skipped.
SlipListTime ==
    /\ Listing("time")
    /\ listing' = IF NotThere(At(Local, entry.name)) THEN listing
                  ELSE Append(listing, entry)
    /\ pc' = "next"
    /\ UNCHANGED <<envVars, request, status, reiStatus, known,
                   pending, entry, counting, counted, out, faulty>>

\* last_write_time follows links: it throws for a link to nowhere.
ListTime ==
    /\ Listing("time")
    /\ IF NotThere(At(Local, entry.name)) THEN Fail("SYS_INVALID_FILE_PATH")
       ELSE /\ listing' = Append(listing, entry)
            /\ pc' = "next"
            /\ UNCHANGED <<envVars, request, status, reiStatus, known,
                           pending, entry, counting, counted, out, faulty>>

ListEnd ==
    /\ Listing("next") /\ pending = {}
    /\ out' = <<"listing", listing>>
    /\ reiStatus' = "ok"
    /\ Return("ok")
    /\ UNCHANGED <<envVars, request, known, listVars, faulty>>

-----------------------------------------------------------------------------
msiStatVault == StatQuery \/ StatFile \/ StatBlocked("stat")

msiFileChecksum ==
    ChecksumLook \/ ChecksumQuery \/ ChecksumStat \/ StatBlocked("checksum") \/ ChecksumRead

msiDirList ==
    \/ ListQueryId \/ ListLook \/ ListQueryVault \/ ListQueryLoc
    \/ ListOpen \/ ListNext \/ ListSize \/ ListTime \/ ListEnd
    \/ ListSubdirectory \/ ListCount \/ ListCounted

Over == pc = "done" /\ UNCHANGED vaultVars

Next ==
    \/ Reject \/ CallFails
    \/ msiStatVault \/ msiFileChecksum \/ msiDirList
    \/ Others
    \/ Over

Spec == Init /\ [][Next]_vaultVars

-----------------------------------------------------------------------------
(* Properties.  Each is about what a rule may conclude from a call that    *)
(* returned while others worked.                                           *)

Succeeded(op) == request.op = op /\ pc = "done" /\ status = "ok"

Has(row, path) == row # NoRow /\ InVault(path, row.vault)

\* msiStatVault: type and size are those that the path had at one moment of the
\* call, or there was no way to it, and the path, ".." resolved, was in the vault
\* of the resource when it was a unixfilesystem resource.  A socket is a FILE
\* and a block device a DIR: their bits in the mode contain S_IFREG and S_IFDIR.
StatTrue ==
    Succeeded("stat") =>
        /\ \E w \in worlds : /\ Has(w.row, Place(request.path) \o <<".">>)
                             /\ w.row.type \in UnixFileSystem
        /\ \E w \in worlds, host \in StatHosts :
              LET node == At(w.disk[host], Place(request.path))
              IN  \/ out = <<"NOTEXIST", 0>>     /\ NotThere(Stat(w.disk[host], Normal(request.path)))
                  \/ out = <<"FILE", node.data>> /\ node.kind \in {"file", "socket"}
                  \/ out = <<"DIR", 0>>          /\ node.kind \in {"dir", "block"}
                  \/ out = <<"OTHER", 0>>        /\ node.kind = "other"

\* msiFileChecksum: a checksum that is given is that of a content the file had
\* during the call, on a server and in a vault that the resource had at one
\* and the same moment.
ChecksumTrue ==
    (Succeeded("checksum") /\ out # Before) =>
        /\ \E w \in worlds : w.row.loc = Here /\ Has(w.row, Place(request.path))
        /\ \E w \in worlds : LET node == At(w.disk[Here], Place(request.path))
                             IN  node.kind = "file" /\ out = <<"digest", node.data>>

\* Names that a directory had at some moment of the call, and at every moment.
Ever(dir)   == UNION {Children(w.disk[Here], dir) : w \in worlds}
Always(dir) == {p \in Ever(dir) : \A w \in worlds : p \in Children(w.disk[Here], dir)}

\* msiDirList: no name is listed twice; a name that was there all the time is
\* listed and one that never was is not; type and size are such as the file had
\* during the call.  The entries of a subdirectory are counted one by one, so
\* their number may be one that it never had, but it counts every entry that
\* was there all the time and none that never was.
ListingExact ==
    Succeeded("list") =>
        LET Was(name, kind) == {w \in worlds : At(w.disk[Here], name).kind = kind}
            named == {out[2][i].name : i \in DOMAIN out[2]}
        IN  /\ Cardinality(named) = Len(out[2])
            /\ \A p \in Places \ named :
                  (p # <<>> /\ Front(p) = Directory) => Was(p, "none") # {}
            /\ \A i \in DOMAIN out[2] :
                  LET e == out[2][i]
                  IN  /\ Was(e.name, "none") # worlds
                      /\ e.type = "FILE" =>
                            \E w \in Was(e.name, "file") : e.count = w.disk[Here][e.name].data
                      /\ e.type = "DIR" =>
                            /\ Was(e.name, "dir") # {}
                            /\ e.count \in Cardinality(Always(e.name))..Cardinality(Ever(e.name))
                      /\ e.type = "SYMLINK" => Was(e.name, "link") # {}

\* A privileged call with its parameters there has returned; meanwhile nothing
\* changed and no call failed; the resource is on this server, and the path in
\* its vault and does not go up from the root.
Undisturbed ==
    /\ pc = "done" /\ changes = 0 /\ ~faulty
    /\ status \notin {"SYS_INVALID_INPUT_PARAM", "SYS_USER_NO_PERMISSION"}
    /\ world.row.loc = Here /\ Has(world.row, Place(request.path))
    /\ Normal(request.path)[1] # ".."

\* A link in the directory leads nowhere.
Dangling == \E p \in Children(Local, Directory) : Local[p].kind = "link"

\* An undisturbed call succeeds: for any file that files are not in the way of
\* with msiStatVault, a regular one with msiFileChecksum, a directory with
\* msiDirList.  But one link that leads nowhere, and msiDirList lists nothing of
\* the directory ("Lists the contents of a physical directory", README.md): it
\* finds the type SYMLINK for it and then no time of last modification.
QuietCallSucceeds ==
    (/\ Undisturbed
     /\ request.op = "stat" => /\ world.row.type = "unixfilesystem"
                               /\ Stat(Local, Normal(request.path)) # Blocked
     /\ request.op = "checksum" => Stat(Local, request.path).kind = "file"
     /\ request.op = "list" => Stat(Local, request.path).kind = "dir")
    => IF request.op = "list" /\ Dangling
       THEN status = "SYS_INVALID_FILE_PATH" /\ out = Before
       ELSE status = "ok" /\ out # Before

\* "Calculate a checksum of a physical file" (README.md): a call that returns 0
\* has set its output.  It has not, when the file is on this server and not
\* where the resource is, or is removed meanwhile.
StatusZeroMeansChecksum == Succeeded("checksum") => out # Before

\* 'type: can be "NOTEXIST", "FILE", "OTHER" or "DIRECTORY"' (the comment of
\* msi_stat_vault.cpp).  A directory has the type "DIR".
DocumentedType == Succeeded("stat") => out[1] \in {"NOTEXIST", "FILE", "OTHER", "DIRECTORY"}
=============================================================================
