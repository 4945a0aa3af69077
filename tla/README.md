# TLA+ models of the iRODS microservices

This directory holds the TLA+ modules, TLC configurations and TLAPS proofs kept
beside the microservices of this repository. All of them are modelled: the
archive microservices `msiArchiveCreate`, `msiArchiveExtract` and
`msiArchiveIndex`, the registration of EPIC PIDs, the JSON operations, and the
microservices that look at files in a vault.

Source paths are relative to the root of the repository: `src/Archive.hh` is
the file in the repository's `src` directory (`src/src/Archive.hh` in
`PROJECT.json`).

## 1. Inventory

Each microservice is a plugin that an iRODS agent (one process per client
connection) calls from a rule. An agent runs one microservice at a time, but
many agents work on the same catalog, and a microservice consists of dozens of
server calls (`rsGenQuery`, `rsDataObjOpen`, `rsCollCreate`, ...), between any
two of which another agent may act. There are no threads and no callbacks other
than those libarchive and curl make during a call.

| Component | State it keeps | Operations | Interacts with |
|---|---|---|---|
| Walk of the collection tree (`src/msiArchiveCreate.cc`: `dirColl`, `dirDataObj`, `attr*`, `acl*`; `Archive::addColl`, `addDataObj`) | the recursion (loop variables, `continueInx`, the `dirs` list), `Archive::list`, `Archive::dataSize` | list sub-collections, list data objects, query attributes and ACLs, append items | the catalog, page by page |
| Construction of an archive (`msiArchiveCreate`, `Archive::create`, `construct`, the destructor, `a_*` callbacks) | the libarchive object, `Archive::index`, two descriptors, the archive object | open with `O_TRUNC` or create, write `INDEX.json`, write header and data per item, free | the walk, the data objects, libarchive |
| Extraction (`src/msiArchiveExtract.cc`, `Archive::open`, `nextItem`, `extractItem`) | `Archive::index`, two descriptors, the target collection | open and check, free-space checks, create collections and data objects, set metadata | archives left by construction, earlier extractions |
| Attributes (`attributes` in `src/msiArchiveExtract.cc`) | the name of the element before | `rsModAVUMetadata` "set" or "add" | the AVUs of the extracted item |
| Index (`src/msiArchiveIndex.cc`) | none of its own | open, return the index | `Archive::open` |
| JSON arrays and objects (`src/msi_json_arrayops.cc`, `src/msi_json_objops.cc`) | none of their own; the rule keeps document, value and pairs, whose buffers the microservice allocates | add, find, rm, get, size, set on one JSON document | jansson, the rule engine that frees the pairs |
| EPIC PIDs (`src/msiRegisterEpicPID.cc`, `src/CredentialsStore.hh`) | credentials, the static payload counter | build a PID, PUT it to the handle server | curl, the handle server |
| Vault files (`src/msi_stat_vault.cpp`, `src/msi_dir_list.cpp`, `src/msi_file_checksum.cpp`) | none, but `_rei->status` goes from one microservice of a rule to the next | stat, list or checksum a physical path | the catalog (type, host, vault path of a resource), the file driver, the local file system |

What is hard, and what makes each component correct:

* **Walk.** The tree changes between the queries; rows come in pages; open
  statements are a scarce resource of the server, and the recursion must not
  hold one per level. Correct means: the index lists a collection before its
  contents (extraction depends on it), nothing twice, nothing missing in a quiet
  catalog, a constant number of open statements, termination.
* **Construction.** The sizes in the index are as old as the walk; a data
  object may be gone, shorter or longer when it is copied. Every libarchive or
  server call may fail, and the archive is closed and kept nevertheless.
  Correct means: whatever happened, an archive is left that can be extracted by
  position; an archive that lies in the collection is not copied into itself; no
  descriptor stays open; early errors leave an earlier archive alone; status 0 means complete.
* **Extraction.** Contents are matched to names by position; the archive may be
  cut off; the target may hold what an earlier, failed call left. Correct means:
  each data object gets its own content, a holder exists before its contents,
  the recorded free space is respected, metadata is set on complete items only,
  other objects are untouched, status 0 means extracted.
* **Attributes.** "set" replaces, "add" adds; which is used depends on the order
  of the array. Correct means: AVUs of other names stay, those of archived names
  are restored.
* **JSON operations.** Everything between the rule and the microservices is
  text, and values are recognised by their spelling; the pairs of
  `msi_json_objops` come back with values that are shared or missing. Correct
  means: what `get` gives means the same value when it goes in again, an array
  that is built by `add` repeats nothing but booleans, and a rule that asks only
  for what is there does not lose its agent.
* **EPIC PIDs.** A PUT may fail after the server acted, or be acted on after the
  client gave up; the rule calls again with an in/out parameter; curl takes the
  payload in parts. Correct means: what the rule is told is registered, one
  handle at most comes of it, payloads are whole.
* **Vault files.** The resource is read by one query or by three, files are
  looked at by several system calls, on this server and on the host of the
  resource. Correct means: what is reported was so at a moment of the call, for
  a path in the vault; a call that nothing disturbs succeeds.

`PROJECT.json` lists these hazards with the line where each one bites.

## 2. Modules

| Module | Models | EXTENDS |
|---|---|---|
| `ArchiveItems` | items of `INDEX.json`, the rounding to blocks, the archive as a stored object, and what a well-formed archive is | |
| `Catalog` | the catalog and what other agents do to it (external) | `ArchiveItems` |
| `ArchiveWalk` | `dirColl`, `dirDataObj`, `addColl`, `addDataObj` | `Catalog` |
| `ArchiveCreate` | `msiArchiveCreate` as a whole; takes the walk's actions as its own phase | `ArchiveWalk` |
| `ArchiveExtract` | `msiArchiveExtract` and `msiArchiveIndex` as a whole, and another agent that truncates the archive | `ArchiveItems` |
| `ArchiveLog` | abstract: what `msiArchiveCreate` promises; `ArchiveCreate` implements it (`ImplementsLog`) | `ArchiveItems` |
| `Restore` | abstract: what calls of `msiArchiveExtract` promise; `ArchiveExtract` implements it (`ImplementsRestore`) | `ArchiveItems` |
| `ArchiveSystem` | creation followed by extraction over one archive object | `ArchiveCreate`, an instance of `ArchiveExtract` |
| `Attributes` | `attributes()` | |
| `EpicPID` | `msiRegisterEpicPID`, `readCallback`, `CredentialsStore`, the handle server (external) | |
| `JsonOps` | `msi_json_arrayops`, `msi_json_objops` | |
| `VaultFiles` | `msiStatVault`, `msiFileChecksum`, `msiDirList` | |
| `MCWalk`, `MCCreate`, `MCExtract`, `MCSystem`, `MCAttributes`, `MCEpic`, `MCJson`, `MCVault` | the instances TLC checks | |
| `ArchiveItemsProofs` | lemmas about the block count, and induction for sets of numbers | `ArchiveItems` |
| `ArchiveCreateProofs` | theorems about `ArchiveWalk`, and about `ArchiveCreate` | `ArchiveCreate` |
| `ArchiveSystemProofs` | theorems about creation and extraction together | `ArchiveSystem`, `ArchiveCreateProofs` |
| `ArchiveExtractProofs`, `AttributesProofs`, `EpicPIDProofs`, `JsonOpsProofs`, `VaultFilesProofs` | theorems about the module each is named after | that module |

`WellFormed` in `ArchiveItems` is the contract between the two halves:
`ArchiveCreate` shows that whatever it leaves behind satisfies it, and
`ArchiveExtract` assumes no more than that of the archives it is given
(`ExtractAssumption`). `ArchiveSystem` needs no contract: it extracts what was
created.

`ArchiveLog` and `Restore` say the same as a process. Creation lists an index,
holders first, logs its items in that order and keeps the log or a first part of
it; an error before the archive object is opened changes nothing. A call of
extraction has a plan, the items asked for; it takes them up in the order of the
index, empties, fills and marks one at a time, touches nothing else, and the
first item that cannot be restored ends it with an error. The refinement
mappings are `Log` and `Restoring`: phases are functions of `pc`, the log is
`arc.entries`, and the number of items taken up is `cur`, or for one item whether
it has been reached. `ArchiveLog` and `Restore` have no counterpart in the code
and no entries in the map.

### How state and actions correspond to the code

* *Paths* are members of a finite tree (`Coll`, `ParentOf`) and a base name, not
  strings. An *item* keeps its type, name and size; the JSON fields that only
  carry metadata are left out.
* *The recursion* of `dirColl` is the variable `stack`, the running activation
  at its head. `dirColl` makes its recursive calls only after its query loop, so
  its activation is replaced by the calls of the final `for` loop (`Calls`).
  `phase` is where the loop body is: in the query, in the attributes query of a
  row, in its ACL query. `cont` is `continueInx # 0`.
* *A query* sees the catalog when its first page is asked for; `rest` holds the
  rows of that result that were not returned yet. A page is any set of
  `PageSize` rows, or the remaining ones, since no query asks for an order.
* *`ArchiveCreate.pc`*: `start` (parameters, `collID`), `create`
  (`Archive::create`), `walk`, then `construct()`: `item` (head of the loop),
  `open` (header written, data object to be opened), `read` (copying), `free`
  (`archive_write_free`), `done`. `arc` is what was handed to libarchive,
  `stored` what has reached the archive object for good. Content is a number of
  units; libarchive cuts off what exceeds the size in the header.
* *`ArchiveExtract.pc`* follows `msiArchiveExtract` in the same way; `crashed`
  is the agent lost to undefined behaviour in `Archive::open`. The target
  survives a call (`tcolls`, `tobjs`), so `CallAgain` models a rule that tries
  again after a call that was broken off.
* *`ArchiveExtract.Truncated`* is the `_creat` of another agent's
  `msiArchiveCreate` for the same path: what this call has not read yet may be
  gone, and the next call finds what the other agent made of the archive.
* *`ArchiveSystem`* takes the actions of both microservices as they are; the
  archive object `stored` of creation is the `archive` of extraction. `touched`
  records which names other agents changed during creation.
* *`EpicPID.pc`*: `start`, `put` (`curl_easy_perform` is sending), `answer`,
  `done`, and `lost` for the exceptions that a NULL pointer causes. An identifier
  is the number of prefixes in front of the rule's uuid: `pid` adds one, and
  `idInOut` keeps it after 200 or 201 only. `late` holds requests that the
  client has given up.
* *`JsonOps`*: a value is its type and content; a text is empty, plain, or the
  spelling of a value, so the string `"true"` is the same text as the value true.
  `Element` and `Member` are what the two microservices make of a text, `Given`
  and `Got` what they give back. `shared` marks a value that is one of the three
  buffers a call allocates. `lost` is the agent after `strcmp` with NULL or after
  a buffer was freed twice. `careful` is a history variable: the rule never got a
  key that is missing or a number, nor null, true or false for two keys at once.
* *`VaultFiles`*: `world` is the row of the resource and what is on the disks;
  `worlds` is how it has been during the call, and the properties speak of it.
  `pc` goes from query to query and from system call to system call. A path is a
  sequence of names with `.` and `..`; `Normal` is `lexically_normal` and
  `InVault` the comparison of prefixes. `Place` is where a path leads, and `Stat`
  what the system call makes of it: `Way` are the directories on the way, and one
  of them that is missing, or a file (`Blocked`), ends it. `pending` are names
  the iterator of a listing still has, `counting` and `counted` belong to the
  second iterator, which counts the entries of a subdirectory.
* *Failures*: any server or library call may fail; `faults` counts the failures
  and `MaxFaults` bounds them.

Operators named `Slip...` are deliberately wrong variants of the definition
that follows each of them: the mistakes the properties are there to catch.
They are not part of the models.

### Assumptions about what is outside the repository

* `rsGenQuery`: a full page comes with `continueInx # 0` and leaves its
  statement open; `CAT_NO_ROWS_FOUND`, a last page and an error close it. The
  result of a query is fixed when it starts.
* Catalog: collection ids are not reused; the archived collection itself is not
  renamed or removed while it is archived (it is also checked not to exist);
  all good replicas of a data object have the same size. Removing and renaming
  apply to collections without sub-collections.
* A data object is opened through one of its good replicas and read at the size
  it had when opened.
* libarchive: the content of an entry is cut off or padded to the size in its
  header, as in the pax format. (A zip archive is cut off in the same way but
  not padded; contents of zip archives are not modelled.) A header written with
  a warning is in the archive although `construct` returns an error. `archive_write_free` flushes, writes the end and calls `a_close`,
  except in the fatal state. `archive_read_open` closes what it cannot
  recognise.
* An `INDEX.json` that names no `collection` makes `Archive::open` build a
  `std::string` from NULL; such an archive counts as one without an index
  (`bare`, `OpenRejects`), one without `items` has an empty index. Creation
  writes both.
* `parseMspForStr` gives NULL for the string "null".
* curl sends as many bytes as were announced, or fails; the handle server acts
  only on a whole request, in any order, and replaces a handle that exists.
* jansson: `json_loads` without flags reads arrays and objects only and
  `json_dumps` without flags writes them only; `json_equal` is equality of
  values. The server frees each value of key-value pairs by itself.
* File system: a path is resolved directory by directory; no directory on the
  way is a symbolic link, and `..` of the root is the root. (`lexically_normal`
  looks at names only: the normal form may lead where the path itself does not,
  through a directory that is missing, and keeps a `..` in front of a path that
  climbs above the root.) A vault path does not end in a slash, is not the root
  and does not begin with `..`. A directory iterator, also the
  one that only counts, gives each name once, all that were there when it was
  opened and stay, and perhaps others. The type of an entry is that of the file
  at the moment the entry is given.
  `chksumLocFile` reads the file as it is at one moment. An agent may know the
  host of a resource from a row that has changed since.

## 3. Runs

All passing runs check deadlock: a microservice that has returned stutters in
an explicit disjunct, so a deadlock would be a microservice stuck in the middle.

| Run | Checks | Shows |
|---|---|---|
| `walk` (`MCWalk.cfg`) | `WalkTypeOK`, `StatementsBounded`, `HoldersListedFirst`, `CollectionsListedOnce`, `IndexExact`, `WalkTerminates` | the index is ordered, exact in a quiet catalog and without repetitions in a changing one; at most three statements are open, that of `collID` included |
| `create` (`MCCreate.cfg`) | `CreateTypeOK`, `StoredWellFormed`, `DescriptorsClosed`, `SuccessIsComplete`, `QuietRunSucceeds`, `ImplementsLog`, `CreateReturns` | what is left behind, whatever fails or changes, when the status can be relied on, and the refinement of `ArchiveLog` |
| `extract` (`MCExtract.cfg`) | `ExtractTypeOK`, `OwnContent`, `SuccessIsExtracted`, `HolderIsThere`, `SpaceRespected`, `MetadataOnExtracted`, `DescriptorsReleased`, `ImplementsRestore`, `ExtractReturns` | two calls in a row on every archive that creation can leave, on objects that are none, and on one that is truncated meanwhile; the refinement of `Restore` |
| `system` (`MCSystem.cfg`) | `RoundTrip`, `UntouchedRestored`, `NothingElseRestored` | an undisturbed collection comes back exactly, read in full and not padded; what others change during archiving costs at most what they changed, and adds nothing else |
| `attributes` (`MCAttributes.cfg`) | `TypeOK`, `OtherNamesKept`, `LastRunOnly` | what `attributes()` does for each order of its array |
| `epic` (`MCEpic.cfg`) | `ReportedIsRegistered`, `OneHandle`, `BodyWhole` | retrying is safe: one handle at most, and what is reported is there |
| `json` (`MCJson.cfg`) | `NoDuplicates`, `FoundAgain`, `GetSetIdentity`, `CarefulRuleSafe` | values survive the way through text, with the exceptions named in the properties |
| `vault` (`MCVault.cfg`) | `StatTrue`, `ChecksumTrue`, `ListingExact`, `QuietCallSucceeds` | what a result says of files that change meanwhile |
| `archive_status` (`MCSystemStatus.cfg`) | `StatusZeroMeansArchived` violated | findings 1 and 2 |
| `attributes_order` | `AttributesSet` violated | finding 3 |
| `checksum_status` (`MCVaultStatus.cfg`) | `StatusZeroMeansChecksum` violated | finding 4 |
| `stat_type` (`MCVaultType.cfg`) | `DocumentedType` violated | finding 5 |

### Bounds

* *Tree*: four paths, three levels, two siblings; four ids so that a collection
  can be created, removed and created again under an old path. Three levels are
  the least at which a listed collection can have its parent renamed before its
  own contents are listed.
* *`PageSize = 2`*: full pages, exact last pages and short pages all occur, and
  the initial catalogs have data objects with stale and with several good
  replicas. `MaxAvuPages = 1` lets an inner query hold its statement.
* *`MaxEdits`*: 2 in `walk` and in `system` (one edit can create a conflict and the next one
  resolve or aggravate it, such as a rename followed by a new collection with
  the old path), 1 in `create`, whose states are many more.
* *`MaxFaults = 1`*: after a failure the microservice either ignores it or runs
  down to its return; the only call on that path whose failure matters is
  `archive_write_free`, and `fatal` covers it.
* *Sizes* 0, 1 and 3 with `Block = 2` and `Buf = 2`: empty, below a block, not a
  multiple of one; copying takes no turn, one, or two.
* *Extraction*: three indexes (a nested tree; one data object listed twice, as
  two good replicas with different times are; no collections), cut off after
  every number of entries, with and without an end, with the last entry complete
  or not, and any shorter one when it is truncated during a call; free space unset, too small and sufficient; an empty target or one
  with a longer earlier version. Two calls, since a call only sees what the one
  before left.
* *Attributes*: arrays of up to four different AVUs of two names, on every set
  of AVUs of three names; four elements are enough for two runs of each name.

* *System*: one catalog, the full tree with the archive in it, a stale replica
  and two good ones, an empty collection, sizes 0 and 3. No call fails (`MaxFaults = 0`):
  `RoundTrip` and `UntouchedRestored` are about successful calls, and
  `NothingElseArrives` proves `NothingElseRestored` with failing calls. In
  `archive_status` the archive lies outside a small collection and one call may
  fail; others do nothing, so whoever is misled is misled by the two
  microservices alone.
* *EPIC*: payloads of two and three units read one or two at a time, three calls
  (a call, one that meets its late request, and one more), two refusals.
* *JSON*: arrays of up to three elements, two keys, and a text of each kind.
  Three elements are enough for a repetition on either side of another element.
* *Vault*: two servers, two vaults, one with a file and a directory that has an
  entry and a place for another; two changes during a call, so that something
  can go and come back, an entry be removed and another made while they are
  counted, or a resource and a file change together. On one of the two disks
  the file is a socket, the entry a link to nowhere, and what lies outside a
  block device. Nine paths, with `.`, `..`, the
  vault itself with and without a slash at its end, a file taken for a directory,
  and a path that climbs above the root.

### Fairness

The specifications assume weak fairness of the microservice's own steps as a
whole: an agent keeps executing, and each server call returns (with an error if
need be). Nothing is assumed of other agents, and no rule has to call again.
`EpicPID` assumes no fairness, and has no liveness property: the code sets no
timeout, so a request may wait for ever. `JsonOps` and `VaultFiles` have loops
over data that is there or that others can go on extending, and are checked for
safety only.

## 4. Proofs

The theorems hold for every value of the constants that the named assumptions
allow: any tree, any catalog, indexes, arrays, paths and disks of any size, any
number of edits, failures and calls. Each component has an inductive invariant
(the walk three, each built on the one before);
TLC checked each one on the run of its component before it was proved. The
properties follow from it, conjunct by conjunct.

### What is assumed of the constants

The assumptions say what the code cannot be without, and TLC evaluates each of
them in a run. `TreeAssumption`: going up from a collection ends at the root.
`BlockAssumption`: a block has at least one unit. `CatalogAssumption`: a path has
one id, and good replicas of a data object have one size when the call begins
(later edits may change both; what is concluded from it says "as long as nobody
interferes"). `CatalogTreeAssumption`: a catalog the run starts from is a tree of
collections, and a data object lies in a collection, which iRODS sees to;
`IndexIsExact` and the theorems about creation and extraction together need
it. `CreateAssumption`, `WalkAssumption`, `AttributesAssumption`, `EpicAssumption`: buffers, pages, payloads and numbers of calls are not empty, and
a refusal of the handle server is not 200 or 201. `ExtractAssumption`: archives
are well-formed, which `ArchiveIsReadable` proves of everything `msiArchiveCreate`
leaves, or no archives; a data object in the target has content under its own
name. `JsonAssumption`: a text that jansson reads has the form of a JSON value,
and the pairs a rule makes by itself have no NULL and no shared value.
`VaultAssumption`: there are finitely many places, and a vault path is not the root
and does not begin with `..`.

### Helpers

`ArchiveItemsProofs`: `SetInduction` (a set of numbers with 0 that is closed under
successor is `Nat`, from the well-foundedness of `<`) stands in for the induction
theorems of the library, which the installed provers cannot instantiate. With it,
recursive *functions* can be reasoned about: a function with the recursion
equation exists (`SumExists`), any two agree (`SumsAgree`), and `Blocks` is one
(`RecursionIsSum`). Hence `BlocksOfAppend` (the counter of `addDataObj` is the sum
of the index) and `BlocksOfPart` (part of an index takes no more space).
`JsonOpsProofs` and `VaultFilesProofs` do the same with the loop over the keys
(`AllKeys`) and with the loops over the names of a path (`Normal`, `Place`).

### Creation

`WalkInv`: the order of the index is not inductive by itself, since an item is
appended on the word of rows that were fetched earlier. `WalkInv` adds what the
walk knows of its activations: each works on the root or on a collection that is
listed (`Known`), its rows lie in that collection, and what it will visit is
listed (`FrameOK`). Nothing in it speaks of the catalog, which is why edits
cannot break it. `StatementsBounded` needs `CallersIdle`: only the head of the
stack can have `continueInx # 0`, since activations are pushed when the loop of
their caller is over. With the statement of an attribute or ACL query and the
one that `collID` leaves open (`CollIDStatements`) there are at most three. Theorems: `WalkTypeCorrect`, `IndexIsOrdered`,
`StatementsStayBounded`.

`NoCollectionTwice` is about the catalog as well. `OnceInv` adds that paths stay
unique under edits (`UniquePaths`), that each collection is visited by one
activation (`AllFresh`, `Behind`), and that before an activation runs nothing in
its collection is listed (`Front`, `Childless`): a collection that is renamed
under another one can be listed only by whoever visits its new parent.

`IndexIsExact` keeps accounts. Of a walk without edits and failures `ExactInv` says
that there is a set of rows, `done`, with one item in the list for each
(`Accounts`); no row in it comes again; and every other row of the complete listing
is held by the running activation (`Held`), or belongs to a query that is due
(`Due`: an activation that has not run yet, or a collection that the running one
will visit), or lies in a collection that is not listed. That nothing is repeated
rests on each query being due once (`OneCall`) and on page and rest being disjoint
parts of the rows of the query (`Working`), so a page that is exactly full neither
ends the loop nor loses a row. When the stack is empty nothing is held or due, so
what is missing lies in unlisted collections; these would include one whose parent
is listed, by `TreeAssumption`, and it is not missing: `done` is the complete
listing (`AllDone`).

`CreateInv` is about the whole microservice: `Positions` (where it is: nothing
listed before the walk, nothing written before its end), `Written` (libarchive
has nothing, or an index and entries of its first items), `Progress`
(`Archive::index` follows the entries; what was copied is what was read),
`Descriptors` as a function of `pc`, `Outcome` (why the call came to its end), and
`ListingInv`: what is listed can be opened as long as nobody interferes. Theorems:
`CreateTypeCorrect`, `ArchiveIsReadable`, `NothingStaysOpen`,
`SuccessMeansComplete`, `QuietRunsSucceed`. The last one
says that the only errors of an undisturbed run are an invalid argument, a
collection that does not exist and an archive path that cannot be created.

`CreateImplementsLog` is the refinement: each step is a step of `ArchiveLog` under
the mapping `Log`, or leaves its variables alone. The walk is one abstract step
that lists an index, and `IndexIsOrdered` is what makes it a legal one.

### Extraction

`Inv` of `ArchiveExtractProofs`: `Descriptors` and `Control` (what has been decided
on the way to `pc`), `Writing` (the data object in work has a first part of its
own content), `SpaceFound`, `PathThere`, and how far the loop has come:
`AllSoFar` (everything the loop is through with is in the target, unless a later
item of the same name has been taken up, since two replicas of one object may
be listed), `OneSoFar` (a loop that looks for one name has passed over others
only) and `EndReached`. Theorems: `ExtractTypeCorrect`, `ContentUnderItsName`,
`HoldersComeFirst`, `MetadataComesLast`, `DescriptorsAreReleased`,
`SpaceIsRespected` (with `BlocksOfPart`), `SuccessMeansExtracted`, and the refinement
`ExtractImplementsRestore`, for any number of calls and truncations.

The attempt to prove it made one statement sharper: `SuccessIsExtracted` is about calls that extract (`request.op # "index"`), and of a
name that is listed twice it speaks of the item that decides (`Decisive`): the
last one of a whole archive, the first one when a single item is asked for.

### Creation and extraction together

`SystemInv` of `ArchiveSystemProofs` (`SystemInvariance`) has two halves.

`SourceInv` follows `msiArchiveCreate` among other agents, who may create, remove,
rename and overwrite what they like between any two of its steps. It is about
the names that nobody has touched, and says that for them the catalog might as
well have stood still. What the walk holds of them is true (`IntactFrame`,
`IntactItem`), what is copied of them is all there is (`CopiedIntact`), and as
long as nothing has gone wrong each of them is listed, or held as a row, or
found by a query that is due, or in a collection that is not listed (`Covered`).
Two facts about edits carry this (`TouchedOK`): with a collection that comes or
goes its data objects are touched, and since only collections without
sub-collections move, the collections above an untouched one are untouched. The
catalog stays a tree (`Rooted`), so when the stack is empty the last case would
give an unlisted collection with a listed parent, and every untouched name is in
the index (`AllNamed`). Unlike `ExactInv` this needs no accounts: an index that
repeats an item does no harm here, as the next half shows.

`TargetInv` follows `msiArchiveExtract` over what the first call left, of which it
knows nothing but `CreateInv`: the target has nothing but items that were taken up
(`OnlyItems`), and if nothing has gone wrong it has all of them, with metadata,
each data object as long as one of its items says (`AllArrived`, `Full`, or
`Writing` for the one in work, which may be there already under that name).

At the end `WhatArrived` puts the halves together. That the length some item gives
is the length of a good replica of today, and that every entry of the name was
read in full, needs that untouched good replicas have one size (`OneSize`).
`UntouchedIsRestored` follows for any edits, and `RoundTripHolds` with the other
direction, that nothing is archived that is not in the collection
(`OnlyArchivable`).

`NothingElseArrives` says that of every run of the two calls, successful or not:
whatever is in the target is a name of the collection or was touched. It adds to
`SystemInv` that the index of the archive object is the list of the walk or empty
(`StoredListed`), also in an archive that broke off. The archive itself is no such
name. Nothing stronger holds: `addDataObj` compares paths, and an agent that
renames the archive's collection after `Archive::create` has the archive copied
into itself, as a data object of the new path.

The proof corrected `Archivable`, the names that a round trip has to reproduce. It
left out `Target` whatever `Target` stands for; with an archive outside the
collection (`NoBase`) that was a collection, which is archived like any other.
`addDataObj` passes over a data object with the path of the archive and over
nothing else (`src/Archive.hh`). `MCSystem` has the archive inside the collection.

### The others

* `AttributesProofs`: `TypeCorrect`, `OtherNamesSafe`, `LastRunRestored`.
  The invariant adds `NameFollows`: `name` is the name of
  the element handled last.
* `EpicPIDProofs`: `ReportIsTrue`, `AtMostOneHandle`, `StoredWhole`. The invariant:
  what `readCallback` has not handed out is what is missing from the body
  (`Sending`), whatever the static counter held before; requests that the server
  has or may still get are whole and name one PID (`Good`), because `idInOut` gets
  its prefix no sooner than the rule is told of success (`Prefixed`).
* `JsonOpsProofs`: `ElementsAreFoundAgain`, `GettingAndSettingAgree`,
  `CarefulRulesAreSafe`, and `ArraysStayClean`: `NoDuplicates` is kept by every step,
  so it holds of every run that begins with it; a rule may begin with a document
  that repeats itself, and then it stays so. `JsonInv` keeps the document one
  that jansson can hold, and a careful rule's pairs without NULL and without a
  buffer that is there twice.
* `VaultFilesProofs`. First about paths of any length: `lexically_normal` gives the
  place the path leads to, with a dot behind it if the path ends in one, unless
  it climbs above the root (`NormalAndPlace`), and goes by no directory that the
  path itself does not pass (`NormalWay`, with `PrefixesPassed`: whoever reaches a
  place has come by every directory above it). So a path that the prefix
  comparison accepts is in the vault by the file system too (`InVaultPlace`), and a
  file accepted is below the vault and not the vault itself (`FileInVault`). Then
  `VaultInv`: what has been read or concluded was so in some world of the call
  (`StatOK`, `ChecksumOK`, `ListOK`), which changes by others cannot undo since
  `worlds` only grows; names are in the listing, in work or with the iterator once
  (`NamesOnce`); what the second iterator has given and still has covers every
  entry that stays, and only entries there have been (`CountingOK`, `CountTrue`), so
  a count lies between the two numbers and may be none the directory ever had; and a call in fit circumstances has got on, unless a dangling link ends it
  (`QuietOK`). Theorems:
  `StatTellsTheTruth`, `ChecksumIsOfTheFile`, `ListingIsExact`,
  `UndisturbedCallSucceeds`.

  The proof of `QuietCallSucceeds` is what brought path resolution into the model.
  As it was stated first, normal form and path led to the same file by
  definition; without that, a call on a path through a missing directory
  fails although its normal form is there, and the property has to say so.

### Model-checked only

* Liveness (`WalkTerminates`, `CreateReturns`, `ExtractReturns`): fairness and
  ENABLED are beyond the prover.
* The runs that end in a violation.

## 5. Findings

1. `archive_status`: `construct` does not look at the result of
   `archive_write_free` (`src/Archive.hh:359`), which flushes the last blocks and
   writes the end of the archive. Status 0 may come with a truncated archive.
2. `archive_status`: `nextItem` returns NULL for the end of the archive and for
   an error alike (`src/Archive.hh:387`); an archive that stops short of its
   index is extracted with status 0. In the trace both happen: the last flush of
   creation fails, extraction finds no entry, both return 0, and nothing is there.
3. `attributes_order`: `attributes()` "sets" whenever the name differs from that
   of the element before (`src/msiArchiveExtract.cc:92`). Rows come from queries
   without an order, so an array `color=1, size=1, color=2` loses `color=1`.
4. `checksum_status`: `msiFileChecksum` looks for the file on this server first,
   and then with `rsFileStat` on the host of the resource. When it is not found
   there, `_rei->status` is returned as an earlier microservice left it
   (`src/msi_file_checksum.cpp:203`): a rule may see 0 and have no checksum. No
   race is needed, only a resource on another server; in a race the file is
   removed between the two calls.
5. `stat_type`: `msiStatVault` gives a directory the type "DIR"
   (`src/msi_stat_vault.cpp:227`); the comment at line 24 says "DIRECTORY".

Also visible in the models or met while writing them, without a run:

* A failing query in the walk ends its loop like the end of the rows, so the
  index silently lacks a part of the tree; a data object with two good replicas
  that differ in modification time is listed, counted and copied twice (and comes
  out once: `RoundTrip`).
* `Archive::open` deletes `data` before `archive_read_free` passes it to `a_close`
  (`src/Archive.hh:136`, `145`, `158`). Turning an archive down is undefined
  behaviour; `OpenRejects` takes each outcome into account.
* The comment at `src/Archive.hh:81` says that the name determines the
  compression, `archive.tar.gz` among the examples; no filter is ever added.
* `msiRegisterEpicPID` returns 0 and sets no output when `curl_easy_init` fails
  (`InitFails`), so a rule has to clear its variable between registrations.
* `msi_json_objops` gives true and false back as strings and reads "true" as a
  string, so a boolean that is got and set again becomes a string; keys that are
  missing or hold a number come back as NULL, which the next call compares with
  `strcmp`; null, true or false got for two keys is one buffer, freed twice.
  `CarefulRuleSafe` says when a rule is safe from this.
* File types are tested bit by bit (`src/msi_stat_vault.cpp:222`, `226`). The mode
  of a socket contains `S_IFREG` and that of a block device `S_IFDIR`, so the one
  is a "FILE" and the other a "DIR", not "OTHER". `StatTrue` says so of each type.
* One symbolic link to nowhere, and `msiDirList` lists nothing of the directory:
  the type SYMLINK is chosen, and then `last_write_time` follows the link and
  throws (`src/msi_dir_list.cpp:241`). `QuietCallSucceeds` says so.
* The query of `collID` asks for one row and gets a full page, and nobody asks for
  more (`src/msiArchiveCreate.cc:28`): its statement stays open until the agent
  ends, for every archive that is made.
* The archive is left out of itself by its path (`src/Archive.hh:212`). If its
  collection is renamed between `Archive::create` and `dirDataObj`, it is listed
  under the new path and copied into itself, as far as it goes.
* After a failing `rsFileStat`, `msiFileChecksum` logs the number of the resource
  with `%s` (`src/msi_file_checksum.cpp:172-176`). `LogCrashes` lets the call
  return its error or be lost.
* `subdirectory_entries` of a directory that changes meanwhile may be a number
  of entries that it never had (`src/msi_dir_list.cpp:237`).
* `msiDirList` reads vault path and host of the resource by separate queries, so
  the pair it checks need not have existed.

## 6. Not modelled

* The metadata in the items (ACLs, AVUs as data, times) beyond the attributes
  protocol, the mapping of paths to strings, `rodsLog` output.
* `modify` of `msiArchiveExtract` is one call that may fail.
* The archive format, zip or pax, and what distinguishes the contents of zip
  archives.
* The text of URLs, payloads (`escapeJson`) and listings, time stamps.
* Loading the credentials file: the store is any of the given contents.
* `src/irods_includes.hh` consists of include directives.

## 7. Plan

Every component is modelled, and every safety property that a passing run checks
is proved. What could follow: the metadata rows in the items with their paging,
which `ArchiveWalk` counts but does not carry, joined to `Attributes`, so that
`RoundTrip` speaks of AVUs too; and other agents at work during extraction.

## 8. Running

    tlc -workers 2 -config MCWalk.cfg MCWalk
    tlapm ArchiveCreateProofs.tla

`vault` takes about two minutes with two workers, `walk`, `create`, `extract` and
`system` about one or less each, the others seconds.
