------------------------------ MODULE MCVault ------------------------------
(***************************************************************************)
(* A resource with vault /v on this server or the other, or with vault /w  *)
(* here, or of another type.  In /v are a file or whatever replaces it and *)
(* a directory with a file and a place for another; /w has something that  *)
(* is no file.                                                             *)
(***************************************************************************)
EXTENDS VaultFiles, TLC

CONSTANTS v, w, f, d, x, y, here, there

MCPlaces == {<<v>>, <<v, f>>, <<v, d>>, <<v, d, x>>, <<v, d, y>>, <<w>>, <<w, f>>}

Thing(kind, data) == [kind |-> kind, data |-> data]
Dir == Thing("dir", 0)
File == Thing("file", 5)

MCNodes == {Dir, File, Thing("file", 7), Thing("link", 0)}

MCBusy ==
    {<<here, <<v, f>>>>, <<here, <<v, d>>>>, <<here, <<v, d, x>>>>, <<here, <<v, d, y>>>>,
     <<there, <<v, f>>>>}

Row(vault, loc, type) == [vault |-> <<vault>>, loc |-> loc, type |-> type]

MCRows ==
    {Row(v, here, "unixfilesystem"), Row(v, there, "unixfilesystem"),
     Row(w, here, "unixfilesystem"), Row(v, here, "s3")}

\* The other server has the vault without its file.
Disk(file, inside, outside) ==
    (here  :> [p \in MCPlaces |-> CASE p \in {<<v>>, <<w>>, <<v, d>>} -> Dir
                                    [] p = <<v, f>>                   -> file
                                    [] p = <<v, d, x>>                -> inside
                                    [] p = <<w, f>>                   -> outside
                                    [] OTHER                          -> Missing])
 @@ (there :> [p \in MCPlaces |-> IF p = <<v>> THEN Dir ELSE Missing])

MCDisks ==
    {Disk(File, File, Thing("other", 0)),
     Disk(Thing("socket", 0), Thing("link", 0), Thing("block", 0))}

MCPaths ==
    {<<v, f>>, <<v, d>>, <<v, ".">>, <<v>>, <<v, d, ".", "..", f>>, <<v, "..", w, f>>,
     <<v, d, "..", ".">>, <<v, f, x>>, <<"..", v, f>>}

MCRequests == [op : {"stat", "checksum", "list"}, path : MCPaths]
=============================================================================
