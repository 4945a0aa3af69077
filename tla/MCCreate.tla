------------------------------ MODULE MCCreate ------------------------------
(***************************************************************************)
(* msiArchiveCreate on the catalogs of MCWalk, and on a collection that    *)
(* does not exist.                                                         *)
(***************************************************************************)
EXTENDS ArchiveCreate, MCWalk

MCCreateSize == {0, 1, 3}

MCCreateCatalogs == MCInitCatalogs \cup
    {[collOf |-> [id \in MCCollId |-> none],
      repl   |-> Objs({}, {}, {}, {}),
      unused |-> MCCollId]}
=============================================================================
