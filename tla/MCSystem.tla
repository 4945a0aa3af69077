------------------------------ MODULE MCSystem ------------------------------
(***************************************************************************)
(* Archiving and extracting the full tree of MCWalk: the archive lies in   *)
(* it and is registered already, one data object has a stale replica and   *)
(* two good ones, one is empty; one collection is empty.                   *)
(***************************************************************************)
EXTENDS ArchiveSystem, MCWalk

MCSystemSize == {0, 3}

MCSystemCatalog ==
    {[collOf |-> (1 :> r) @@ (2 :> a) @@ (3 :> aa) @@ (4 :> none),
      repl   |-> Objs({Good(3, 1)}, {Good(0, 1)},
                      {Good(3, 1), Good(3, 2), Stale(0, 1)}, {}),
      unused |-> {4}]}

\* Two data objects and a collection, the archive outside, for the run that
\* looks for one trace.
MCSmallCatalog ==
    {[collOf |-> (1 :> r) @@ (2 :> a) @@ (3 :> none) @@ (4 :> none),
      repl   |-> Objs({Good(3, 1)}, {}, {Good(3, 1)}, {}),
      unused |-> {3, 4}]}

MCOutside == [coll |-> r, base |-> none]
=============================================================================
