------------------------------- MODULE MCWalk -------------------------------
(***************************************************************************)
(* A tree of four collection paths,                                        *)
(*        r -- a -- aa                                                     *)
(*          \- b                                                           *)
(* two base names, four collection ids.                                    *)
(***************************************************************************)
EXTENDS ArchiveWalk, TLC

CONSTANTS r, a, aa, b, x, y, none

MCColl == {r, a, aa, b}
MCParentOf == (a :> r) @@ (aa :> a) @@ (b :> r)
MCCollId == 1..4
MCSize == {1, 3}
MCTarget == [coll |-> a, base |-> y]

Good(s, t) == [good |-> TRUE, size |-> s, mtime |-> t]
Stale(s, t) == [good |-> FALSE, size |-> s, mtime |-> t]

Objs(rx, ay, ax, aax) ==
    [id \in MCCollId |-> [n \in {x, y} |->
        CASE id = 1 /\ n = x -> rx
          [] id = 2 /\ n = y -> ay
          [] id = 2 /\ n = x -> ax
          [] id = 3 /\ n = x -> aax
          [] OTHER -> {}]]

\* A full tree whose archive lies below the archived collection and whose data
\* objects have a stale replica, or two good replicas with different times; a
\* tree with two sub-collections on one level; and an empty collection.
MCInitCatalogs ==
    {[collOf |-> (1 :> r) @@ (2 :> a) @@ (3 :> aa) @@ (4 :> none),
      repl   |-> Objs({Good(3, 1)}, {Good(1, 1)},
                      {Good(3, 1), Good(3, 2), Stale(1, 1)}, {Good(1, 2)}),
      unused |-> {4}],
     [collOf |-> (1 :> r) @@ (2 :> a) @@ (3 :> b) @@ (4 :> none),
      repl   |-> Objs({}, {}, {Good(1, 1), Stale(3, 1)}, {Stale(3, 1)}),
      unused |-> {4}],
     [collOf |-> (1 :> r) @@ (2 :> none) @@ (3 :> none) @@ (4 :> none),
      repl   |-> Objs({}, {}, {}, {}),
      unused |-> {2, 3, 4}]}

MCStamp == {1, 2}
=============================================================================
