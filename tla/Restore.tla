------------------------------ MODULE Restore ------------------------------
(***************************************************************************)
(* What calls of msiArchiveExtract promise, whatever fails, whatever the   *)
(* archive turns out to hold and whatever was at the target: a call has a  *)
(* plan, the items of the index that were asked for; it takes them up in   *)
(* that order, one at a time; it touches no other data object; a data      *)
(* object is emptied, filled with its own content and marked with its      *)
(* metadata only when it is there in full; the first item that cannot be   *)
(* restored ends the call with an error.                                   *)
(***************************************************************************)
EXTENDS ArchiveItems

CONSTANTS
    Plans,  \* what calls may be asked to restore
    Before  \* what may be at the target: [colls |-> ..., objs |-> ...]

VARIABLES
    phase,   \* "idle", "restoring", "over"
    failed,  \* the call that is over reports an error
    plan,    \* the items to restore, in order
    n,       \* how many of them have been taken up
    busy,    \* item n is being restored
    colls,   \* collections of the target
    objs,    \* data objects of the target
    marked   \* names whose metadata this call has set

restoreVars == <<phase, failed, plan, n, busy, colls, objs, marked>>

RestoreInit ==
    /\ phase = "idle" /\ failed = FALSE /\ busy = FALSE
    /\ plan \in Plans
    /\ n = 0
    /\ \E t \in Before : colls = t.colls /\ objs = t.objs
    /\ marked = {}

Planned == plan[n]
End(error) == phase' = "over" /\ failed' = error

\* The archive is not readable, or parameters are wrong.
Refuse ==
    /\ phase = "idle"
    /\ phase' = "over" /\ failed' \in BOOLEAN
    /\ UNCHANGED <<plan, n, busy, colls, objs, marked>>

Begin ==
    /\ phase = "idle"
    /\ phase' = "restoring"
    /\ UNCHANGED <<failed, plan, n, busy, colls, objs, marked>>

\* The collection at the extraction path is made.
Prepare ==
    /\ phase = "restoring" /\ n = 0
    /\ colls' = colls \cup {Root}
    /\ UNCHANGED <<phase, failed, plan, n, busy, objs, marked>>

Take ==
    /\ phase = "restoring" /\ ~busy
    /\ n < Len(plan)
    /\ n' = n + 1 /\ busy' = TRUE
    /\ UNCHANGED <<phase, failed, plan, colls, objs, marked>>

\* An item on its own: the collection it goes to is made, with those above it.
MakeWay ==
    /\ busy /\ Len(plan) = 1
    /\ colls' \in {s \in SUBSET Coll : colls \subseteq s /\ Holder(Planned) \in s}
    /\ UNCHANGED <<phase, failed, plan, n, busy, objs, marked>>

RestoreColl ==
    /\ busy /\ Planned.type = "coll"
    /\ Holder(Planned) \in colls \/ Planned.coll \in colls
    /\ colls' = colls \cup {Planned.coll}
    /\ UNCHANGED <<phase, failed, plan, n, busy, objs, marked>>

With(units) ==
    [m \in DOMAIN objs \cup {NameOf(Planned)} |->
        IF m = NameOf(Planned) THEN [of |-> m, units |-> units, len |-> units] ELSE objs[m]]

Empty ==
    /\ busy /\ Planned.type = "dataObj"
    /\ Planned.coll \in colls \/ NameOf(Planned) \in DOMAIN objs
    /\ objs' = With(0)
    /\ UNCHANGED <<phase, failed, plan, n, busy, colls, marked>>

Fill ==
    /\ busy /\ Planned.type = "dataObj"
    /\ NameOf(Planned) \in DOMAIN objs
    /\ \E units \in (objs[NameOf(Planned)].units + 1)..Planned.size : objs' = With(units)
    /\ UNCHANGED <<phase, failed, plan, n, busy, colls, marked>>

InFull ==
    IF Planned.type = "coll" THEN Planned.coll \in colls
    ELSE NameOf(Planned) \in DOMAIN objs /\ objs = With(Planned.size)

\* The item is there; its metadata is set if that works; a single item is all
\* the call was made for.
Finish ==
    /\ busy /\ InFull
    /\ busy' = FALSE
    /\ marked' \in {marked, marked \cup {NameOf(Planned)}}
    /\ \/ UNCHANGED <<phase, failed>>
       \/ Len(plan) = 1 /\ End(FALSE)
    /\ UNCHANGED <<plan, n, colls, objs>>

\* The item cannot be restored.
Break ==
    /\ busy
    /\ busy' = FALSE /\ End(TRUE)
    /\ UNCHANGED <<plan, n, colls, objs, marked>>

\* No further entry in the archive, or the call is given up before the first.
Stop ==
    /\ phase = "restoring" /\ ~busy
    /\ \/ End(FALSE)
       \/ n = 0 /\ End(TRUE)
    /\ UNCHANGED <<plan, n, busy, colls, objs, marked>>

\* Another call for the same target, after a call that is over.
Again ==
    /\ phase = "over"
    /\ phase' = "idle" /\ failed' = FALSE
    /\ plan' \in Plans /\ n' = 0
    /\ marked' = {}
    /\ UNCHANGED <<busy, colls, objs>>

RestoreNext ==
    \/ Refuse \/ Begin \/ Prepare \/ Take \/ MakeWay \/ RestoreColl
    \/ Empty \/ Fill \/ Finish \/ Break \/ Stop \/ Again

RestoreSpec == RestoreInit /\ [][RestoreNext]_restoreVars
=============================================================================
