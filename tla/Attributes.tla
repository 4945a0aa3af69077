----------------------------- MODULE Attributes -----------------------------
(***************************************************************************)
(* attributes() in src/msiArchiveExtract.cc: restore the AVUs of one       *)
(* extracted item from its "attributes" array, one rsModAVUMetadata call   *)
(* per element: "set" for the first of a run of elements with one name,    *)
(* "add" for the others of the run.                                        *)
(*                                                                         *)
(* The array is in the order in which attrDataObj or attrColl got the rows *)
(* of a query that asks for no order, so it is any sequence without        *)
(* repetitions.                                                            *)
(***************************************************************************)
EXTENDS Naturals, Sequences

CONSTANTS
    AvuName,   \* attribute names
    Rest,      \* values with their units
    NoName,    \* name == NULL
    Lists,     \* "attributes" arrays
    MaxFaults  \* bound: how many calls fail

Avu == [name : AvuName, rest : Rest]

ASSUME AttributesAssumption ==
    /\ NoName \notin AvuName
    /\ Lists \subseteq Seq(Avu)
    /\ MaxFaults \in Nat

VARIABLES
    list,    \* the array
    before,  \* AVUs of the item before the call
    avus,    \* its AVUs now
    i,       \* elements handled
    name,    \* name of the element before
    faults   \* calls that failed

vars == <<list, before, avus, i, name, faults>>

\* Slip: the loop starts at 1.
SlipInit ==
    /\ list \in Lists
    /\ before \in SUBSET Avu
    /\ avus = before
    /\ i = 1
    /\ name = NoName
    /\ faults = 0

Init ==
    /\ list \in Lists
    /\ before \in SUBSET Avu
    /\ avus = before
    /\ i = 0
    /\ name = NoName
    /\ faults = 0

\* Slip: everything is added.
SlipOperationAdd(avu) == "add"

Operation(avu) == IF avu.name # name THEN "set" ELSE "add"

\* rsModAVUMetadata: "set" replaces all AVUs of that name, "add" adds one.
Modified(op, avu) ==
    {v \in avus : op = "add" \/ v.name # avu.name} \cup {avu}

\* Slip: the first element replaces all AVUs of the item.
SlipTurn ==
    /\ i < Len(list)
    /\ avus' = IF i = 0 THEN {list[1]} ELSE Modified(Operation(list[i + 1]), list[i + 1])
    /\ name' = list[i + 1].name
    /\ i' = i + 1
    /\ UNCHANGED <<list, before, faults>>

\* One turn of the loop; the call is allowed to fail.
Turn ==
    /\ i < Len(list)
    /\ LET avu == list[i + 1]
       IN  /\ \/ avus' = Modified(Operation(avu), avu) /\ UNCHANGED faults
              \/ faults < MaxFaults /\ faults' = faults + 1 /\ UNCHANGED avus
           /\ name' = avu.name
    /\ i' = i + 1
    /\ UNCHANGED <<list, before>>

AllDone == i = Len(list) /\ UNCHANGED vars

Next == Turn \/ AllDone

Spec == Init /\ [][Next]_vars

-----------------------------------------------------------------------------
(* Properties.                                                             *)

\* Type correctness; the loop of attributes() stays within the array.
TypeOK ==
    /\ list \in Lists
    /\ before \subseteq Avu
    /\ avus \subseteq Avu
    /\ i \in 0..Len(list)
    /\ name \in AvuName \cup {NoName}
    /\ faults \in Nat

\* n is the name of one of the first k elements.
Named(n, k) == \E j \in 1..k : list[j].name = n

\* AVUs with a name that the array does not mention stay as they are, even
\* when calls fail between a "set" and its "add"s.
OtherNamesKept ==
    \A v \in Avu : ~Named(v.name, Len(list)) => (v \in avus <=> v \in before)

\* Among the first k elements, no element of another name comes between
\* element j and a later one of its own name.
InLastRun(j, k) ==
    \A m \in j..k : list[m].name = list[j].name =>
        \A h \in j..m : list[h].name = list[j].name

\* As long as no call fails, the item has, of every name handled so far,
\* exactly the AVUs of the last run of elements with that name: nothing that
\* it had before, nothing of an earlier run.
LastRunOnly ==
    faults = 0 =>
        \A v \in Avu : Named(v.name, i) =>
            (v \in avus <=> \E j \in 1..i : list[j] = v /\ InLastRun(j, i))

\* "set the attributes of a collection or DataObj" (the comment on
\* attributes()): all of them, whatever their order in the array.
AttributesSet ==
    (i = Len(list) /\ faults = 0) => \A j \in 1..Len(list) : list[j] \in avus
=============================================================================
