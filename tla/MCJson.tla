------------------------------- MODULE MCJson -------------------------------
(***************************************************************************)
(* Two keys; texts of every kind; an empty document, an array and an       *)
(* object with true, null and numbers, and texts that are no document.     *)
(***************************************************************************)
EXTENDS JsonOps

CONSTANTS p, q, color, shape

One == <<"number", 1>>
List == Array(<<String(Plain(p))>>)

MCTexts == {Plain(p), EmptyText, Spelling(Null), Spelling(True), Spelling(One), Spelling(List)}

Pair(key, text) == [key |-> key, value |-> text, shared |-> FALSE]

MCKVPs ==
    {<<Pair(color, Plain(p))>>, <<Pair(color, Spelling(List))>>, <<Pair(shape, Spelling(True))>>,
     <<Pair(color, Spelling(Null)), Pair(shape, Spelling(Null))>>,
     <<Pair(color, Spelling(List)), Pair(color, Plain(q))>>}

MCIndexes == -1..1

MCDocuments ==
    {EmptyText, Plain(p), Spelling(Null),
     Spelling(Array(<<Null, One, True>>)),
     Spelling(Object([key \in {color, shape} |-> IF key = color THEN True ELSE One])),
     Spelling(Object([key \in {color, shape} |-> IF key = color THEN List ELSE Null]))}
=============================================================================
