------------------------------ MODULE JsonOps ------------------------------
(***************************************************************************)
(* msi_json_arrayops and msi_json_objops (src/msi_json_arrayops.cc,        *)
(* src/msi_json_objops.cc) called in any order by a rule that keeps one    *)
(* JSON document, one value and one list of key-value pairs.               *)
(*                                                                         *)
(* A JSON value is a tuple of its type and its content.  Everything that   *)
(* passes between the rule and the microservices is text, and a text is    *)
(* here empty, plain (it is not the spelling of anything), or the spelling *)
(* of a value that is no string.  So the string "true" and the value true  *)
(* look the same to a rule, as they do in the code.                        *)
(***************************************************************************)
EXTENDS Integers, SequencesExt

CONSTANTS
    Texts,      \* texts a rule passes
    KVPs,       \* lists of key-value pairs a rule makes
    Indexes,    \* indexes a rule asks for
    Documents,  \* documents a rule starts with
    MaxLen      \* bound: length of an array

VARIABLES
    json_str,     \* the document
    val,          \* value given to and got from an array
    sizeOrIndex,  \* size or index that msi_json_arrayops reported last
    kvp,          \* pairs [key, value, shared]; shared: the value is one of
                  \* the buffers null_cstr, true_cstr, false_cstr of a call
    status,       \* of the last call
    careful,      \* the rule got nothing but what msi_json_objops can give
    lost          \* the agent has crashed

ruleVars == <<json_str, val, sizeOrIndex, kvp>>
jsonVars == <<ruleVars, status, careful, lost>>

Null == <<"null">>
True == <<"true">>
False == <<"false">>
IsBoolean(v) == v \in {True, False}
IsArray(v) == v[1] = "array"
IsObject(v) == v[1] = "object"
IsString(v) == v[1] = "string"
Array(s) == <<"array", s>>
Object(f) == <<"object", f>>
String(text) == <<"string", text>>

EmptyText == <<"empty">>
Plain(p) == <<"plain", p>>
NULL == <<"NULL">>  \* no text at all

\* json_dumps with JSON_ENCODE_ANY, of a value that is no string.
Spelling(v) == <<"spells", v>>

\* json_loads(text, 0): the text of an array or of an object.
IsDocument(text) == text[1] = "spells" /\ (IsArray(text[2]) \/ IsObject(text[2]))
Loads(text) == text[2]

\* What a value looks like from outside: a string holds a text.
Shaped(v) ==
    \/ v \in {Null, True, False}
    \/ v[1] \in {"number", "array", "object"}
    \/ v = String(v[2]) /\ v[2] # NULL

\* An array holds a sequence of values, an object a function from keys to values.
ShapedRoot(root) ==
    LET content == root[2]
    IN  /\ \/ root = Array(content)  /\ content \in Seq(ToSet(content))
           \/ root = Object(content) /\ content = [m \in DOMAIN content |-> content[m]]
        /\ \A m \in DOMAIN content : Shaped(content[m])

\* A pair as a rule makes it.
RulePair(pair) ==
    /\ pair = [key |-> pair.key, value |-> pair.value, shared |-> FALSE]
    /\ pair.value # NULL

ASSUME JsonAssumption ==
    /\ \A text \in Documents : IsDocument(text) => ShapedRoot(Loads(text))
    /\ \A pairs \in KVPs : pairs \in Seq(ToSet(pairs)) /\ \A i \in DOMAIN pairs : RulePair(pairs[i])
    /\ Indexes \subseteq Int

Init ==
    /\ json_str \in Documents
    /\ val = EmptyText /\ sizeOrIndex = 0 /\ kvp = <<>>
    /\ status = "ok" /\ careful = TRUE /\ lost = FALSE

Fails == status' = "SYS_INVALID_INPUT_PARAM" /\ UNCHANGED <<ruleVars, careful, lost>>

-----------------------------------------------------------------------------
(* msi_json_arrayops.                                                      *)

\* Slip: json_loads with flags 0 is expected to read true and false.
SlipElement(text) == IF IsDocument(text) THEN Loads(text) ELSE String(text)

\* The value a text stands for in an array.  (The branch for "null" is never
\* reached: parseMspForStr gives NULL for it.)
Element(text) ==
    CASE text = Spelling(True)  -> True
      [] text = Spelling(False) -> False
      [] IsDocument(text)       -> Loads(text)
      [] OTHER                  -> String(text)

\* Slip: the loop starts at 1.
SlipFirstMatch(s, v) ==
    LET k == SelectInSubSeq(s, 2, Len(s), LAMBDA e : e = v)
    IN  IF k = 0 THEN Len(s) ELSE k - 1

\* i_match: the first index of v, from 0; the size when there is none.
FirstMatch(s, v) ==
    LET k == SelectInSeq(s, LAMBDA e : e = v) IN IF k = 0 THEN Len(s) ELSE k - 1

\* What is reported about an array for "find".
Find(s, v) == IF FirstMatch(s, v) < Len(s) THEN FirstMatch(s, v) ELSE -1

Added(s, v) == IF IsBoolean(v) \/ FirstMatch(s, v) = Len(s) THEN Append(s, v) ELSE s

Removed(s, v) ==
    IF FirstMatch(s, v) < Len(s) THEN RemoveAt(s, FirstMatch(s, v) + 1) ELSE s

\* "get" fills in a string as it is and spells everything else.
Given(v) == IF IsString(v) THEN v[2] ELSE Spelling(v)

InArray == IF json_str = EmptyText THEN Spelling(Array(<<>>)) ELSE json_str

IsText(text) == text # Spelling(Null) /\ text # NULL

ArrayReady(text) ==
    IsText(InArray) /\ IsText(text) /\ IsDocument(InArray) /\ IsArray(Loads(InArray))

Items == Loads(InArray)[2]

ArrayOps(op, text, s, out) ==
    /\ ArrayReady(text)
    /\ json_str' = Spelling(Array(s))
    /\ sizeOrIndex' = out
    /\ val' = IF op = "get" THEN Given(Items[out + 1]) ELSE text
    /\ status' = "ok"
    /\ UNCHANGED <<kvp, careful, lost>>

ArrayAdd(text) ==
    /\ ArrayReady(text) /\ Len(Items) < MaxLen
    /\ LET s == Added(Items, Element(text)) IN ArrayOps("add", text, s, Len(s))

ArrayFind(text) ==
    /\ ArrayReady(text)
    /\ ArrayOps("find", text, Items, Find(Items, Element(text)))

ArrayRm(text) ==
    /\ ArrayReady(text)
    /\ LET s == Removed(Items, Element(text)) IN ArrayOps("rm", text, s, Len(s))

\* "size", and any operation that is not known.
ArraySize(text) ==
    /\ ArrayReady(text)
    /\ ArrayOps("size", text, Items, Len(Items))

ArrayGet(text, i) ==
    /\ ArrayReady(text)
    /\ i \in 0..(Len(Items) - 1)
    /\ ArrayOps("get", text, Items, i)

\* A NULL parameter, a document that is no array, "get" with an index out of
\* range; or, whatever the others are, "null" for the operation.
ArrayRefuses == Fails

-----------------------------------------------------------------------------
(* msi_json_objops.                                                        *)

\* Slip: null is not told apart.
SlipMember(text) == IF IsDocument(text) THEN Loads(text) ELSE String(text)

\* The value a text stands for in an object: true and false are strings.
Member(text) ==
    CASE text = Spelling(Null) -> Null
      [] IsDocument(text)      -> Loads(text)
      [] OTHER                 -> String(text)

Missing == <<"missing">>

\* json_object_get, on a root that may be an array.
Data(root, key) ==
    IF IsObject(root) /\ key \in DOMAIN root[2] THEN root[2][key] ELSE Missing

\* json_object_set_new and json_object_del; on an array they fail, unnoticed.
Set(root, key, v) ==
    IF ~IsObject(root) THEN root
    ELSE Object([m \in DOMAIN root[2] \cup {key} |-> IF m = key THEN v ELSE root[2][m]])

Del(root, key) == Object([m \in DOMAIN root[2] \ {key} |-> root[2][m]])

\* Slip: a boolean is left to json_dumps(data, 0).
SlipGot(pair, v) ==
    [pair EXCEPT
        !.shared = (v = Null),
        !.value  = CASE v = Null                  -> Spelling(v)
                     [] IsString(v)               -> v[2]
                     [] IsArray(v) \/ IsObject(v) -> Spelling(v)
                     [] OTHER                     -> NULL]

\* "get" of one key.  json_dumps(data, 0) encodes arrays and objects only: it
\* gives NULL for a number and for a key that is missing.
Got(pair, v) ==
    [pair EXCEPT
        !.shared = (v = Null \/ IsBoolean(v)),
        !.value  = CASE v = Null \/ IsBoolean(v)  -> Spelling(v)
                     [] IsString(v)               -> v[2]
                     [] IsArray(v) \/ IsObject(v) -> Spelling(v)
                     [] OTHER                     -> NULL]

WithKey(op, root, key, v) ==
    LET data == Data(root, key)
    IN  CASE op = "add" ->
                IF IsArray(data) THEN Set(root, key, Array(Append(data[2], v)))
                                 ELSE Set(root, key, v)
          [] op = "set" -> Set(root, key, v)
          [] op = "rm"  ->
                IF IsArray(data) THEN Set(root, key, Array(Removed(data[2], v)))
                ELSE IF data = v THEN Del(root, key) ELSE root
          [] OTHER -> root

InObject == IF json_str = EmptyText THEN Spelling(Object(<<>>)) ELSE json_str

\* The pairs are handled in order, each on the root the one before left.
AllKeys(op, root, pairs) ==
    LET After[n \in 0..Len(pairs)] ==
            IF n = 0 THEN root
            ELSE WithKey(op, After[n - 1], pairs[n].key, Member(pairs[n].value))
    IN  After[Len(pairs)]

\* strcmp(inVal, "null") on a NULL value, in any operation.
HasNULL(pairs) == \E i \in DOMAIN pairs : pairs[i].value = NULL

\* Two keys point to the same buffer.
HasShared(pairs) ==
    \E i, j \in DOMAIN pairs :
        i # j /\ pairs[i].shared /\ pairs[j].shared /\ pairs[i].value = pairs[j].value

\* The keys can be got safely: present, no numbers, null, true and false at
\* most once each.
Gettable(root, pairs) ==
    \A i, j \in DOMAIN pairs :
        LET v == Data(root, pairs[i].key)
        IN  /\ v # Missing /\ v[1] # "number"
            /\ i # j /\ (v = Null \/ IsBoolean(v)) => Data(root, pairs[j].key) # v

ObjReady(pairs) == IsText(InObject) /\ IsDocument(InObject) /\ ~HasNULL(pairs)

ObjGet(pairs) ==
    /\ ObjReady(pairs)
    /\ kvp' = [i \in DOMAIN pairs |-> Got(pairs[i], Data(Loads(InObject), pairs[i].key))]
    /\ careful' = (careful /\ Gettable(Loads(InObject), pairs))
    /\ json_str' = InObject
    /\ status' = "ok"
    /\ UNCHANGED <<val, sizeOrIndex, lost>>

ShortEnough(v) == IsArray(v) => Len(v[2]) < MaxLen

\* "add", "set", "rm", and any operation that is not known.
ObjChange(op, pairs) ==
    /\ ObjReady(pairs)
    /\ \A i \in DOMAIN pairs : ShortEnough(Data(Loads(InObject), pairs[i].key))
    /\ json_str' = Spelling(AllKeys(op, Loads(InObject), pairs))
    /\ kvp' = pairs
    /\ status' = "ok"
    /\ UNCHANGED <<val, sizeOrIndex, careful, lost>>

\* A document that is "null" or no JSON; or, whatever the document is, "null"
\* for the operation or something else than pairs.
ObjRefuses == Fails

ObjCrashes(pairs) ==
    /\ IsText(InObject) /\ IsDocument(InObject) /\ HasNULL(pairs)
    /\ lost' = TRUE
    /\ UNCHANGED <<ruleVars, status, careful>>

\* External: the server frees the pairs (clearKeyVal), each value by itself,
\* and the rule makes new ones.
NewKVP ==
    /\ kvp # <<>>
    /\ lost' = HasShared(kvp)
    /\ kvp' = <<>>
    /\ UNCHANGED <<json_str, val, sizeOrIndex, status, careful>>

-----------------------------------------------------------------------------
msi_json_arrayops ==
    \E text \in Texts \cup {val} :
        \/ ArrayAdd(text) \/ ArrayFind(text) \/ ArrayRm(text) \/ ArraySize(text)
        \/ \E i \in Indexes : ArrayGet(text, i)
        \/ ArrayRefuses

\* The rule passes new pairs, or those that the last call gave back.
msi_json_objops ==
    \E pairs \in IF kvp = <<>> THEN KVPs ELSE {kvp} :
        \/ ObjGet(pairs)
        \/ \E op \in {"add", "set", "rm", "other"} : ObjChange(op, pairs)
        \/ ObjCrashes(pairs)
        \/ ObjRefuses

Next ==
    \/ ~lost /\ (msi_json_arrayops \/ msi_json_objops \/ NewKVP)
    \/ lost /\ UNCHANGED jsonVars

Spec == Init /\ [][Next]_jsonVars

-----------------------------------------------------------------------------
(* Properties.                                                             *)

NoRepeats(s) == \A i, j \in DOMAIN s : s[i] = s[j] => i = j \/ IsBoolean(s[i])

\* However adds, removals and failed or misdirected calls follow each other, an
\* array that msi_json_arrayops built from nothing repeats nothing but true and
\* false: "append value only if it's a boolean, or it's not presented in the
\* array".  msi_json_objops, given such an array by mistake, does not spoil it.
NoDuplicates == (IsDocument(InArray) /\ IsArray(Loads(InArray))) => NoRepeats(Items)

IsPlain(v) == IsString(v) /\ v[2][1] \in {"empty", "plain"}

\* What "get" returns for an element can be given to "find", "add" and "rm",
\* and they mean that element: true, false, arrays, objects and strings that
\* are no spelling.  The first equal element is found, one is removed, and
\* none is added but true and false.
FoundAgain ==
    (IsDocument(InArray) /\ IsArray(Loads(InArray))) =>
        \A i \in DOMAIN Items :
            LET e == Element(Given(Items[i]))
            IN  (IsBoolean(Items[i]) \/ IsArray(Items[i]) \/ IsObject(Items[i]) \/ IsPlain(Items[i])) =>
                    /\ Find(Items, e) \in 0..(i - 1)
                    /\ Items[Find(Items, e) + 1] = Items[i]
                    /\ Len(Removed(Items, e)) = Len(Items) - 1
                    /\ ~IsBoolean(Items[i]) => Added(Items, e) = Items

\* Getting the value of a key and setting it again changes nothing, and giving
\* it to "rm" removes it: null, arrays, objects and strings that are no
\* spelling.  (true and false come back as strings, numbers not at all.)
GetSetIdentity ==
    (IsDocument(InObject) /\ IsObject(Loads(InObject))) =>
        \A key \in DOMAIN Loads(InObject)[2] :
            LET root == Loads(InObject)
                v    == Data(root, key)
                got  == Got([key |-> key, value |-> EmptyText, shared |-> FALSE], v)
            IN  (v = Null \/ IsArray(v) \/ IsObject(v) \/ IsPlain(v)) =>
                    /\ AllKeys("set", root, <<got>>) = root
                    /\ ~IsArray(v) => AllKeys("rm", root, <<got>>) = Del(root, key)

\* A rule that gets only keys that are there and hold no number, and null, true
\* and false once per call at most, never crashes the agent, in whatever order
\* it calls, reuses its pairs and lets them go.
CarefulRuleSafe == careful => ~lost
=============================================================================
