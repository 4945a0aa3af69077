SPECIFICATION Spec
CONSTANTS
    p = p
    q = q
    color = color
    shape = shape
    Texts <- MCTexts
    KVPs <- MCKVPs
    Indexes <- MCIndexes
    Documents <- MCDocuments
    MaxLen = 3
INVARIANTS
    NoDuplicates
    FoundAgain
    GetSetIdentity
    CarefulRuleSafe
