SPECIFICATION WalkSpec
CONSTANTS
    r = r
    a = a
    aa = aa
    b = b
    x = x
    y = y
    none = none
    Coll <- MCColl
    Root = r
    ParentOf <- MCParentOf
    Base = {x, y}
    NoBase = none
    Block = 2
    NoColl = none
    CollId <- MCCollId
    RootId = 1
    Size <- MCSize
    Stamp <- MCStamp
    InitCatalogs <- MCInitCatalogs
    MaxEdits = 2
    PageSize = 2
    MaxAvuPages = 1
    MaxFaults = 1
    Target <- MCTarget
INVARIANTS
    WalkTypeOK
    StatementsBounded
    HoldersListedFirst
    CollectionsListedOnce
    IndexExact
PROPERTIES
    WalkTerminates
