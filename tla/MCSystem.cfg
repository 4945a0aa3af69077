SPECIFICATION SystemSpec
CONSTANTS
    r = r
    a = a
    aa = aa
    b = b
    x = x
    y = y
    none = none
    Coll <- MCColl
    Root = r
    ParentOf <- MCParentOf
    Base = {x, y}
    NoBase = none
    Block = 2
    NoColl = none
    CollId <- MCCollId
    RootId = 1
    Size <- MCSystemSize
    Stamp <- MCStamp
    InitCatalogs <- MCSystemCatalog
    MaxEdits = 2
    PageSize = 2
    MaxAvuPages = 0
    MaxFaults = 0
    Target <- MCTarget
    Buf = 2
INVARIANTS
    RoundTrip
    UntouchedRestored
    NothingElseRestored
