SPECIFICATION CreateSpec
CONSTANTS
    r = r
    a = a
    aa = aa
    b = b
    x = x
    y = y
    none = none
    Coll <- MCColl
    Root = r
    ParentOf <- MCParentOf
    Base = {x, y}
    NoBase = none
    Block = 2
    NoColl = none
    CollId <- MCCollId
    RootId = 1
    Size <- MCCreateSize
    Stamp <- MCStamp
    InitCatalogs <- MCCreateCatalogs
    MaxEdits = 1
    PageSize = 2
    MaxAvuPages = 0
    MaxFaults = 1
    Target <- MCTarget
    Buf = 2
INVARIANTS
    CreateTypeOK
    StoredWellFormed
    DescriptorsClosed
    SuccessIsComplete
    QuietRunSucceeds
PROPERTIES
    ImplementsLog
    CreateReturns
