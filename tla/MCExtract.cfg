SPECIFICATION ExtractSpec
CONSTANTS
    r = r
    a = a
    aa = aa
    x = x
    y = y
    none = none
    Coll <- MCColl
    Root = r
    ParentOf <- MCParentOf
    Base = {x, y}
    NoBase = none
    Block = 2
    Archives <- MCArchives
    Rewritten <- MCRewritten
    Targets <- MCTargets
    Requests <- MCRequests
    MaxFaults = 1
    MaxAttempts = 2
    Buf = 2
INVARIANTS
    ExtractTypeOK
    OwnContent
    SuccessIsExtracted
    HolderIsThere
    SpaceRespected
    MetadataOnExtracted
    DescriptorsReleased
PROPERTIES
    ImplementsRestore
    ExtractReturns
