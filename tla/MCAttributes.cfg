SPECIFICATION Spec
CONSTANTS
    AvuName <- MCAvuName
    Rest <- MCRest
    NoName = "none"
    Lists <- MCLists
    MaxFaults = 1
INVARIANTS
    TypeOK
    OtherNamesKept
    LastRunOnly
