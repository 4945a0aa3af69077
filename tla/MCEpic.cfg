SPECIFICATION Spec
CONSTANTS
    u = u
    v = v
    Values = {u, v}
    PayloadSize <- MCPayloadSize
    MaxRead = 2
    Stores <- MCStores
    Refusals = {"409", "500"}
    MaxCalls = 3
INVARIANTS
    ReportedIsRegistered
    OneHandle
    BodyWhole
