SPECIFICATION Spec
CONSTANTS
    v = v
    w = w
    f = f
    d = d
    x = x
    y = y
    here = here
    there = there
    Hosts = {here, there}
    Here = here
    Places <- MCPlaces
    Nodes <- MCNodes
    Busy <- MCBusy
    Rows <- MCRows
    Disks <- MCDisks
    Requests <- MCRequests
    MaxChanges = 0
INVARIANT
    StatusZeroMeansChecksum
