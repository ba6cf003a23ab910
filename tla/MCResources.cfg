\* One client changes resources and indexes while another reads them in steps.
CONSTANTS
    w1 = w1
    rd = rd
    a = a
    b = b
    x = x
    y = y
    z = z
    NoItem = NoItem
    NoIndex = NoIndex
    NoName = NoName
    NoSource = NoSource
    NoJob = NoJob
    NoReply = NoReply
    Clients = {w1, rd}
    Watched = {rd}
    Names = {a, b}
    Words = {x, y, z}
    MaxRequests <- ThreeAndOne
    BootIndexes <- BootTwo
    BootItems <- BootResources
    Workload <- ResourceWorkload

SPECIFICATION HistorySpec

INVARIANTS
    ListingsBounded
    RetrievalComplete
    RetrievalRefusalJustified
    ExpansionsFromStoredRules
    IndexesDefinedOverMaps

PROPERTIES
    EtagsNeverReused

CHECK_DEADLOCK FALSE
