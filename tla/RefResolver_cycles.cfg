\* Import cycles, fragments, mixins and failing retrievals; two calls of the application.
SPECIFICATION FairSpec
CONSTANTS
    Docs = {"A", "B", "T", "Z"}
    Names = {"n"}
    Namespaces = {"p"}
    Here = ""
    NoUrl = NoUrl
    Webs <- CycleWebs
    Requests <- CycleRequests
    MaxCalls = 2
    MaxFaults = 1
    MaxDepth = 15
INVARIANTS
    StoreOK
    NoReentrantLoad
    FetchedOnce
    NoSharedTraversal
    OwnBase
    NoOverflow
    CallsAreShort
    FieldsResolved
    RetryCanLoad
PROPERTIES
    
    IndexStable
    EveryCallEnds
    KeepsPromise
CHECK_DEADLOCK FALSE
