\* Is a fragment that is reported missing really absent?
SPECIFICATION Spec
CONSTANTS
    Docs = {"A", "B", "T", "Z"}
    Names = {"n"}
    Namespaces = {"p"}
    Here = ""
    NoUrl = NoUrl
    Webs <- CycleWebs
    Requests <- CycleRequests
    MaxCalls = 1
    MaxFaults = 0
    MaxDepth = 15
INVARIANT
    MissingMeansAbsent
CHECK_DEADLOCK FALSE
