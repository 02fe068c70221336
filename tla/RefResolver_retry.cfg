\* Is a missing import fatal for every call?
SPECIFICATION Spec
CONSTANTS
    Docs = {"A", "B", "C", "T", "Z"}
    Names = {"n", "m"}
    Namespaces = {"p"}
    Here = ""
    NoUrl = NoUrl
    Webs <- TreeWebs
    Requests <- TreeRequests
    MaxCalls = 2
    MaxFaults = 0
    MaxDepth = 30
INVARIANT
    MissingIsFatal
CHECK_DEADLOCK FALSE
