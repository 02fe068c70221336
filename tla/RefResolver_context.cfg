\* Is an imported document free of the context of the importing one?
SPECIFICATION Spec
CONSTANTS
    Docs = {"A", "B", "T", "Z"}
    Names = {"n"}
    Namespaces = {"p"}
    Here = ""
    NoUrl = NoUrl
    Webs <- ContextWebs
    Requests <- CycleRequests
    MaxCalls = 1
    MaxFaults = 0
    MaxDepth = 30
INVARIANT
    ContextNotInherited
CHECK_DEADLOCK FALSE
