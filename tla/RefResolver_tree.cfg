\* Webs without import cycles: what is returned is what the texts mean.
SPECIFICATION Spec
CONSTANTS
    Docs = {"A", "B", "C", "T", "Z"}
    Names = {"n", "m"}
    Namespaces = {"p"}
    Here = ""
    NoUrl = NoUrl
    Webs <- TreeWebs
    Requests <- TreeRequests
    MaxCalls = 2
    MaxFaults = 1
    MaxDepth = 30
INVARIANTS
    ResultIsPreprocessed
    ErrorsAreJustified
CHECK_DEADLOCK FALSE
