CONSTANTS
    a = a
    gvk = gvk
    Keys <- MCKeys
    GLOBAL_VERSION_KEY = gvk
    INITIAL_RECORD_VERSION = 1
    I64_MAX <- MCI64Max
    MAX_PUT_REQUEST_ITEM_COUNT = 1
    Absent = Absent
    None = None
    NoReq = NoReq
    Garbage = Garbage
    Clients = {c1, c2}
    Requests <- MCRequests
    Paths <- MCPaths

SPECIFICATION Spec

INVARIANT SuccessOnlyAuthorized
