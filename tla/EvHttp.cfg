SPECIFICATION Spec
CONSTANTS
    r1 = r1
    r2 = r2
    Reqs <- MCReqs
    Programs <- MCPrograms
    Tokens <- MCTokens
    Early = {"200"}
    NetModes = {"async", "fail"}
    May = {"cancel", "free"}
    retry_max = 1
    max_headers_size = 3
    max_body_size = 2
    MaxInput = 3
    MaxBody = 2
INVARIANTS
    NothingBreaks
    
    
    BodyComplete
CHECK_DEADLOCK FALSE
