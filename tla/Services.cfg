SPECIFICATION MCSpec
CONSTANTS
    r1 = r1
    r2 = r2
    r3 = r3
    c1 = c1
    c2 = c2
    q1 = q1
    q2 = q2
    q3 = q3
    v1 = v1
    v2 = v2
    Requests = {r1, r2, r3}
    Connections = {c1, c2}
    Calls = {q1, q2}
    Allowed = {}
    Risks = {}
    Queries = {q1, q2, q3}
    Late = FALSE
    Sources <- MCSources
    Parts <- MCParts
    Ports <- MCPorts
    IPv6 <- MCIPv6
    MaxSets = 1
    Texts <- MCTexts
    root = root
    Vhosts = {v1, v2}
    Paths <- MCPaths
    Patterns <- MCPatterns
    Hosts <- MCHosts
    MaxCalls = 4
    Items <- MCItems
    MaxItems = 3
    Names <- MCNames
    Asked <- MCAsked
    MaxRecords = 3
    UdpLimit = 50
    BufLen = 1500
    NameLen = 256
INVARIANTS
    AnsweredOnce
    QueueMoves
    ToldOnce
    
    UriSurvives
    RoutesAgree
    MessagesSurvive
    NamesSurvive
CHECK_DEADLOCK FALSE
