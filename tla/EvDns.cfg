SPECIFICATION MCSpec
CONSTANTS
    ns1 = ns1
    ns2 = ns2
    h1 = h1
    h2 = h2
    p1 = p1
    Lookups = {h1, h2}
    Probes = {p1}
    NS = {ns1, ns2}
    InitNS <- MCInitNS
    NoNS = NoNS
    NoHandle = NoHandle
    NoSearch = {h2}
    Dotted = {}
    num_domains = 1
    global_max_requests_inflight = 1
    global_max_reissues = 1
    global_max_retransmits = 2
    global_max_nameserver_timeout = 0
    disable_when_inactive = FALSE
    Flaky = {ns1}
    NetModes = {"ok", "again", "err"}
    Replies = {"answer", "notexist", "refused", "servfail"}
    Ops = {"cancel", "add", "clear", "free"}
INVARIANTS
    CountersAgree
    NothingStalls
    SearchIsExhaustive
PROPERTIES
    ImplementsResolver
CHECK_DEADLOCK FALSE
