SPECIFICATION Spec
CONSTANTS
    Events = {ev1, ev2}
    IOEvents = {ev2}
    SigEvents = {ev1}
    Persist = {ev1}
    FinFlag = {ev2}
    OnceEvents = {}
    LoopExit = {}
    th_notify = th_notify
    L = L
    Others = {t1, t2}
    NoCb = NoCb
    NoThread = NoThread
    Ops = {"add", "active"}
    DelModes = {"AUTOBLOCK", "BLOCK", "NOBLOCK"}
    Adds = {ev1, ev2}
    MaxWaiters = 1
    LoopFlags = {{}}
    Timeouts = {}
    MaxTimeout = 0
    MaxAge = 0
    NCalls = {1}
    MaxVirtual = 0
    MAX_DEFERREDS_QUEUED = 1
    max_dispatch_callbacks = 1
    limit_callbacks_after_prio = 2
    DispatchTimeLimit = FALSE
    PrioritySets = {}
    Private = {}
    Faults = {}
    Internal = {th_notify}
    Deferreds = {}
    NPri = 1
    ev1 = ev1
    ev2 = ev2
    ev3 = ev3
    d = d
    d2 = d2
    o = o
    Pri1 = {}
    Pri2 = {}
    Callbacks <- MCCallbacks
    InitPri <- MCInitPri
    Group <- MCGroup
INVARIANTS
    AssertOk
    DelSafe
SYMMETRY Symmetry
