SPECIFICATION Spec
CONSTANTS
    Events = {ev1, ev2}
    IOEvents = {ev1}
    SigEvents = {}
    Persist = {ev1}
    FinFlag = {}
    OnceEvents = {}
    LoopExit = {}
    th_notify = th_notify
    L = L
    Others = {t1}
    NoCb = NoCb
    NoThread = NoThread
    Ops = {"add", "remove_timer", "update_cache_time"}
    DelModes = {}
    Adds = {ev1, ev2}
    MaxWaiters = 1
    LoopFlags = {{}}
    Timeouts = {1, 2}
    MaxTimeout = 2
    MaxAge = 1
    NCalls = {1}
    MaxVirtual = 0
    MAX_DEFERREDS_QUEUED = 1
    max_dispatch_callbacks = 1
    limit_callbacks_after_prio = 2
    DispatchTimeLimit = FALSE
    PrioritySets = {}
    Private = {}
    Faults = {}
    Internal = {th_notify}
    Deferreds = {}
    NPri = 1
    ev1 = ev1
    ev2 = ev2
    ev3 = ev3
    d = d
    d2 = d2
    o = o
    Pri1 = {}
    Pri2 = {}
    Callbacks <- MCCallbacks
    InitPri <- MCInitPri
    Group <- MCGroup
INVARIANTS
    PollEndsInTime
    AssertOk
