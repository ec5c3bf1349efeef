SPECIFICATION Spec
CONSTANTS
    Events = {ev1, ev2, o}
    IOEvents = {}
    SigEvents = {}
    Persist = {}
    FinFlag = {}
    OnceEvents = {o}
    LoopExit = {o}
    th_notify = th_notify
    L = L
    Others = {t1}
    NoCb = NoCb
    NoThread = NoThread
    Ops = {"active", "active_later", "priority_set", "schedule", "once", "virtual", "loopcontinue"}
    DelModes = {}
    Adds = {ev1, ev2}
    MaxWaiters = 1
    LoopFlags = {{}, {"ONCE"}, {"NONBLOCK"}}
    Timeouts = {}
    MaxTimeout = 0
    MaxAge = 0
    NCalls = {1}
    MaxVirtual = 1
    MAX_DEFERREDS_QUEUED = 0
    max_dispatch_callbacks = 2
    limit_callbacks_after_prio = 1
    DispatchTimeLimit = TRUE
    PrioritySets = {ev1}
    Private = {ev1}
    Faults = {"eintr", "dispatch"}
    Internal = {th_notify}
    Deferreds = {d}
    NPri = 2
    ev1 = ev1
    ev2 = ev2
    ev3 = ev3
    d = d
    d2 = d2
    o = o
    Pri1 = {d}
    Pri2 = {}
    Callbacks <- MCCallbacks
    InitPri <- MCInitPri
    Group <- MCGroup
PROPERTIES
    PriorityOrder
