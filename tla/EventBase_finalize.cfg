SPECIFICATION Spec
CONSTANTS
    Events = {ev1, ev2, o}
    IOEvents = {ev2, o}
    SigEvents = {ev1}
    Persist = {ev1, ev2}
    FinFlag = {}
    OnceEvents = {o}
    LoopExit = {}
    th_notify = th_notify
    L = L
    Others = {t1}
    NoCb = NoCb
    NoThread = NoThread
    Ops = {"add", "active_later", "finalize", "finalize_many", "schedule", "cancel", "priority_set", "deferred_set_priority", "once"}
    DelModes = {}
    Adds = {ev2}
    MaxWaiters = 1
    LoopFlags = {{}}
    Timeouts = {}
    MaxTimeout = 0
    MaxAge = 0
    NCalls = {1}
    MaxVirtual = 0
    MAX_DEFERREDS_QUEUED = 1
    max_dispatch_callbacks = 1
    limit_callbacks_after_prio = 2
    DispatchTimeLimit = FALSE
    PrioritySets = {ev2}
    Private = {}
    Faults = {"add"}
    Internal = {th_notify}
    Deferreds = {d}
    NPri = 1
    ev1 = ev1
    ev2 = ev2
    ev3 = ev3
    d = d
    d2 = d2
    o = o
    Pri1 = {}
    Pri2 = {}
    Callbacks <- MCCallbacks
    InitPri <- MCInitPri
    Group <- MCGroup2
INVARIANTS
    FinalizedIsGone
CHECK_DEADLOCK FALSE
