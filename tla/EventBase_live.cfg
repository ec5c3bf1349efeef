SPECIFICATION FairSpec
CONSTANTS
    Events = {ev1}
    IOEvents = {ev1}
    SigEvents = {}
    Persist = {ev1}
    FinFlag = {}
    OnceEvents = {}
    LoopExit = {}
    th_notify = th_notify
    L = L
    Others = {t1}
    NoCb = NoCb
    NoThread = NoThread
    Ops = {"add", "loopbreak", "loopcontinue", "schedule"}
    DelModes = {"AUTOBLOCK"}
    Adds = {ev1, ev2}
    MaxWaiters = 1
    LoopFlags = {{}, {"NO_EXIT_ON_EMPTY"}}
    Timeouts = {}
    MaxTimeout = 0
    MaxAge = 0
    NCalls = {1}
    MaxVirtual = 0
    MAX_DEFERREDS_QUEUED = 1
    max_dispatch_callbacks = 1
    limit_callbacks_after_prio = 2
    DispatchTimeLimit = FALSE
    PrioritySets = {}
    Private = {}
    Faults = {"spurious"}
    Internal = {th_notify}
    Deferreds = {d}
    NPri = 1
    ev1 = ev1
    ev2 = ev2
    ev3 = ev3
    d = d
    d2 = d2
    o = o
    Pri1 = {}
    Pri2 = {}
    Callbacks <- MCCallbacks
    InitPri <- MCInitPri
    Group <- MCGroup
INVARIANTS
    NoLostWakeup
PROPERTIES
    WaiterReturns
    ActiveRuns
    LoopComesBack
