----------------------------- MODULE EventBase -----------------------------
(***************************************************************************)
(* One struct event_base and the threads that use it (event.c).  The loop  *)
(* thread runs event_base_loop; it and the other threads call the event_*  *)
(* API, from callbacks or from outside.  Whatever happens between taking   *)
(* th_base_lock and giving it up is invisible to the other threads: it is  *)
(* one action, or several in a control state of the loop that holds the    *)
(* lock.  A wait on current_event_cond gives the lock up in the middle of  *)
(* a call, so the call goes on in a second action.                         *)
(*                                                                         *)
(* Time is a number of ticks relative to the present: ev[e].timeout is how *)
(* far in the future e expires, and base.tv_cache how old the cached time  *)
(* is.                                                                     *)
(***************************************************************************)
EXTENDS EventQueues

CONSTANTS
    Events,         \* events of the program, each on a descriptor of its own
    IOEvents,       \* the ones assigned with EV_READ, EV_WRITE or EV_CLOSED
    SigEvents,      \* the ones assigned with EV_SIGNAL
    Persist,        \* the ones assigned with EV_PERSIST
    FinFlag,        \* the ones assigned with EV_FINALIZE
    OnceEvents,     \* events allocated by event_base_once
    LoopExit,       \* those of them made by event_base_loopexit
    th_notify,      \* the internal event that wakes the loop
    InitPri,        \* the priority each callback starts with
    L,              \* the thread that runs the loop
    Others,         \* the other threads
    NoCb,           \* the null callback
    NoThread,       \* the null thread
    Ops,            \* the API calls the program makes
    Adds,           \* the events it calls event_add on
    PrioritySets,   \* the events it calls event_priority_set on
    Private,        \* the events only the loop's thread makes calls on
    DelModes,       \* the kinds of event_del it makes
    LoopFlags,      \* the sets of EVLOOP_* flags it may run the loop with
    Timeouts,       \* the intervals it passes to event_add
    MaxTimeout,     \* the longest of them
    MaxAge,         \* bound: ticks the cached time may grow old
    NCalls,         \* the values of ncalls it passes to event_active
    MaxVirtual,     \* bound: virtual events
    MaxWaiters,     \* bound: waiters counted when a thread wakes spuriously
    MAX_DEFERREDS_QUEUED,
    max_dispatch_callbacks,
    limit_callbacks_after_prio,
    DispatchTimeLimit,  \* whether max_dispatch_time is set
    Group,          \* callbacks finalized together by a bufferevent
    Faults          \* what may go wrong outside the program

NoTv == -1          \* a NULL timeval: no timeout, or a poll without limit

ASSUME EventBaseAssumption ==
    /\ Callbacks = Events \cup {th_notify} \cup Deferreds
    /\ Events \cap (Deferreds \cup {th_notify}) = {}
    /\ th_notify \notin Deferreds
    /\ Internal = {th_notify}
    /\ IOEvents \subseteq Events /\ SigEvents \subseteq Events
    /\ IOEvents \cap SigEvents = {}
    /\ Persist \subseteq Events /\ FinFlag \subseteq Events
    /\ Private \subseteq Events
    /\ OnceEvents \subseteq Events \ (SigEvents \cup Persist)
    /\ LoopExit \subseteq OnceEvents
    /\ InitPri \in [Callbacks -> Priorities] /\ InitPri[th_notify] = 0
    /\ \A e \in OnceEvents : InitPri[e] = NPri \div 2
    /\ NoCb \notin Callbacks
    /\ L \notin Others /\ NoThread \notin Others \cup {L}
    /\ MaxTimeout \in Nat /\ Timeouts \subseteq 0..MaxTimeout
    /\ MaxAge \in Nat /\ MaxVirtual \in Nat /\ MaxWaiters \in Nat
    /\ NCalls \subseteq Nat
    /\ LoopFlags \subseteq SUBSET {"ONCE", "NONBLOCK", "NO_EXIT_ON_EMPTY"}
    /\ MAX_DEFERREDS_QUEUED \in Nat
    /\ max_dispatch_callbacks \in Nat
    /\ limit_callbacks_after_prio \in Nat
    /\ Group \in Seq(Callbacks \ {th_notify})
    /\ DispatchTimeLimit \in BOOLEAN
    /\ Faults \subseteq {"add", "dispatch", "eintr", "spurious"}

Threads == Others \cup {L}
LoopEvents == Events \cup {th_notify}           \* what has EVLIST_INIT
FdEvents == IOEvents \cup SigEvents \cup {th_notify}

VARIABLES
    q,      \* flags, priorities, queues and counters: see EventQueues
    ev,     \* the other fields of every struct event
    base,   \* the other fields of struct event_base
    loop,   \* the control state and locals of event_base_loop
    ready,  \* the descriptors of IOEvents that are ready, in the kernel
    thr,    \* for each thread, the API call it is in the middle of
    hist    \* what happened so far, for the properties only

vars == <<q, ev, base, loop, ready, thr, hist>>

(* What the functions of event.c read and write while they hold the lock.  *)
State == [q |-> q, ev |-> ev, base |-> base]
Becomes(s) == q' = s.q /\ ev' = s.ev /\ base' = s.base

-----------------------------------------------------------------------------
(* Wakes the loop from thread t, if it runs and t is not its thread.       *)
evthread_notify_base(s, t) ==
    IF s.base.running_loop /\ t # L /\ ~s.base.is_notify_pending
    THEN [s EXCEPT !.base.is_notify_pending = TRUE, !.base.th_notify_fd = 1]
    ELSE s

(* The current time seen through the cache, relative to the present.       *)
gettime(s) == IF s.base.tv_cache = NoTv THEN 0 ELSE -s.base.tv_cache

Timers(s) == {e \in LoopEvents : "TIMEOUT" \in s.q.flags[e]}

(* min_heap_push_ moves an element past strictly greater ones only.        *)
min_heap_elt_is_top_(s, e) ==
    \A f \in Timers(s) \ {e} : s.ev[e].timeout < s.ev[f].timeout

(* The elements min_heap_top_ may return: ties depend on the heap's shape. *)
min_heap_tops(s) ==
    {e \in Timers(s) : \A f \in Timers(s) : s.ev[e].timeout <= s.ev[f].timeout}

event_haveevents(s) == s.base.virtual_event_count > 0 \/ s.q.event_count > 0

(* `*ev->ev_pncalls = 0', which ends the loop of event_signal_closure.     *)
AbortLoop(s, e) ==
    IF e \in SigEvents /\ s.ev[e].ncalls # 0 /\ s.ev[e].pncalls
    THEN [s EXCEPT !.base.closure_ncalls = 0]
    ELSE s

-----------------------------------------------------------------------------
(* Mutant: the loop is not woken.                                          *)
activate_without_notify(s, t, c) ==
    LET q1 == IF "ACTIVE_LATER" \in s.q.flags[c]
              THEN event_queue_remove_active_later(s.q, c) ELSE s.q
    IN  IF s.q.flags[c] \cap {"FINALIZING", "ACTIVE"} # {} THEN s
        ELSE [s EXCEPT !.q = event_queue_insert_active(q1, c)]

event_callback_activate_nolock_(s, t, c) ==
    LET q1 == IF "ACTIVE_LATER" \in s.q.flags[c]
              THEN event_queue_remove_active_later(s.q, c) ELSE s.q
    IN  IF s.q.flags[c] \cap {"FINALIZING", "ACTIVE"} # {} THEN s
        ELSE evthread_notify_base(
                [s EXCEPT !.q = event_queue_insert_active(q1, c)], t)

event_callback_activate_later_nolock_(s, t, c) ==
    IF s.q.flags[c] \cap {"ACTIVE", "ACTIVE_LATER"} # {} THEN s
    ELSE evthread_notify_base(
            [s EXCEPT !.q = event_queue_insert_active_later(@, c)], t)

(* Mutant: a more urgent event does not set event_continue.                *)
active_res_without_continue(s, e, res) ==
    LET was == s.q.flags[e] \cap {"ACTIVE", "ACTIVE_LATER"}
    IN  [s EXCEPT !.ev[e].res = IF was = {} THEN res ELSE @ \cup res]

(* event_active_nolock_ up to the wait for a running signal callback...    *)
ActiveRes(s, e, res) ==
    LET was == s.q.flags[e] \cap {"ACTIVE", "ACTIVE_LATER"}
    IN  [s EXCEPT !.ev[e].res = IF was = {} THEN res ELSE @ \cup res,
                  !.base.event_continue =
                      @ \/ /\ "ACTIVE" \notin was
                           /\ s.q.pri[e] < s.base.event_running_priority]

(* ...and from there on.                                                   *)
ActiveInsert(s, t, e, ncalls) ==
    event_callback_activate_nolock_(
        IF e \in SigEvents
        THEN [s EXCEPT !.ev[e].ncalls = ncalls, !.ev[e].pncalls = FALSE]
        ELSE s,
        t, e)

event_active_nolock_(s, t, e, res, ncalls) ==
    IF "FINALIZING" \in s.q.flags[e] THEN s
    ELSE IF "ACTIVE" \in s.q.flags[e] THEN ActiveRes(s, e, res)
    ELSE ActiveInsert(ActiveRes(s, e, res), t, e, ncalls)

(* What event_del_nolock_ takes off the base.                              *)
DelQueues(qq, e) ==
    LET q1 == IF "TIMEOUT" \in qq.flags[e]
              THEN event_queue_remove_timeout(qq, e) ELSE qq
        q2 == IF "ACTIVE" \in q1.flags[e]
              THEN event_queue_remove_active(q1, e)
              ELSE IF "ACTIVE_LATER" \in q1.flags[e]
              THEN event_queue_remove_active_later(q1, e) ELSE q1
    IN  IF "INSERTED" \in q2.flags[e]
        THEN event_queue_remove_inserted(q2, e) ELSE q2

(* event_del_nolock_ up to the wait.  evmap_io_del_ and evmap_signal_del_  *)
(* return 1 here, since no other event has the descriptor.                 *)
DelBody(s, t, e) ==
    LET s1 == [AbortLoop(s, e) EXCEPT !.q = DelQueues(@, e)]
    IN  IF "INSERTED" \in s.q.flags[e] THEN evthread_notify_base(s1, t) ELSE s1

event_del_nolock_(s, t, e) ==
    IF "FINALIZING" \in s.q.flags[e] THEN s ELSE DelBody(s, t, e)

event_callback_cancel_nolock_(s, t, c) ==
    IF c \in LoopEvents THEN event_del_nolock_(s, t, c)
    ELSE IF "FINALIZING" \in s.q.flags[c] THEN s
    ELSE IF "ACTIVE" \in s.q.flags[c]
         THEN [s EXCEPT !.q = event_queue_remove_active(@, c)]
    ELSE IF "ACTIVE_LATER" \in s.q.flags[c]
         THEN [s EXCEPT !.q = event_queue_remove_active_later(@, c)]
    ELSE s

(* What event_add_nolock_ changes on the base.  The timeout part is done   *)
(* only when there is a tv; ok is the outcome of the evmap call.           *)
AddsToMap(s, e) ==
    /\ e \in FdEvents
    /\ s.q.flags[e] \cap {"INSERTED", "ACTIVE", "ACTIVE_LATER"} = {}

ActiveByTimeout(s, e) == "ACTIVE" \in s.q.flags[e] /\ s.ev[e].res # {}

(* Mutant: a timeout that is pending is not taken off first.               *)
add_queues_over_pending(s, e, tv) ==
    LET q1 == IF AddsToMap(s, e) THEN event_queue_insert_inserted(s.q, e)
              ELSE s.q
        q3 == IF ActiveByTimeout(s, e)
              THEN event_queue_remove_active(q1, e) ELSE q1
    IN  IF tv = NoTv THEN q1 ELSE event_queue_insert_timeout(q3, e)

AddQueues(s, e, tv) ==
    LET q1 == IF AddsToMap(s, e) THEN event_queue_insert_inserted(s.q, e)
              ELSE s.q
        q2 == IF "TIMEOUT" \in q1.flags[e]
              THEN event_queue_remove_timeout(q1, e) ELSE q1
        q3 == IF ActiveByTimeout(s, e)
              THEN event_queue_remove_active(q2, e) ELSE q2
    IN  IF tv = NoTv THEN q1 ELSE event_queue_insert_timeout(q3, e)

(* event_add_nolock_ after the wait for a running signal callback, when    *)
(* neither min_heap_reserve_ nor the evmap call fails: an event_add that   *)
(* fails changes nothing.  An absolute tv is relative to the present here, *)
(* and an interval counts from the time gettime returns.                   *)
AddBody(s, t, e, tv, tv_is_absolute) ==
    LET s1 == IF tv # NoTv /\ ActiveByTimeout(s, e) THEN AbortLoop(s, e) ELSE s
        s2 == [s1 EXCEPT
                !.q = AddQueues(s, e, tv),
                !.ev[e].io_timeout =
                    IF e \in Persist \ SigEvents /\ tv # NoTv /\ ~tv_is_absolute
                    THEN tv ELSE @,
                !.ev[e].timeout =
                    IF tv = NoTv THEN @
                    ELSE IF tv_is_absolute THEN tv ELSE gettime(s) + tv]
        notify == \/ AddsToMap(s, e)
                  \/ /\ tv # NoTv
                     /\ \/ min_heap_elt_is_top_(s2, e)
                        \/ \E f \in min_heap_tops(s2) :
                              s2.ev[f].timeout < gettime(s)
    IN  IF notify THEN evthread_notify_base(s2, t) ELSE s2

(* The rescheduling of event_persist_closure, by the loop thread.          *)
event_persist_closure(s, e) ==
    LET now == gettime(s)
        delay == s.ev[e].io_timeout
        from == IF s.ev[e].res # {} THEN s.ev[e].timeout ELSE now
        run_at == IF from + delay < now THEN now + delay ELSE from + delay
    IN  IF delay = 0 THEN s ELSE AddBody(s, L, e, run_at, TRUE)

(* event_finalize_nolock_ up to event_active_nolock_: what is queued is    *)
(* dropped and the finalizer takes the callback's place.                   *)
FinalizeDel(s, t, e) == [event_del_nolock_(s, t, e) EXCEPT !.ev[e].closure = "finalize"]

SetFinalizing(s, c) == [s EXCEPT !.q.flags[c] = @ \cup {"FINALIZING"}]

event_finalize_nolock_(s, t, e) ==
    SetFinalizing(event_active_nolock_(FinalizeDel(s, t, e), t, e, {}, 1), e)

(* Mutant: the callback is not cancelled first.                            *)
callback_finalize_without_cancel(s, t, c) ==
    LET s1 == [s EXCEPT !.ev[c].closure = "finalize"]
    IN  SetFinalizing(event_callback_activate_nolock_(s1, t, c), c)

event_callback_finalize_nolock_(s, t, c) ==
    LET s1 == [event_callback_cancel_nolock_(s, t, c)
                  EXCEPT !.ev[c].closure = "finalize"]
    IN  SetFinalizing(event_callback_activate_nolock_(s1, t, c), c)

-----------------------------------------------------------------------------
(* The loop.  It holds th_base_lock in these control states.               *)
LockedPcs == {"top", "later", "report", "timeouts", "queue"}
UnlockedPcs == {"out", "poll", "pollret", "cb", "sigload", "sigstore",
                "drain", "drained", "cbret"}

(* th_base_lock is not recursive: a thread that was left with it does not  *)
(* get it again either.                                                    *)
CanLock(t) ==
    /\ t # L => loop.pc \notin LockedPcs
    /\ \A u \in Threads \ {t} : thr[u].st # "many"
    /\ base.lock_leaked_to = NoThread

IdleCall == [st |-> "idle", op |-> "none", e |-> NoCb, arg |-> 0]

Init ==
    /\ q = event_queue_insert_inserted(
              [flags |-> [c \in Callbacks |-> {}],
               pri |-> InitPri,
               activequeues |-> [p \in Priorities |-> <<>>],
               active_later_queue |-> <<>>,
               event_count |-> 0,
               event_count_active |-> 0,
               fatal |-> FALSE],
              th_notify)
    /\ ev = [c \in Callbacks |->
                [res |-> {}, timeout |-> 0, io_timeout |-> 0, ncalls |-> 0,
                 pncalls |-> FALSE, closure |-> "run"]]
    /\ base = [running_loop |-> FALSE, event_gotterm |-> FALSE,
               event_break |-> FALSE, event_continue |-> FALSE,
               current_event |-> NoCb, current_event_waiters |-> 0,
               event_running_priority |-> -1, n_deferreds_queued |-> 0,
               virtual_event_count |-> 0, tv_cache |-> NoTv,
               is_notify_pending |-> FALSE, th_notify_fd |-> 0,
               closure_ncalls |-> 0, once_events |-> {},
               lock_leaked_to |-> NoThread]
    /\ loop = [pc |-> "out", flags |-> {}, tv |-> NoTv, i |-> 0, count |-> 0,
               running |-> NoCb, reg |-> 0, reported |-> {}]
    /\ ready = {}
    /\ thr = [t \in Threads |-> IdleCall]
    /\ hist = [safe |-> {}, clean |-> {}, timed |-> {}, dead |-> {},
               group_freed |-> FALSE]

(* event_base_loop up to its while statement.                              *)
event_base_loop(f) ==
    /\ loop.pc = "out" /\ thr[L] = IdleCall /\ CanLock(L)
    /\ base' = [base EXCEPT !.running_loop = TRUE, !.tv_cache = NoTv,
                            !.event_gotterm = FALSE, !.event_break = FALSE]
    /\ loop' = [loop EXCEPT !.pc = "top", !.flags = f]
    /\ UNCHANGED <<q, ev, ready, thr, hist>>

(* From the label done to the return of event_base_loop.                   *)
LoopReturns(b) ==
    /\ base' = [b EXCEPT !.running_loop = FALSE, !.tv_cache = NoTv]
    /\ loop' = [loop EXCEPT !.pc = "out", !.flags = {}, !.tv = NoTv]

(* Mutant: any timer is taken for the first one.                           *)
timeout_next_of_any(s) ==
    IF Timers(s) = {} THEN {NoTv}
    ELSE {IF s.ev[e].timeout <= gettime(s) THEN 0 ELSE s.ev[e].timeout - gettime(s) :
             e \in Timers(s)}

(* The top of the while statement.  timeout_next asks for a poll that ends *)
(* when the first timer expires, as gettime tells the time.                *)
timeout_next(s) ==
    IF Timers(s) = {} THEN {NoTv}
    ELSE {IF s.ev[e].timeout <= gettime(s) THEN 0 ELSE s.ev[e].timeout - gettime(s) :
             e \in min_heap_tops(s)}

NoEventsLeft ==
    /\ "NO_EXIT_ON_EMPTY" \notin loop.flags
    /\ ~event_haveevents(State)
    /\ N_ACTIVE_CALLBACKS(q) = 0

LoopTop ==
    /\ loop.pc = "top"
    /\ LET b == [base EXCEPT !.event_continue = FALSE, !.n_deferreds_queued = 0]
       IN  IF base.event_gotterm \/ base.event_break \/ NoEventsLeft
           THEN LoopReturns(b)
           ELSE /\ base' = b
                /\ \E tv \in IF N_ACTIVE_CALLBACKS(q) = 0
                              /\ "NONBLOCK" \notin loop.flags
                           THEN timeout_next(State) ELSE {0} :
                      loop' = [loop EXCEPT !.pc = "later", !.tv = tv]
    /\ UNCHANGED <<q, ev, ready, thr, hist>>

event_queue_make_later_events_active ==
    /\ loop.pc = "later" /\ q.active_later_queue # <<>>
    /\ LET c == Head(q.active_later_queue)
       IN  base' = [base EXCEPT !.n_deferreds_queued =
                      IF c \in Deferreds /\ ev[c].closure = "run" THEN @ + 1 ELSE @]
    /\ q' = make_later_event_active(q)
    /\ UNCHANGED <<ev, loop, ready, thr, hist>>

(* clear_time_cache, and epoll_dispatch up to its epoll_wait.              *)
StartPoll ==
    /\ loop.pc = "later" /\ q.active_later_queue = <<>>
    /\ base' = [base EXCEPT !.tv_cache = NoTv]
    /\ loop' = [loop EXCEPT !.pc = "poll"]
    /\ UNCHANGED <<q, ev, ready, thr, hist>>

-----------------------------------------------------------------------------
(* epoll_wait: the descriptors in the interest set of the kernel are those *)
(* of the inserted events.  It returns with the ready ones, when the time  *)
(* is up, or interrupted by a signal.                                      *)
ReadyEvents ==
    {e \in FdEvents : /\ "INSERTED" \in q.flags[e]
                      /\ IF e = th_notify THEN base.th_notify_fd > 0
                         ELSE e \in ready}

epoll_wait ==
    /\ loop.pc = "poll"
    /\ \/ ReadyEvents # {} \/ loop.tv = 0
       \/ "eintr" \in Faults
    /\ \E r \in {ReadyEvents} \cup (IF "eintr" \in Faults THEN {{}} ELSE {}) :
          loop' = [loop EXCEPT !.pc = "pollret", !.reported = r, !.tv = NoTv]
    /\ UNCHANGED <<q, ev, base, ready, thr, hist>>

(* Another error of epoll_wait ends the loop.                              *)
DispatchFails ==
    /\ loop.pc = "poll" /\ "dispatch" \in Faults /\ CanLock(L)
    /\ LoopReturns(base)
    /\ UNCHANGED <<q, ev, ready, thr, hist>>

DispatchLocks ==
    /\ loop.pc = "pollret" /\ CanLock(L)
    /\ loop' = [loop EXCEPT !.pc = "report"]
    /\ UNCHANGED <<q, ev, base, ready, thr, hist>>

(* evmap_io_active_ for one descriptor epoll_wait reported, whose event    *)
(* may have been deleted, or deleted and added again, in the meantime.     *)
evmap_io_active_(e) ==
    /\ loop.pc = "report" /\ e \in loop.reported
    /\ Becomes(IF "INSERTED" \in q.flags[e]
               THEN event_active_nolock_(State, L, e, {}, 1) ELSE State)
    /\ loop' = [loop EXCEPT !.reported = @ \ {e}]
    /\ UNCHANGED <<ready, thr, hist>>

update_time_cache(b) == [b EXCEPT !.tv_cache = 0]

DispatchReturns ==
    /\ loop.pc = "report" /\ loop.reported = {}
    /\ base' = update_time_cache(base)
    /\ loop' = [loop EXCEPT !.pc = "timeouts"]
    /\ UNCHANGED <<q, ev, ready, thr, hist>>

(* One turn of the loop of timeout_process.                                *)
timeout_process(e) ==
    /\ loop.pc = "timeouts"
    /\ e \in min_heap_tops(State) /\ ev[e].timeout <= gettime(State)
    /\ Becomes(event_active_nolock_(event_del_nolock_(State, L, e),
                                    L, e, {"EV_TIMEOUT"}, 1))
    /\ UNCHANGED <<loop, ready, thr, hist>>

TimeoutsDone ==
    /\ loop.pc = "timeouts"
    /\ \A e \in min_heap_tops(State) : ev[e].timeout > gettime(State)
    /\ IF N_ACTIVE_CALLBACKS(q) > 0
       THEN /\ loop' = [loop EXCEPT !.pc = "queue", !.i = 0, !.count = 0]
            /\ base' = IF DispatchTimeLimit THEN update_time_cache(base) ELSE base
       ELSE IF "NONBLOCK" \in loop.flags THEN LoopReturns(base)
       ELSE loop' = [loop EXCEPT !.pc = "top"] /\ UNCHANGED base
    /\ UNCHANGED <<q, ev, ready, thr, hist>>

-----------------------------------------------------------------------------
(* event_process_active ends with n, and with it one turn of the loop.     *)
ProcessActiveReturns(b, n) ==
    LET b1 == [b EXCEPT !.event_running_priority = -1]
    IN  IF "ONCE" \in loop.flags /\ N_ACTIVE_CALLBACKS(q) = 0 /\ n # 0
        THEN /\ base' = [b1 EXCEPT !.running_loop = FALSE, !.tv_cache = NoTv]
             /\ loop' = [loop EXCEPT !.pc = "out", !.flags = {}, !.count = 0,
                                     !.i = 0, !.running = NoCb]
        ELSE /\ base' = b1
             /\ loop' = [loop EXCEPT !.pc = "top", !.count = 0, !.i = 0,
                                     !.running = NoCb]

(* event_process_active_single_queue returns n to event_process_active: a  *)
(* queue with internal callbacks only gives way to the next one.           *)
SingleQueueReturns(b, n) ==
    IF n # 0 \/ loop.i = NPri - 1 THEN ProcessActiveReturns(b, n)
    ELSE /\ base' = b
         /\ loop' = [loop EXCEPT !.pc = "queue", !.i = @ + 1, !.count = 0,
                                 !.running = NoCb]

QueueEmpty ==
    /\ loop.pc = "queue" /\ q.activequeues[loop.i] = <<>>
    /\ SingleQueueReturns(base, loop.count)
    /\ UNCHANGED <<q, ev, ready, thr, hist>>

(* The first callback of the queue leaves it, and its closure starts.      *)
Dequeue(s, c) ==
    IF c \in Events \ Persist /\ "FINALIZING" \notin s.q.flags[c]
    THEN event_del_nolock_(s, L, c)
    ELSE [s EXCEPT !.q = event_queue_remove_active(@, c)]

Finalizes(c) == ev[c].closure = "finalize"

StartClosure(s, c) ==
    LET s1 == [s EXCEPT !.base.current_event = c,
                        !.base.current_event_waiters = 0,
                        !.base.event_running_priority = loop.i]
    IN  IF Finalizes(c)
        THEN [s1 EXCEPT !.base.current_event = NoCb,
                        !.q.fatal = @ \/ "FINALIZING" \notin s.q.flags[c]]
        ELSE IF c \in SigEvents
        THEN [s1 EXCEPT !.base.closure_ncalls = s.ev[c].ncalls,
                        !.ev[c].pncalls = @ \/ s.ev[c].ncalls # 0]
        ELSE IF c \in Persist THEN event_persist_closure(s1, c)
        ELSE s1

ClosurePc(c) == IF Finalizes(c) THEN "cb"
                ELSE IF c \in SigEvents THEN "sigload"
                ELSE IF c = th_notify THEN "drain"
                ELSE "cb"

(* Beyond max_dispatch_callbacks the count is not told apart.              *)
Counted(n) == IF n < max_dispatch_callbacks THEN n + 1 ELSE n

RunCallback ==
    /\ loop.pc = "queue" /\ q.activequeues[loop.i] # <<>>
    /\ LET c == Head(q.activequeues[loop.i])
       IN  /\ Becomes(StartClosure(Dequeue(State, c), c))
           /\ loop' = [loop EXCEPT !.pc = ClosurePc(c), !.running = c,
                                   !.count = IF c \in Internal THEN @ ELSE Counted(@)]
           /\ hist' = [hist EXCEPT !.dead = IF Finalizes(c) THEN @ \cup {c} ELSE @,
                                   !.timed = IF c \in Persist THEN @ ELSE @ \ {c}]
    /\ UNCHANGED <<ready, thr>>

(* event_signal_closure runs without the lock: another thread may store 0  *)
(* into ncalls between the load of the while condition and the decrement,  *)
(* and the decrement may use the value loaded or load it again.  A count   *)
(* that passed zero takes 2^16 calls to come back: it may end any time.    *)
SigLoad ==
    /\ loop.pc = "sigload"
    /\ loop' = [loop EXCEPT !.reg = base.closure_ncalls,
                   !.pc = IF base.closure_ncalls = 0 THEN "cbret" ELSE "sigstore"]
    /\ UNCHANGED <<q, ev, base, ready, thr, hist>>

SigStore ==
    /\ loop.pc = "sigstore"
    /\ \E r \in {loop.reg, base.closure_ncalls} :
       \E n \in IF r > 0 THEN {r - 1} ELSE {-1, 0} :
          /\ base' = [base EXCEPT !.closure_ncalls = n]
          /\ ev' = [ev EXCEPT ![loop.running].ncalls = n,
                              ![loop.running].pncalls = @ /\ n # 0]
    /\ loop' = [loop EXCEPT !.pc = "cb", !.reg = 0]
    /\ UNCHANGED <<q, ready, thr, hist>>

(* The callback returned to event_signal_closure.                          *)
SigReturn ==
    /\ loop.pc = "cb" /\ thr[L] = IdleCall /\ CanLock(L)
    /\ loop.running \in SigEvents /\ base.current_event = loop.running
    /\ loop' = [loop EXCEPT !.pc = IF base.event_break THEN "cbret" ELSE "sigload"]
    /\ ev' = [ev EXCEPT ![loop.running].pncalls =
                 @ /\ ~(base.event_break /\ base.closure_ncalls # 0)]
    /\ UNCHANGED <<q, base, ready, thr, hist>>

(* event_once_cb after the program's callback, which for loopexit is       *)
(* event_loopexit_cb.                                                      *)
event_once_cb ==
    /\ loop.pc = "cb" /\ thr[L] = IdleCall /\ CanLock(L)
    /\ loop.running \in OnceEvents
    /\ base' = [base EXCEPT !.once_events = @ \ {loop.running},
                            !.event_gotterm = @ \/ loop.running \in LoopExit]
    /\ loop' = [loop EXCEPT !.pc = "cbret"]
    /\ UNCHANGED <<q, ev, ready, thr, hist>>

(* evthread_notify_drain_eventfd: the read, then the reset under the lock. *)
NotifyRead ==
    /\ loop.pc = "drain"
    /\ base' = [base EXCEPT !.th_notify_fd = 0]
    /\ loop' = [loop EXCEPT !.pc = "drained"]
    /\ UNCHANGED <<q, ev, ready, thr, hist>>

NotifyReset ==
    /\ loop.pc = "drained" /\ CanLock(L)
    /\ base' = [base EXCEPT !.is_notify_pending = FALSE]
    /\ loop' = [loop EXCEPT !.pc = "cbret"]
    /\ UNCHANGED <<q, ev, ready, thr, hist>>

(* The rest of a turn of event_process_active_single_queue, from the       *)
(* EVBASE_ACQUIRE_LOCK after the callback.                                 *)
PlainCallback ==
    loop.running \in (Callbacks \ (SigEvents \cup OnceEvents))
    \/ base.current_event = NoCb

CallbackDone ==
    /\ \/ loop.pc = "cbret"
       \/ loop.pc = "cb" /\ PlainCallback /\ thr[L] = IdleCall
    /\ CanLock(L)
    /\ thr' = [t \in Threads |->
                 IF base.current_event_waiters > 0 /\ thr[t].st = "wait"
                 THEN [thr[t] EXCEPT !.st = "woken"] ELSE thr[t]]
    /\ LET b == [base EXCEPT !.current_event = NoCb, !.current_event_waiters = 0]
           limited == loop.i >= limit_callbacks_after_prio
       IN  IF base.event_break THEN ProcessActiveReturns(b, -1)
           ELSE IF limited /\ loop.count >= max_dispatch_callbacks
           THEN SingleQueueReturns(b, loop.count)
           ELSE \/ /\ limited /\ DispatchTimeLimit /\ loop.count > 0
                   /\ SingleQueueReturns(update_time_cache(b), loop.count)
                \/ LET b1 == IF limited /\ DispatchTimeLimit /\ loop.count > 0
                             THEN update_time_cache(b) ELSE b
                   IN  IF base.event_continue
                       THEN SingleQueueReturns(b1, loop.count)
                       ELSE /\ base' = b1
                            /\ loop' = [loop EXCEPT !.pc = "queue", !.running = NoCb]
    /\ UNCHANGED <<q, ev, ready, hist>>

-----------------------------------------------------------------------------
(* The API.  A thread makes one call at a time, the loop thread only while *)
(* it runs a callback or is outside event_base_loop.  A program keeps off  *)
(* an event once its finalizer was called, finalizes none that another     *)
(* thread is in a call on, and keeps off the callbacks of Group once they  *)
(* are being finalized: the bufferevent is then unreachable.  It keeps the *)
(* Private events to the loop's thread.                                    *)
InProgram == loop.pc = "out" \/ (loop.pc = "cb" /\ loop.running \notin LoopExit)

CanCall(t) ==
    /\ thr[t] = IdleCall /\ CanLock(t)
    /\ t = L => InProgram

UserEvents == Events \ OnceEvents
Usable(t, c) ==
    /\ c \notin hist.dead /\ ~(hist.group_freed /\ c \in Elems(Group))
    /\ t = L \/ c \notin Private

RunsElsewhere(t, e) == base.current_event = e /\ t # L

(* Mutant: the waiter is not counted.                                      *)
waits_uncounted(s, t, op, e, arg) ==
    /\ Becomes(s)
    /\ thr' = [thr EXCEPT ![t] = [st |-> "wait", op |-> op, e |-> e, arg |-> arg]]

(* COND_WAIT on current_event_cond in the middle of operation op.          *)
Waits(s, t, op, e, arg) ==
    /\ Becomes([s EXCEPT !.base.current_event_waiters = @ + 1])
    /\ thr' = [thr EXCEPT ![t] = [st |-> "wait", op |-> op, e |-> e, arg |-> arg]]

Wakes(t, op) == thr[t].st = "woken" /\ thr[t].op = op /\ CanLock(t)
Returns(t) == thr' = [thr EXCEPT ![t] = IdleCall]

(* History: safe holds the events whose event_del returned; clean the      *)
(* threads in an event_del nobody interfered with; timed the events with a *)
(* timeout asked for; dead the callbacks whose finalizer was called.  An   *)
(* event_add or event_active ends what an event_del promised.              *)
Touch(h, e) == [h EXCEPT !.safe = @ \ {e},
                         !.clean = {t \in @ : thr[t].e # e}]

HistAdd(e, tv) ==
    hist' = [Touch(hist, e) EXCEPT !.timed = IF tv = NoTv THEN @ ELSE @ \cup {e}]

(* A call on a finalizing event returns -1 and changes nothing.            *)
event_add(t, e, tv) ==
    /\ "add" \in Ops /\ e \in Adds /\ CanCall(t) /\ Usable(t, e)
    /\ "FINALIZING" \notin q.flags[e]
    /\ HistAdd(e, tv)
    /\ IF RunsElsewhere(t, e) /\ e \in SigEvents
       THEN Waits(State, t, "add", e, tv)
       ELSE Becomes(AddBody(State, t, e, tv, FALSE)) /\ UNCHANGED thr
    /\ UNCHANGED <<loop, ready>>

AddAfterWait(t) ==
    LET e == thr[t].e
    IN  /\ Wakes(t, "add")
        /\ Becomes(AddBody(State, t, e, thr[t].arg, FALSE))
        /\ Returns(t)
        /\ hist' = Touch(hist, e)
        /\ UNCHANGED <<loop, ready>>

(* In struct event the interval of an I/O event shares its memory with the *)
(* call counter of a signal event, and event_remove_timer clears it.       *)
event_remove_timer(t, e) ==
    /\ "remove_timer" \in Ops /\ CanCall(t) /\ Usable(t, e)
    /\ "TIMEOUT" \in q.flags[e]
    /\ q' = event_queue_remove_timeout(q, e)
    /\ ev' = [ev EXCEPT ![e] = IF e \in SigEvents
                                THEN [@ EXCEPT !.ncalls = 0, !.pncalls = FALSE]
                                ELSE [@ EXCEPT !.io_timeout = 0]]
    /\ hist' = [hist EXCEPT !.timed = @ \ {e}]
    /\ UNCHANGED <<base, loop, ready, thr>>

(* Mutant: event_del waits only when it is told to.                        *)
del_waits_if_block(t, e, blocking) == blocking = "BLOCK" /\ RunsElsewhere(t, e)

(* event_del, event_del_block and event_del_noblock.                       *)
DelWaits(t, e, blocking) ==
    /\ blocking # "NOBLOCK" /\ RunsElsewhere(t, e)
    /\ blocking = "BLOCK" \/ e \notin FinFlag

(* Every event_del promises its caller that the callback is not running    *)
(* when it returns, except in the callback's own thread, with              *)
(* event_del_noblock, and with event_del of an EV_FINALIZE event.          *)
DelPromises(t, e, blocking) ==
    \/ base.current_event # e
    \/ t # L /\ blocking \in {"BLOCK"} \cup (IF e \in FinFlag THEN {} ELSE {"AUTOBLOCK"})

event_del(t, e, blocking) ==
    /\ CanCall(t) /\ Usable(t, e) /\ "FINALIZING" \notin q.flags[e]
    /\ LET s == event_del_nolock_(State, t, e)
       IN  IF DelWaits(t, e, blocking)
           THEN /\ Waits(s, t, "del", e, 0)
                /\ hist' = [hist EXCEPT !.timed = @ \ {e}, !.clean = @ \cup {t}]
           ELSE /\ Becomes(s)
                /\ hist' = [hist EXCEPT !.timed = @ \ {e},
                     !.safe = IF DelPromises(t, e, blocking) THEN @ \cup {e} ELSE @]
                /\ UNCHANGED thr
    /\ UNCHANGED <<loop, ready>>

DelAfterWait(t) ==
    /\ Wakes(t, "del")
    /\ Returns(t)
    /\ hist' = [hist EXCEPT !.clean = @ \ {t},
                            !.safe = IF t \in hist.clean THEN @ \cup {thr[t].e} ELSE @]
    /\ UNCHANGED <<q, ev, base, loop, ready>>

event_active(t, e, ncalls) ==
    /\ "active" \in Ops /\ CanCall(t) /\ Usable(t, e)
    /\ "FINALIZING" \notin q.flags[e]
    /\ IF e \in SigEvents /\ RunsElsewhere(t, e) /\ "ACTIVE" \notin q.flags[e]
       THEN Waits(ActiveRes(State, e, {}), t, "active", e, ncalls)
       ELSE Becomes(event_active_nolock_(State, t, e, {}, ncalls)) /\ UNCHANGED thr
    /\ hist' = Touch(hist, e)
    /\ UNCHANGED <<loop, ready>>

ActiveAfterWait(t) ==
    /\ Wakes(t, "active")
    /\ Becomes(ActiveInsert(State, t, thr[t].e, thr[t].arg))
    /\ Returns(t)
    /\ hist' = Touch(hist, thr[t].e)
    /\ UNCHANGED <<loop, ready>>

event_active_later_(t, e) ==
    /\ "active_later" \in Ops /\ CanCall(t) /\ Usable(t, e)
    /\ LET was == q.flags[e] \cap {"ACTIVE", "ACTIVE_LATER"} # {}
       IN  Becomes(event_callback_activate_later_nolock_(
              [State EXCEPT !.ev[e].res = IF was THEN @ ELSE {}], t, e))
    /\ hist' = Touch(hist, e)
    /\ UNCHANGED <<loop, ready, thr>>

event_finalize(t, e) ==
    /\ "finalize" \in Ops /\ CanCall(t) /\ Usable(t, e) /\ ~Finalizes(e)
    /\ e \notin Elems(Group) /\ \A u \in Threads : thr[u].e # e
    /\ IF e \in SigEvents /\ RunsElsewhere(t, e)
       THEN Waits(ActiveRes(FinalizeDel(State, t, e), e, {}), t, "finalize", e, 1)
       ELSE Becomes(event_finalize_nolock_(State, t, e)) /\ UNCHANGED thr
    /\ hist' = [Touch(hist, e) EXCEPT !.timed = @ \ {e}]
    /\ UNCHANGED <<loop, ready>>

FinalizeAfterWait(t) ==
    LET e == thr[t].e
    IN  /\ Wakes(t, "finalize")
        /\ Becomes(SetFinalizing(ActiveInsert(State, t, e, thr[t].arg), e))
        /\ Returns(t)
        /\ hist' = Touch(hist, e)
        /\ UNCHANGED <<loop, ready>>

(* event_callback_finalize_many_ holds the lock from here to FinalizeLast. *)
(* thr[t].arg callbacks are done, and thr[t].e is the one that was found   *)
(* running and got the finalizer.                                          *)
event_callback_finalize_many_(t) ==
    /\ "finalize_many" \in Ops /\ Group # <<>> /\ CanCall(t)
    /\ \A c \in Elems(Group) : Usable(t, c) /\ ~Finalizes(c)
    /\ thr' = [thr EXCEPT ![t] = [st |-> "many", op |-> "finalize_many",
                                  e |-> NoCb, arg |-> 0]]
    /\ hist' = [hist EXCEPT !.safe = @ \ Elems(Group), !.timed = @ \ Elems(Group),
                            !.group_freed = TRUE,
                            !.clean = {u \in @ : thr[u].e \notin Elems(Group)}]
    /\ UNCHANGED <<q, ev, base, loop, ready>>

FinalizeNext(t) ==
    LET c == Group[thr[t].arg + 1]
        running == base.current_event = c
    IN  /\ thr[t].st = "many" /\ thr[t].arg < Len(Group)
        /\ Becomes(IF running THEN event_callback_finalize_nolock_(State, t, c)
                   ELSE event_callback_cancel_nolock_(State, t, c))
        /\ thr' = [thr EXCEPT ![t].arg = @ + 1, ![t].e = IF running THEN c ELSE @]
        /\ UNCHANGED <<loop, ready, hist>>

FinalizeLast(t) ==
    /\ thr[t].st = "many" /\ thr[t].arg = Len(Group)
    /\ Becomes(IF thr[t].e = NoCb
               THEN event_callback_finalize_nolock_(State, t, Group[1]) ELSE State)
    /\ Returns(t)
    /\ UNCHANGED <<loop, ready, hist>>

(* A once event is activated at once, or added; when that fails the call   *)
(* returns without giving up the lock.                                     *)
CallsOnce(t, e) ==
    /\ "once" \in Ops /\ CanCall(t)
    /\ e \in OnceEvents \ base.once_events /\ q.flags[e] = {} /\ loop.running # e

ActivatesAtOnce(e, tv) == e \notin IOEvents /\ tv \in {NoTv, 0}

event_base_once(t, e, tv) ==
    /\ CallsOnce(t, e)
    /\ LET s == IF ActivatesAtOnce(e, tv)
                THEN event_active_nolock_(State, t, e, {"EV_TIMEOUT"}, 1)
                ELSE AddBody(State, t, e, tv, FALSE)
       IN  Becomes([s EXCEPT !.base.once_events = @ \cup {e}])
    /\ HistAdd(e, tv)
    /\ UNCHANGED <<loop, ready, thr>>

OnceFails(t) ==
    /\ "add" \in Faults
    /\ \E e \in OnceEvents, tv \in Timeouts \cup {NoTv} :
          CallsOnce(t, e) /\ ~ActivatesAtOnce(e, tv)
    /\ base' = [base EXCEPT !.lock_leaked_to = t]
    /\ UNCHANGED <<q, ev, loop, ready, thr, hist>>

(* event_priority_set tests EVLIST_ACTIVE and stores ev_pri without the    *)
(* lock, so that another thread may activate the event in between.  Only   *)
(* of a Private event the two are one step: nobody else touches it.        *)
event_priority_set(t, e, pri) ==
    /\ "priority_set" \in Ops /\ e \in PrioritySets
    /\ Usable(t, e) /\ thr[t] = IdleCall
    /\ t = L => InProgram
    /\ "ACTIVE" \notin q.flags[e]
    /\ IF e \in Private
       THEN q' = [q EXCEPT !.pri[e] = pri] /\ UNCHANGED thr
       ELSE /\ thr' = [thr EXCEPT ![t] = [st |-> "pri", op |-> "priority_set",
                                          e |-> e, arg |-> pri]]
            /\ UNCHANGED q
    /\ UNCHANGED <<ev, base, loop, ready, hist>>

PriorityStore(t) ==
    /\ thr[t].st = "pri"
    /\ q' = [q EXCEPT !.pri[thr[t].e] = thr[t].arg]
    /\ Returns(t)
    /\ UNCHANGED <<ev, base, loop, ready, hist>>

event_base_loopbreak(t) ==
    /\ "loopbreak" \in Ops /\ CanCall(t)
    /\ Becomes(evthread_notify_base([State EXCEPT !.base.event_break = TRUE], t))
    /\ UNCHANGED <<loop, ready, thr, hist>>

event_base_loopcontinue(t) ==
    /\ "loopcontinue" \in Ops /\ CanCall(t)
    /\ Becomes(evthread_notify_base([State EXCEPT !.base.event_continue = TRUE], t))
    /\ UNCHANGED <<loop, ready, thr, hist>>

event_base_update_cache_time(t) ==
    /\ "update_cache_time" \in Ops /\ CanCall(t) /\ base.running_loop
    /\ base' = update_time_cache(base)
    /\ UNCHANGED <<q, ev, loop, ready, thr, hist>>

event_base_add_virtual_(t) ==
    /\ "virtual" \in Ops /\ CanCall(t) /\ base.virtual_event_count < MaxVirtual
    /\ base' = [base EXCEPT !.virtual_event_count = @ + 1]
    /\ UNCHANGED <<q, ev, loop, ready, thr, hist>>

event_base_del_virtual_(t) ==
    /\ "virtual" \in Ops /\ CanCall(t) /\ base.virtual_event_count > 0
    /\ LET s == [State EXCEPT !.base.virtual_event_count = @ - 1]
       IN  Becomes(IF s.base.virtual_event_count = 0
                   THEN evthread_notify_base(s, t) ELSE s)
    /\ UNCHANGED <<loop, ready, thr, hist>>

(* Mutant: the activations are not counted.                                *)
schedule_uncounted(t, c) ==
    /\ "schedule" \in Ops /\ CanCall(t) /\ Usable(t, c)
    /\ LET later == base.n_deferreds_queued > MAX_DEFERREDS_QUEUED
       IN  Becomes(IF later THEN event_callback_activate_later_nolock_(State, t, c)
                   ELSE event_callback_activate_nolock_(State, t, c))
    /\ UNCHANGED <<loop, ready, thr, hist>>

(* Deferred callbacks.  Too many activations in one turn of the loop wait  *)
(* for the next one, so that the loop gets to poll.                        *)
event_deferred_cb_schedule_(t, c) ==
    /\ "schedule" \in Ops /\ CanCall(t) /\ Usable(t, c)
    /\ LET later == base.n_deferreds_queued > MAX_DEFERREDS_QUEUED
           new == q.flags[c] = {}
           s == event_callback_activate_nolock_(State, t, c)
       IN  Becomes(IF later THEN event_callback_activate_later_nolock_(State, t, c)
                   ELSE [s EXCEPT !.base.n_deferreds_queued =
                                      IF new THEN @ + 1 ELSE @])
    /\ UNCHANGED <<loop, ready, thr, hist>>

event_deferred_cb_cancel_(t, c) ==
    /\ "cancel" \in Ops /\ CanCall(t) /\ Usable(t, c)
    /\ Becomes(event_callback_cancel_nolock_(State, t, c))
    /\ UNCHANGED <<loop, ready, thr, hist>>

(* As bufferevent_priority_set calls it: whatever the callback's flags.    *)
event_deferred_cb_set_priority_(t, c, pri) ==
    /\ "deferred_set_priority" \in Ops /\ Usable(t, c) /\ thr[t] = IdleCall
    /\ t = L => InProgram
    /\ q' = [q EXCEPT !.pri[c] = pri]
    /\ UNCHANGED <<ev, base, loop, ready, thr, hist>>

-----------------------------------------------------------------------------
(* The environment.  A descriptor becomes ready or ceases to be.  Time     *)
(* passes while the loop waits or a callback runs: epoll_wait returns as   *)
(* soon as it may, and a callback is not slower than MaxAge ticks.  No     *)
(* test tells apart two timeouts that are MinTimeout or more ago.          *)
DescriptorChanges(e) ==
    /\ ready' = IF e \in ready THEN ready \ {e} ELSE ready \cup {e}
    /\ UNCHANGED <<q, ev, base, loop, thr, hist>>

MinTimeout == -(MaxTimeout + MaxAge + 1)

TimeoutMatters(e) ==
    \/ "TIMEOUT" \in q.flags[e]
    \/ "ACTIVE" \in q.flags[e] /\ ev[e].res # {}

Tick ==
    /\ Timeouts # {} /\ loop.pc \in {"out", "poll", "cb"}
    /\ loop.pc = "poll" => loop.tv # 0 /\ ReadyEvents = {}
    /\ base.tv_cache < MaxAge
    /\ base' = [base EXCEPT !.tv_cache = IF @ = NoTv THEN @ ELSE @ + 1]
    /\ loop' = [loop EXCEPT !.tv = IF @ = NoTv THEN @ ELSE @ - 1]
    /\ ev' = [e \in Callbacks |-> [ev[e] EXCEPT !.timeout =
                IF ~TimeoutMatters(e) THEN 0
                ELSE IF @ > MinTimeout THEN @ - 1 ELSE @]]
    /\ UNCHANGED <<q, ready, thr, hist>>

(* POSIX allows pthread_cond_wait to return without a broadcast.           *)
SpuriousWakeup(t) ==
    /\ "spurious" \in Faults /\ thr[t].st = "wait"
    /\ base.current_event_waiters <= MaxWaiters
    /\ thr' = [thr EXCEPT ![t].st = "woken"]
    /\ UNCHANGED <<q, ev, base, loop, ready, hist>>

-----------------------------------------------------------------------------
LoopStep ==
    \/ LoopTop \/ event_queue_make_later_events_active \/ StartPoll
    \/ epoll_wait \/ DispatchFails \/ DispatchLocks \/ DispatchReturns
    \/ \E e \in FdEvents : evmap_io_active_(e)
    \/ \E e \in LoopEvents : timeout_process(e)
    \/ TimeoutsDone \/ QueueEmpty \/ RunCallback
    \/ SigLoad \/ SigStore \/ SigReturn \/ event_once_cb
    \/ NotifyRead \/ NotifyReset \/ CallbackDone

CallGoesOn(t) ==
    \/ AddAfterWait(t) \/ DelAfterWait(t) \/ ActiveAfterWait(t)
    \/ FinalizeAfterWait(t) \/ FinalizeNext(t) \/ FinalizeLast(t)
    \/ PriorityStore(t)

Call(t) ==
    \/ \E e \in UserEvents :
          \/ \E tv \in Timeouts \cup {NoTv} : event_add(t, e, tv)
          \/ \E m \in DelModes : event_del(t, e, m)
          \/ \E n \in NCalls : event_active(t, e, n)
          \/ event_remove_timer(t, e) \/ event_active_later_(t, e)
          \/ event_finalize(t, e)
          \/ \E p \in Priorities : event_priority_set(t, e, p)
    \/ \E e \in OnceEvents, tv \in Timeouts \cup {NoTv} : event_base_once(t, e, tv)
    \/ OnceFails(t) \/ event_callback_finalize_many_(t)
    \/ event_base_loopbreak(t) \/ event_base_loopcontinue(t)
    \/ event_base_update_cache_time(t)
    \/ event_base_add_virtual_(t) \/ event_base_del_virtual_(t)
    \/ \E c \in Deferreds :
          \/ event_deferred_cb_schedule_(t, c) \/ event_deferred_cb_cancel_(t, c)
          \/ \E p \in Priorities : event_deferred_cb_set_priority_(t, c, p)

(* event_errx and a failed assertion end the process.                      *)
Next ==
    /\ ~q.fatal
    /\ \/ \E f \in LoopFlags : event_base_loop(f)
       \/ LoopStep
       \/ \E t \in Threads : CallGoesOn(t) \/ Call(t) \/ SpuriousWakeup(t)
       \/ \E e \in IOEvents : DescriptorChanges(e)
       \/ Tick

Spec == Init /\ [][Next]_vars

(* The loop thread is scheduled, callbacks return, and a thread that waits *)
(* for the lock gets it.                                                   *)
FairSpec ==
    /\ Spec
    /\ WF_vars(~q.fatal /\ LoopStep)
    /\ \A t \in Threads : SF_vars(~q.fatal /\ CallGoesOn(t))

-----------------------------------------------------------------------------
(* Types of the state.                                                     *)
EventType ==
    [res : SUBSET {"EV_TIMEOUT"}, timeout : Int, io_timeout : Nat, ncalls : Int,
     pncalls : BOOLEAN, closure : {"run", "finalize"}]

BaseType ==
    [running_loop : BOOLEAN, event_gotterm : BOOLEAN, event_break : BOOLEAN,
     event_continue : BOOLEAN, current_event : Callbacks \cup {NoCb},
     current_event_waiters : Nat, event_running_priority : Priorities \cup {-1},
     n_deferreds_queued : Nat, virtual_event_count : Nat, tv_cache : Nat \cup {NoTv},
     is_notify_pending : BOOLEAN, th_notify_fd : {0, 1}, closure_ncalls : Int,
     once_events : SUBSET OnceEvents, lock_leaked_to : Threads \cup {NoThread}]

LoopType ==
    [pc : LockedPcs \cup UnlockedPcs,
     flags : SUBSET {"ONCE", "NONBLOCK", "NO_EXIT_ON_EMPTY"}, tv : Nat \cup {NoTv},
     i : Priorities, count : Nat, running : Callbacks \cup {NoCb}, reg : Int,
     reported : SUBSET FdEvents]

CallType ==
    [st : {"idle", "wait", "woken", "many", "pri"},
     op : {"none", "add", "del", "active", "finalize", "finalize_many", "priority_set"},
     e : Callbacks \cup {NoCb}, arg : Int]

HistType ==
    [safe : SUBSET Events, clean : SUBSET Threads, timed : SUBSET Events,
     dead : SUBSET Callbacks, group_freed : BOOLEAN]

(* Every variable holds a value the C type and the code's ranges allow.    *)
TypeOK ==
    /\ q \in BookkeepingType
    /\ ev \in [Callbacks -> EventType]
    /\ base \in BaseType
    /\ loop \in LoopType
    /\ ready \subseteq IOEvents
    /\ thr \in [Threads -> CallType]
    /\ hist \in HistType

(* What event_base_assert_ok_ asserts of the queues holds at all times,    *)
(* the counters count what is queued, and no event_queue_* function ever   *)
(* finds a callback in the wrong state.                                    *)
AssertOk == QueuesMatchFlags(q) /\ CountersMatchFlags(q) /\ ~q.fatal

(* When event_del has returned to a thread and nobody made the event       *)
(* pending or active since the call, the callback is not running and is    *)
(* nowhere queued: the argument of the callback may be freed.              *)
DelSafe ==
    \A e \in hist.safe : /\ base.current_event # e
                         /\ q.flags[e] \cap QueueFlags = {}

(* The loop never sleeps on something it should act on: while it waits     *)
(* without limit there is no timer, no active callback and no call to      *)
(* break, and there is something to wait for, or the eventfd is readable.  *)
NoLostWakeup ==
    loop.pc = "poll" /\ loop.tv # 0 /\ base.th_notify_fd = 0 =>
        /\ N_ACTIVE_CALLBACKS(q) = 0
        /\ ~base.event_break /\ ~base.event_continue
        /\ loop.tv = NoTv => Timers(State) = {} /\ ~NoEventsLeft

(* The loop never sleeps past a timer: unless a wakeup is on its way it    *)
(* waits with a limit, which is too long by no more than the age the       *)
(* cached time had when timeout_next computed it.                          *)
PollEndsInTime ==
    loop.pc = "poll" /\ loop.tv # 0 /\ base.th_notify_fd = 0 =>
        \A e \in Timers(State) :
            /\ loop.tv # NoTv
            /\ loop.tv <= (IF ev[e].timeout > 0 THEN ev[e].timeout ELSE 0) + MaxAge

(* An event starts only when no event of a more urgent priority is active: *)
(* "Active events with a lower priority are always processed before events *)
(* with a higher priority."                                                *)
UrgentFirst ==
    \A p \in 0..(loop.i - 1) : Elems(q.activequeues[p]) \cap Events = {}

StrictPriorities == [][RunCallback => UrgentFirst]_vars

(* A queue is left early when event_base_loopcontinue was called, or after *)
(* no callback that counts when max_dispatch_callbacks is 0.  The loop     *)
(* then goes on to the next queue if the only callback run was th_notify.  *)
LeftToNotify == loop.count = 0 /\ (base.event_continue \/ max_dispatch_callbacks = 0)

(* Apart from that an event starts only when none of a more urgent         *)
(* priority is active: one that a callback or another thread activates     *)
(* ends the less urgent queue after the callback that is running.          *)
PriorityOrder == [][RunCallback => UrgentFirst \/ LeftToNotify]_vars

(* An event_del that waits for the callback to end returns to its caller.  *)
WaiterReturns == \A t \in Threads : thr[t].st = "wait" ~> thr[t].st = "idle"

(* With one priority the active queue is served in order: while the loop   *)
(* runs, an active callback is run or deleted, whatever others do.         *)
ActiveRuns ==
    \A c \in Callbacks :
        base.running_loop /\ "ACTIVE" \in q.flags[c]
            ~> ~base.running_loop \/ "ACTIVE" \notin q.flags[c]

(* event_base_loopbreak makes the loop return.                             *)
BreakEndsLoop == base.event_break /\ base.running_loop ~> ~base.running_loop

(* Deferred callbacks that schedule themselves again and again do not keep *)
(* the loop from polling.                                                  *)
LoopKeepsPolling == []<>(loop.pc \in {"out", "poll"})

(* The loop comes back: to its caller after a break, and to polling while  *)
(* deferred callbacks keep coming.                                         *)
LoopComesBack == BreakEndsLoop /\ LoopKeepsPolling

(* Once the finalizer of an event or of a group of callbacks was called,   *)
(* nothing of the base refers to it, or to any of the group, any more.     *)
FinalizedIsGone ==
    \A c \in hist.dead :
        \A x \in IF c \in Elems(Group) THEN Elems(Group) ELSE {c} :
            q.flags[x] \cap QueueFlags = {} /\ base.current_event # x

(* A timeout is scheduled only for an event the program gave one to: "If a *)
(* timeout is NULL, no timeout occurs".                                    *)
TimeoutWasAskedFor == \A e \in Timers(State) : e \in hist.timed

(* A call that failed has not kept th_base_lock.                           *)
LockGivenUp == base.lock_leaked_to = NoThread

-----------------------------------------------------------------------------
(* AssertOk is proved of programs that call event_priority_set only on     *)
(* events no other thread makes calls on, that never set the priority of a *)
(* deferred callback, and that do not use event_finalize or have no signal *)
(* events.  IInv is inductive for them: a finalizer is on a callback only  *)
(* together with the mark, the loop has a timeout only until it has        *)
(* polled, and a call that waits has the arguments it was made with.       *)
CarefulProgram ==
    /\ PrioritySets \subseteq Private /\ "deferred_set_priority" \notin Ops
    /\ "finalize" \notin Ops \/ SigEvents = {}

StateInv ==
    /\ QueuesOK(q) /\ ev \in [Callbacks -> EventType] /\ base \in BaseType
    /\ \A c \in Callbacks : Finalizes(c) => "FINALIZING" \in q.flags[c]

LoopInv == loop \in LoopType /\ (loop.tv # NoTv => loop.pc \in {"later", "poll"})

CallInv(t) ==
    /\ thr[t].st # "pri"
    /\ thr[t].st = "many" => Group # <<>> /\ thr[t].arg \in 0..Len(Group)
    /\ thr[t].st \in {"wait", "woken"} =>
          /\ thr[t].e \in Events /\ thr[t].op \in {"add", "del", "active"}
          /\ thr[t].op = "add" => thr[t].arg \in Timeouts \cup {NoTv}

CallsInv == thr \in [Threads -> CallType] /\ \A t \in Threads : CallInv(t)

IInv ==
    /\ StateInv /\ LoopInv /\ CallsInv
    /\ ready \subseteq IOEvents /\ hist \in HistType
=============================================================================
