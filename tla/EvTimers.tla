------------------------------ MODULE EvTimers ------------------------------
(***************************************************************************)
(* The timeouts of a base: the binary heap of minheap-internal.h with the  *)
(* position that every event keeps of itself, the queues of common         *)
(* timeouts with the one internal timer each of them has in the heap, and  *)
(* the loop's use of both (event.c).  Every function holds the base's lock *)
(* from its first to its last line and is one action.                      *)
(*                                                                         *)
(* Queues are numbered from 0, and the number also names the queue's       *)
(* timeout_event.  A struct timeval is a time and the index that a common  *)
(* timeout has in the upper bits of tv_usec, or -1.  Times are normalised. *)
(* All events have one priority.  min_heap_reserve_ always succeeds: when  *)
(* it does not, event_add has changed nothing yet.                         *)
(***************************************************************************)
EXTENDS SequencesExt, Integers, FiniteSets

CONSTANTS
    Timers,                 \* the events of the program
    Schedules,              \* what programs do, see Schedule
    MAX_COMMON_TIMEOUTS

(* A program: its persistent events, the timeouts it may give each event,  *)
(* the durations it makes common, the other calls it makes, and the bound  *)
(* on the clock.                                                           *)
Schedule == [persist : SUBSET Timers, asks : [Timers -> SUBSET Nat], common : SUBSET Nat,
             calls : SUBSET {"del", "active", "update_cache_time"}, until : Nat]

ASSUME TimersAssumption == Schedules \subseteq Schedule /\ MAX_COMMON_TIMEOUTS \in Nat

VARIABLES
    plan,       \* the program
    timer,      \* per event: min_heap_idx, ev_timeout, ev_io_timeout, flags, ev_res
    heap,       \* base->timeheap: the array p and the number n
    lists,      \* base->common_timeout_queues: durations and events
    activequeue, \* the queue of active events
    clock,      \* the monotonic clock
    tv_cache,   \* base->tv_cache, -1 when it is not set
    due,        \* what was due when timeout_process last looked at the clock
    failed      \* an EVUTIL_ASSERT has failed

timevars == <<plan, timer, heap, lists, activequeue, clock, tv_cache, due, failed>>

Base == [plan |-> plan, timer |-> timer, heap |-> heap, lists |-> lists, activequeue |-> activequeue,
         clock |-> clock, tv_cache |-> tv_cache, due |-> due, failed |-> failed]

BecomesBase(s) ==
    /\ plan' = s.plan /\ timer' = s.timer /\ heap' = s.heap /\ lists' = s.lists
    /\ activequeue' = s.activequeue /\ clock' = s.clock /\ tv_cache' = s.tv_cache /\ due' = s.due
    /\ failed' = s.failed

Internal == 0..(MAX_COMMON_TIMEOUTS - 1)

tv(time, idx) == [time |-> time, idx |-> idx]

Zero == tv(0, -1)

-----------------------------------------------------------------------------
(* The heap. *)

min_heap_elem_greater(s, a, b) == s.timer[a].ev_timeout.time > s.timer[b].ev_timeout.time

PutAt(s, i, e) == [s EXCEPT !.heap.p[i] = e, !.timer[e].min_heap_idx = i]

Parent(i) == (i - 1) \div 2

RECURSIVE min_heap_shift_up_(_, _, _)
min_heap_shift_up_(s, hole, e) ==
    IF hole > 0 /\ min_heap_elem_greater(s, s.heap.p[Parent(hole)], e)
    THEN min_heap_shift_up_(PutAt(s, hole, s.heap.p[Parent(hole)]), Parent(hole), e)
    ELSE PutAt(s, hole, e)

min_heap_shift_up_unconditional_(s, hole, e) ==
    min_heap_shift_up_(PutAt(s, hole, s.heap.p[Parent(hole)]), Parent(hole), e)

RECURSIVE min_heap_shift_down_(_, _, _)
min_heap_shift_down_(s, hole, e) ==
    LET right == 2 * (hole + 1)
        min_child == IF \/ right = s.heap.n
                        \/ min_heap_elem_greater(s, s.heap.p[right], s.heap.p[right - 1])
                     THEN right - 1 ELSE right
    IN  IF right <= s.heap.n /\ min_heap_elem_greater(s, e, s.heap.p[min_child])
        THEN min_heap_shift_down_(PutAt(s, hole, s.heap.p[min_child]), min_child, e)
        ELSE PutAt(s, hole, e)

min_heap_push_(s, e) == min_heap_shift_up_([s EXCEPT !.heap.n = @ + 1], s.heap.n, e)

(* what is left behind the end of the array is never read *)
Off(s, e) == [s EXCEPT !.timer[e].min_heap_idx = -1, !.heap.p[s.heap.n] = 0]

(* Mutant: the last element only ever moves down. *)
heap_erase_down(s, e) ==
    LET last == s.heap.p[s.heap.n - 1]
    IN  Off(min_heap_shift_down_([s EXCEPT !.heap.n = @ - 1], s.timer[e].min_heap_idx, last), e)

min_heap_erase_(s, e) ==
    LET last == s.heap.p[s.heap.n - 1]
        hole == s.timer[e].min_heap_idx
        less == [s EXCEPT !.heap.n = @ - 1]
    IN  IF hole = -1 THEN s
        ELSE IF hole > 0 /\ min_heap_elem_greater(less, less.heap.p[Parent(hole)], last)
        THEN Off(min_heap_shift_up_unconditional_(less, hole, last), e)
        ELSE Off(min_heap_shift_down_(less, hole, last), e)

-----------------------------------------------------------------------------
(* Common timeouts and the two ways to wait for a time. *)

gettime(s) == IF s.tv_cache # -1 THEN s.tv_cache ELSE s.clock

is_common_timeout(s, t) == t.idx # -1 /\ t.idx < Len(s.lists)

is_same_common_timeout(t, u) == t.idx = u.idx

(* behind the last event that is not later *)
insert_common_timeout_inorder(s, idx, e) ==
    LET q == s.lists[idx + 1].events
        before == {i \in DOMAIN q : s.timer[q[i]].ev_timeout.time <= s.timer[e].ev_timeout.time}
    IN  [s EXCEPT !.lists[idx + 1].events =
            InsertAt(@, 1 + (IF before = {} THEN 0 ELSE CHOOSE i \in before : \A j \in before : j <= i), e)]

event_queue_insert_timeout(s, e) ==
    LET on == [s EXCEPT !.timer[e].timeout = TRUE]
        t == s.timer[e].ev_timeout
    IN  IF is_common_timeout(s, t) THEN insert_common_timeout_inorder(on, t.idx, e)
        ELSE min_heap_push_(on, e)

event_queue_remove_timeout(s, e) ==
    LET off == [s EXCEPT !.timer[e].timeout = FALSE]
        t == s.timer[e].ev_timeout
    IN  IF is_common_timeout(s, t)
        THEN [off EXCEPT !.lists[t.idx + 1].events = SelectSeq(@, LAMBDA x : x # e)]
        ELSE min_heap_erase_(off, e)

event_queue_remove_active(s, e) == [s EXCEPT !.activequeue = SelectSeq(@, LAMBDA x : x # e)]

(* event_add_nolock_ with a timeout, for events without a descriptor *)
RECURSIVE event_add_nolock_(_, _, _, _)
event_add_nolock_(s, e, t, absolute) ==
    LET kept == IF e \in s.plan.persist /\ ~absolute THEN [s EXCEPT !.timer[e].ev_io_timeout = t] ELSE s
        off == IF s.timer[e].timeout THEN event_queue_remove_timeout(kept, e) ELSE kept
        idle == IF Contains(s.activequeue, e) /\ "TIMEOUT" \in s.timer[e].ev_res
                THEN event_queue_remove_active(off, e) ELSE off
        at == IF absolute THEN t ELSE tv(gettime(s) + t.time, t.idx)
        on == event_queue_insert_timeout([idle EXCEPT !.timer[e].ev_timeout = at,
                                                      !.due = @ \ {e}], e)
    IN  IF is_common_timeout(s, t) /\ Head(on.lists[t.idx + 1].events) = e
        THEN event_add_nolock_(on, t.idx, tv(at.time, -1), TRUE)
        ELSE on

common_timeout_schedule(s, idx, head) ==
    event_add_nolock_(s, idx, tv(s.timer[head].ev_timeout.time, -1), TRUE)

event_del_nolock_(s, e) ==
    LET off == IF s.timer[e].timeout THEN event_queue_remove_timeout(s, e) ELSE s
    IN  event_queue_remove_active(off, e)

event_active_nolock_(s, e, res) ==
    IF Contains(s.activequeue, e) THEN [s EXCEPT !.timer[e].ev_res = @ \union {res}]
    ELSE [s EXCEPT !.timer[e].ev_res = {res}, !.activequeue = Append(@, e)]

RECURSIVE timeout_process_from(_, _)
timeout_process_from(s, now) ==
    LET e == s.heap.p[0]
    IN  IF s.heap.n = 0 \/ s.timer[e].ev_timeout.time > now THEN s
        ELSE timeout_process_from(event_active_nolock_(event_del_nolock_(s, e), e, "TIMEOUT"), now)

timeout_process(s) == timeout_process_from(s, gettime(s))

RECURSIVE common_timeout_callback_from(_, _, _)
common_timeout_callback_from(s, idx, now) ==
    LET q == s.lists[idx + 1].events
    IN  IF q = <<>> THEN s
        ELSE IF s.timer[Head(q)].ev_timeout.time > now THEN common_timeout_schedule(s, idx, Head(q))
        ELSE common_timeout_callback_from(
                event_active_nolock_(event_del_nolock_(s, Head(q)), Head(q), "TIMEOUT"), idx, now)

common_timeout_callback(s, idx) == common_timeout_callback_from(s, idx, gettime(s))

event_base_init_common_timeout(s, duration) ==
    IF \/ \E i \in DOMAIN s.lists : s.lists[i].duration = duration
       \/ Len(s.lists) = MAX_COMMON_TIMEOUTS
    THEN s ELSE [s EXCEPT !.lists = Append(@, [duration |-> duration, events |-> <<>>])]

event_persist_closure(s, e) ==
    LET x == s.timer[e]
        now == gettime(s)
        run_at == (IF "TIMEOUT" \in x.ev_res THEN x.ev_timeout.time ELSE now) + x.ev_io_timeout.time
        next == IF run_at < now THEN now + x.ev_io_timeout.time ELSE run_at
        checked == [s EXCEPT !.failed = @ \/ ~is_same_common_timeout(x.ev_timeout, x.ev_io_timeout)]
    IN  IF x.ev_io_timeout = Zero THEN s
        ELSE event_add_nolock_(checked, e, tv(next, x.ev_io_timeout.idx), TRUE)

-----------------------------------------------------------------------------
(* The program and the loop. *)

NewTimer == [min_heap_idx |-> -1, ev_timeout |-> Zero, ev_io_timeout |-> Zero,
             timeout |-> FALSE, ev_res |-> {}]

TimersInit ==
    /\ plan \in Schedules
    /\ timer = [e \in Timers \union Internal |-> NewTimer]
    /\ heap = [p |-> [i \in 0..(Cardinality(Timers \union Internal) - 1) |-> 0], n |-> 0]
    /\ lists = <<>> /\ activequeue = <<>> /\ clock = 0 /\ tv_cache = -1 /\ due = {} /\ failed = FALSE

event_add(e) ==
    \/ \E d \in plan.asks[e] : BecomesBase(event_add_nolock_(Base, e, tv(d, -1), FALSE))
    \/ \E i \in DOMAIN lists :
          /\ lists[i].duration \in plan.asks[e]
          /\ BecomesBase(event_add_nolock_(Base, e, tv(lists[i].duration, i - 1), FALSE))

event_del(e) ==
    /\ "del" \in plan.calls
    /\ BecomesBase(event_del_nolock_([Base EXCEPT !.due = @ \ {e}], e))

event_active(e) ==
    /\ "active" \in plan.calls
    /\ BecomesBase(event_active_nolock_(Base, e, "READ"))

MakeCommon ==
    \E d \in plan.common :
        /\ d \notin {lists[i].duration : i \in DOMAIN lists}
        /\ BecomesBase(event_base_init_common_timeout(Base, d))

event_base_update_cache_time ==
    /\ "update_cache_time" \in plan.calls /\ tv_cache # -1
    /\ BecomesBase([Base EXCEPT !.tv_cache = clock])

(* The poll has returned: update_time_cache and timeout_process. *)
PollReturns ==
    /\ tv_cache = -1
    /\ LET now == [Base EXCEPT !.tv_cache = clock,
                               !.due = {e \in Timers : timer[e].timeout /\ timer[e].ev_timeout.time <= clock}]
       IN  BecomesBase(timeout_process(now))

(* event_process_active_single_queue takes the next event; its callback    *)
(* may make the program's calls before the loop goes on.                   *)
RunNext ==
    /\ tv_cache # -1 /\ activequeue # <<>>
    /\ LET e == Head(activequeue)
           s == [Base EXCEPT !.due = @ \ {e}]
       IN  BecomesBase(IF e \in Internal THEN common_timeout_callback(event_del_nolock_(s, e), e)
                       ELSE IF e \in plan.persist
                       THEN event_persist_closure(event_queue_remove_active(s, e), e)
                       ELSE event_del_nolock_(s, e))

(* The next turn: clear_time_cache, and the poll begins. *)
PollBegins ==
    /\ tv_cache # -1 /\ activequeue = <<>>
    /\ BecomesBase([Base EXCEPT !.tv_cache = -1])

Tick == clock < plan.until /\ BecomesBase([Base EXCEPT !.clock = @ + 1])

TimersNext ==
    \/ \E e \in {x \in Timers : plan.asks[x] # {}} : event_add(e) \/ event_del(e) \/ event_active(e)
    \/ MakeCommon \/ event_base_update_cache_time
    \/ PollReturns \/ RunNext \/ PollBegins \/ Tick

-----------------------------------------------------------------------------
(* No timeout is slept over, and none is passed over: when the loop polls, *)
(* the top of the heap, which timeout_next takes for the length of the     *)
(* poll, is not later than any event that waits, in the heap or in a queue *)
(* of a common timeout; and by the end of its turn the loop has run, or    *)
(* the program has taken back, every event that was due at its beginning.  *)
(* No EVUTIL_ASSERT on common timeouts fails.                              *)
TimersFire ==
    /\ ~failed
    /\ activequeue = <<>> =>
          \A e \in Timers : timer[e].timeout =>
              heap.n > 0 /\ timer[heap.p[0]].ev_timeout.time <= timer[e].ev_timeout.time
    /\ tv_cache # -1 /\ activequeue = <<>> => due = {}
=============================================================================
