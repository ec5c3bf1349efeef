---------------------------- MODULE EventQueues ----------------------------
(***************************************************************************)
(* The bookkeeping of struct event_base in event.c: the EVLIST_* flags of  *)
(* every event_callback, the priority queues of active callbacks, the      *)
(* queue of callbacks to activate in the next iteration and the counters   *)
(* over them.  The event_queue_* functions are the only code that touches  *)
(* these fields; each is an operator from a bookkeeping record to the next *)
(* one.  A failed EVUTIL_FAILURE_CHECK ends in event_errx(1), which exits  *)
(* the process: the operator then sets `fatal'.                            *)
(***************************************************************************)
EXTENDS Integers, Sequences, FiniteSets

CONSTANTS
    Callbacks,      \* every struct event_callback of the base
    Internal,       \* the ones with EVLIST_INTERNAL
    Deferreds,      \* the ones without EVLIST_INIT (deferred callbacks)
    NPri            \* nactivequeues

ASSUME CallbacksAssumption ==
    /\ IsFiniteSet(Callbacks)
    /\ Internal \subseteq Callbacks
    /\ Deferreds \subseteq Callbacks

ASSUME NPriAssumption == NPri \in Nat \ {0}

Priorities == 0..(NPri - 1)

(* The flags that put a callback on a structure of the base.  Each one     *)
(* held by a callback that is not internal counts once in event_count.     *)
QueueFlags == {"INSERTED", "TIMEOUT", "ACTIVE", "ACTIVE_LATER"}
Flags == QueueFlags \cup {"FINALIZING"}

-----------------------------------------------------------------------------
Elems(s) == {s[i] : i \in 1..Len(s)}

TAILQ_INSERT_TAIL(s, c) == Append(s, c)

TAILQ_REMOVE(s, c) ==
    LET k == CHOOSE i \in 1..Len(s) : s[i] = c
    IN  [i \in 1..(Len(s) - 1) |-> IF i < k THEN s[i] ELSE s[i + 1]]

Incr(q, c) == IF c \in Internal THEN q.event_count ELSE q.event_count + 1
Decr(q, c) == IF c \in Internal THEN q.event_count ELSE q.event_count - 1

event_errx(q) == [q EXCEPT !.fatal = TRUE]

-----------------------------------------------------------------------------
event_queue_insert_inserted(q, c) ==
    IF "INSERTED" \in q.flags[c] THEN event_errx(q)
    ELSE [q EXCEPT !.flags[c] = @ \cup {"INSERTED"},
                   !.event_count = Incr(q, c)]

event_queue_remove_inserted(q, c) ==
    IF "INSERTED" \notin q.flags[c] THEN event_errx(q)
    ELSE [q EXCEPT !.flags[c] = @ \ {"INSERTED"},
                   !.event_count = Decr(q, c)]

event_queue_insert_timeout(q, c) ==
    IF "TIMEOUT" \in q.flags[c] THEN event_errx(q)
    ELSE [q EXCEPT !.flags[c] = @ \cup {"TIMEOUT"},
                   !.event_count = Incr(q, c)]

event_queue_remove_timeout(q, c) ==
    IF "TIMEOUT" \notin q.flags[c] THEN event_errx(q)
    ELSE [q EXCEPT !.flags[c] = @ \ {"TIMEOUT"},
                   !.event_count = Decr(q, c)]

(* Mutant: the callback goes to the head of its queue.                     *)
insert_active_at_head(q, c) ==
    IF "ACTIVE" \in q.flags[c] THEN q
    ELSE [q EXCEPT !.flags[c] = @ \cup {"ACTIVE"},
                   !.event_count = Incr(q, c),
                   !.event_count_active = @ + 1,
                   !.activequeues[q.pri[c]] = <<c>> \o @]

event_queue_insert_active(q, c) ==
    IF "ACTIVE" \in q.flags[c] THEN q
    ELSE [q EXCEPT !.flags[c] = @ \cup {"ACTIVE"},
                   !.event_count = Incr(q, c),
                   !.event_count_active = @ + 1,
                   !.activequeues[q.pri[c]] = TAILQ_INSERT_TAIL(@, c)]

(* Mutant: DECR_EVENT_COUNT is forgotten.                                  *)
remove_active_uncounted(q, c) ==
    IF "ACTIVE" \notin q.flags[c] THEN event_errx(q)
    ELSE [q EXCEPT !.flags[c] = @ \ {"ACTIVE"},
                   !.event_count_active = @ - 1,
                   !.activequeues[q.pri[c]] = TAILQ_REMOVE(@, c)]

event_queue_remove_active(q, c) ==
    IF "ACTIVE" \notin q.flags[c] THEN event_errx(q)
    ELSE [q EXCEPT !.flags[c] = @ \ {"ACTIVE"},
                   !.event_count = Decr(q, c),
                   !.event_count_active = @ - 1,
                   !.activequeues[q.pri[c]] = TAILQ_REMOVE(@, c)]

event_queue_insert_active_later(q, c) ==
    IF q.flags[c] \cap {"ACTIVE", "ACTIVE_LATER"} # {} THEN q
    ELSE [q EXCEPT !.flags[c] = @ \cup {"ACTIVE_LATER"},
                   !.event_count = Incr(q, c),
                   !.event_count_active = @ + 1,
                   !.active_later_queue = TAILQ_INSERT_TAIL(@, c)]

event_queue_remove_active_later(q, c) ==
    IF "ACTIVE_LATER" \notin q.flags[c] THEN event_errx(q)
    ELSE [q EXCEPT !.flags[c] = @ \ {"ACTIVE_LATER"},
                   !.event_count = Decr(q, c),
                   !.event_count_active = @ - 1,
                   !.active_later_queue = TAILQ_REMOVE(@, c)]

(* One turn of the loop of event_queue_make_later_events_active: the head  *)
(* of active_later_queue moves to the queue of its priority.  The counters *)
(* stay, since the callback was counted when it was queued for later.      *)
make_later_event_active(q) ==
    LET c == Head(q.active_later_queue)
    IN  [q EXCEPT !.flags[c] = (@ \ {"ACTIVE_LATER"}) \cup {"ACTIVE"},
                  !.active_later_queue = Tail(@),
                  !.activequeues[q.pri[c]] = TAILQ_INSERT_TAIL(@, c)]

-----------------------------------------------------------------------------
N_ACTIVE_CALLBACKS(q) == q.event_count_active

(* The bookkeeping records, before anything is known to be consistent.     *)
BookkeepingType ==
    [flags : [Callbacks -> SUBSET Flags],
     pri : [Callbacks -> Priorities],
     activequeues : [Priorities -> Seq(Callbacks)],
     active_later_queue : Seq(Callbacks),
     event_count : Int,
     event_count_active : Int,
     fatal : BOOLEAN]

Injective(s) == \A i, j \in 1..Len(s) : s[i] = s[j] => i = j

(* What event_base_assert_ok_nolock_ asserts of the active queues, and of  *)
(* the queue for later: a callback is on the queue of its priority exactly *)
(* when it is flagged so, once, and never on both kinds of queue.          *)
QueuesMatchFlags(q) ==
    /\ \A p \in Priorities :
          /\ Injective(q.activequeues[p])
          /\ Elems(q.activequeues[p]) =
                {c \in Callbacks : "ACTIVE" \in q.flags[c] /\ q.pri[c] = p}
    /\ Injective(q.active_later_queue)
    /\ Elems(q.active_later_queue) =
          {c \in Callbacks : "ACTIVE_LATER" \in q.flags[c]}
    /\ \A c \in Callbacks : ~({"ACTIVE", "ACTIVE_LATER"} \subseteq q.flags[c])

ActiveCallbacks(q) ==
    {c \in Callbacks : q.flags[c] \cap {"ACTIVE", "ACTIVE_LATER"} # {}}

CountedFlags(q) ==
    {x \in (Callbacks \ Internal) \X QueueFlags : x[2] \in q.flags[x[1]]}

(* event_count_active is the number of active callbacks, and event_count   *)
(* the number of structures that hold a callback that is not internal.     *)
CountersMatchFlags(q) ==
    /\ q.event_count_active = Cardinality(ActiveCallbacks(q))
    /\ q.event_count = Cardinality(CountedFlags(q))

QueuesOK(q) ==
    /\ q \in BookkeepingType
    /\ QueuesMatchFlags(q)
    /\ CountersMatchFlags(q)
    /\ q.fatal = FALSE
=============================================================================
