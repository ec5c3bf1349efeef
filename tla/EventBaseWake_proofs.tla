------------------------ MODULE EventBaseWake_proofs ------------------------
(***************************************************************************)
(* The loop of EventBase never sleeps on something it should act on and    *)
(* never sleeps past a timer, for any number of events, threads,           *)
(* priorities and timeouts: every step keeps WakeInv.  Whatever another    *)
(* thread changes while the loop is in epoll_wait either leaves the loop   *)
(* nothing to do before its timeout, or makes the eventfd readable.        *)
(***************************************************************************)
EXTENDS EventBaseOps_proofs

(* Zenon, unless a step cites another prover. *)
USE Zenon

(* The counters depend on the flags only.                                  *)
LEMMA CountersFollowFlags ==
    ASSUME QueueLaws, NEW qq, NEW rr, QueuesOK(qq), QueuesOK(rr)
    PROVE  /\ (\A c \in Callbacks : rr.flags[c] \cap {"ACTIVE", "ACTIVE_LATER"} = {})
                 => N_ACTIVE_CALLBACKS(rr) = 0
           /\ (\A c \in Callbacks : rr.flags[c] \cap QueueFlags = qq.flags[c] \cap QueueFlags)
                 => rr.event_count = qq.event_count
<1>1. ASSUME \A c \in Callbacks : rr.flags[c] \cap {"ACTIVE", "ACTIVE_LATER"} = {}
      PROVE  N_ACTIVE_CALLBACKS(rr) = 0
  <2>1. ActiveCallbacks(rr) = {}
    BY <1>1 DEF ActiveCallbacks
  <2> QED
    BY <2>1 DEF QueueLaws, QueuesOK, CountersMatchFlags, N_ACTIVE_CALLBACKS
<1>2. ASSUME \A c \in Callbacks : rr.flags[c] \cap QueueFlags = qq.flags[c] \cap QueueFlags
      PROVE  rr.event_count = qq.event_count
  <2>1. \A x \in (Callbacks \ Internal) \X QueueFlags :
           x[2] \in rr.flags[x[1]] <=> x[2] \in qq.flags[x[1]]
    <3>1. TAKE x \in (Callbacks \ Internal) \X QueueFlags
    <3>2. x[1] \in Callbacks /\ x[2] \in QueueFlags
      OBVIOUS
    <3>3. rr.flags[x[1]] \cap QueueFlags = qq.flags[x[1]] \cap QueueFlags
      BY <1>2, <3>2
    <3> QED
      BY <3>2, <3>3
  <2>2. CountedFlags(rr) = CountedFlags(qq)
    BY <2>1 DEF CountedFlags
  <2> QED
    BY <2>2 DEF QueuesOK, CountersMatchFlags
<1> QED
  BY <1>1, <1>2

(* There is nothing for the loop to do until the timeout of its poll.      *)
Rests(s) ==
    /\ N_ACTIVE_CALLBACKS(s.q) = 0
    /\ s.base.event_break = FALSE /\ s.base.event_continue = FALSE
    /\ loop.tv = NoTv =>
          /\ Timers(s) = {}
          /\ "NO_EXIT_ON_EMPTY" \in loop.flags \/ event_haveevents(s)
    /\ \A e \in Timers(s) :
          loop.tv <= (IF s.ev[e].timeout > 0 THEN s.ev[e].timeout ELSE 0) + MaxAge

(* The loop is not in event_process_active.                                *)
NotProcessing == {"out", "top", "later", "poll", "pollret", "report", "timeouts"}

(* Whoever holds the lock in the state s can rely on a notification to end *)
(* the poll: the loop is known to run, and a notification that is pending  *)
(* has left the eventfd readable, until the loop has read it.              *)
Alert(s) ==
    /\ s.base.tv_cache <= MaxAge
    /\ loop.pc # "out" => s.base.running_loop = TRUE
    /\ loop.pc \in NotProcessing => s.base.event_running_priority = -1
    /\ s.base.is_notify_pending = TRUE /\ s.base.th_notify_fd = 0 => loop.pc = "drained"

Wakeable(s) ==
    /\ Alert(s)
    /\ loop.pc = "poll" /\ loop.tv # 0 /\ s.base.th_notify_fd = 0 => Rests(s)

WakeInv == Wakeable(State) /\ (loop.pc = "later" /\ loop.tv # 0 => Rests(State))

(* The functions of event.c run with the lock held, by the loop only       *)
(* outside epoll_wait.                                                     *)
Holder(t) == loop.pc = "poll" => t # L

-----------------------------------------------------------------------------
(* What Alert depends on.                                                  *)
LEMMA AlertBase ==
    ASSUME NEW s, NEW r, Alert(s), r.base.tv_cache = s.base.tv_cache,
           r.base.running_loop = s.base.running_loop,
           r.base.event_running_priority = s.base.event_running_priority,
           r.base.is_notify_pending = s.base.is_notify_pending,
           r.base.th_notify_fd = s.base.th_notify_fd
    PROVE  Alert(r)
BY DEF Alert

(* A step that adds nothing to do keeps a loop at rest wakeable.           *)
LEMMA WakeKept ==
    ASSUME NEW s, NEW r, Wakeable(s), Alert(r),
           r.base.th_notify_fd = s.base.th_notify_fd,
           N_ACTIVE_CALLBACKS(r.q) = N_ACTIVE_CALLBACKS(s.q),
           r.base.event_break = s.base.event_break,
           r.base.event_continue = s.base.event_continue,
           Timers(r) \subseteq Timers(s),
           Timers(s) = {} /\ event_haveevents(s) => event_haveevents(r),
           \A e \in Timers(r) : r.ev[e].timeout = s.ev[e].timeout
    PROVE  Wakeable(r)
<1>1. Rests(s) => Rests(r)
  BY DEF Rests
<1> QED
  BY <1>1 DEF Wakeable

(* Writing fields of events other than the timeout changes nothing.        *)
LEMMA WakeEvents ==
    ASSUME NEW s, Sound(s), Wakeable(s), NEW x \in [Callbacks -> EventType],
           \A c \in Callbacks : x[c].timeout = s.ev[c].timeout
    PROVE  Wakeable([s EXCEPT !.ev = x])
<1>1. PICK r : r = [s EXCEPT !.ev = x]
  OBVIOUS
<1>2. r.q = s.q /\ r.ev = x /\ r.base = s.base
  BY <1>1, WithEvents
<1>3. Alert(r)
  BY <1>2, AlertBase DEF Wakeable
<1>4. Timers(r) = Timers(s) /\ (event_haveevents(r) <=> event_haveevents(s))
  BY <1>2 DEF Timers, event_haveevents
<1>5. \A e \in Timers(r) : e \in Callbacks
  BY EventBaseAssumption DEF Timers, LoopEvents
<1> QED
  BY <1>1, <1>2, <1>3, <1>4, <1>5, WakeKept

(* evthread_notify_base makes the eventfd of a polling loop readable.      *)
LEMMA WakeNotify ==
    ASSUME NEW s, Sound(s), Alert(s), NEW t, Holder(t)
    PROVE  Wakeable(evthread_notify_base(s, t))
<1>1. PICK b : b = [s.base EXCEPT !.is_notify_pending = TRUE, !.th_notify_fd = 1]
  OBVIOUS
<1>2. /\ b \in BaseType /\ b.th_notify_fd = 1 /\ b.tv_cache = s.base.tv_cache
      /\ b.running_loop = s.base.running_loop
      /\ b.event_running_priority = s.base.event_running_priority
  <2>1. s.base \in BaseType
    BY SoundParts
  <2>2. b \in BaseType
    BY <1>1, <2>1 DEF BaseType
  <2>3. /\ b.th_notify_fd = 1 /\ b.tv_cache = s.base.tv_cache
        /\ b.running_loop = s.base.running_loop
        /\ b.event_running_priority = s.base.event_running_priority
    BY <1>1, <2>1, SMT DEF BaseType
  <2> QED
    BY <2>2, <2>3
<1>3. PICK r : r = [s EXCEPT !.base = b]
  OBVIOUS
<1>4. r.base = b
  BY <1>2, <1>3, WithBase
<1>5. Wakeable(r)
  BY <1>2, <1>4, SMT DEF Wakeable, Alert
<1>6. [s EXCEPT !.base.is_notify_pending = TRUE, !.base.th_notify_fd = 1] = r
  BY <1>1, <1>3, SoundParts DEF Sound, StateType, BaseType
<1>7. CASE s.base.running_loop /\ t # L /\ ~s.base.is_notify_pending
  BY <1>5, <1>6, <1>7 DEF evthread_notify_base
<1>8. CASE ~(s.base.running_loop /\ t # L /\ ~s.base.is_notify_pending)
  <2>1. evthread_notify_base(s, t) = s
    BY <1>8 DEF evthread_notify_base
  <2>2. s.base.is_notify_pending \in BOOLEAN
    BY SoundParts DEF BaseType
  <2>3. loop.pc = "poll" => s.base.th_notify_fd # 0
    BY <1>8, <2>2 DEF Alert, Holder
  <2> QED
    BY <2>1, <2>3 DEF Wakeable
<1> QED
  BY <1>7, <1>8

(* With nothing counted as active no callback is active.                   *)
LEMMA NoneActive ==
    ASSUME NEW s, Sound(s), N_ACTIVE_CALLBACKS(s.q) = 0, NEW c \in Callbacks
    PROVE  s.q.flags[c] \cap {"ACTIVE", "ACTIVE_LATER"} = {}
<1>1. ActiveCallbacks(s.q) = {}
  BY SoundParts DEF QueueLaws, N_ACTIVE_CALLBACKS
<1> QED
  BY <1>1 DEF ActiveCallbacks

(* Taking callbacks off the queues keeps a loop at rest wakeable, as long  *)
(* as nothing goes when there is no timer: it could be the last event.     *)
LEMMA WakeQueues ==
    ASSUME NEW s, Sound(s), Wakeable(s), NEW rr, QueuesOK(rr),
           Rests(s) => \A c \in Callbacks :
              /\ rr.flags[c] \cap {"ACTIVE", "ACTIVE_LATER"} = {}
              /\ "TIMEOUT" \in rr.flags[c] => "TIMEOUT" \in s.q.flags[c],
           Rests(s) /\ Timers(s) = {} => \A c \in Callbacks :
              rr.flags[c] \cap QueueFlags = s.q.flags[c] \cap QueueFlags
    PROVE  Wakeable([s EXCEPT !.q = rr])
<1>1. PICK r : r = [s EXCEPT !.q = rr]
  OBVIOUS
<1>2. r.q = rr /\ r.ev = s.ev /\ r.base = s.base
  BY <1>1, WithQueues
<1>3. Alert(r)
  BY <1>2, AlertBase DEF Wakeable
<1>4. ASSUME Rests(s) PROVE Rests(r)
  <2>1. N_ACTIVE_CALLBACKS(r.q) = 0
    BY <1>2, <1>4, SoundParts, CountersFollowFlags
  <2>2. Timers(r) \subseteq Timers(s)
    BY <1>2, <1>4, EventBaseAssumption DEF Timers, LoopEvents
  <2>3. Timers(s) = {} => (event_haveevents(r) <=> event_haveevents(s))
    BY <1>2, <1>4, SoundParts, CountersFollowFlags DEF event_haveevents
  <2> QED
    BY <1>2, <1>4, <2>1, <2>2, <2>3 DEF Rests
<1> QED
  BY <1>1, <1>2, <1>3, <1>4 DEF Wakeable

(* A change of the queues that is followed by a notification.              *)
LEMMA WakeQueuesNotify ==
    ASSUME NEW s, Sound(s), Alert(s), NEW rr, QueuesOK(rr), NEW t, Holder(t)
    PROVE  Wakeable(evthread_notify_base([s EXCEPT !.q = rr], t))
<1>1. PICK r : r = [s EXCEPT !.q = rr]
  OBVIOUS
<1>2. Sound(r) /\ r.base = s.base
  BY <1>1, WithQueues
<1>3. Alert(r)
  BY <1>2, AlertBase
<1> QED
  BY <1>1, <1>2, <1>3, WakeNotify

(* event_callback_activate_nolock_ wakes the loop.                         *)
LEMMA WakeActivate ==
    ASSUME NEW s, Sound(s), Wakeable(s), NEW t, Holder(t), NEW c \in Callbacks
    PROVE  Wakeable(event_callback_activate_nolock_(s, t, c))
<1> DEFINE q1 == IF "ACTIVE_LATER" \in s.q.flags[c]
                 THEN event_queue_remove_active_later(s.q, c) ELSE s.q
           q2 == event_queue_insert_active(q1, c)
<1>1. CASE s.q.flags[c] \cap {"FINALIZING", "ACTIVE"} # {}
  BY <1>1 DEF event_callback_activate_nolock_
<1>2. CASE s.q.flags[c] \cap {"FINALIZING", "ACTIVE"} = {}
  <2>1. QueueLaws /\ QueuesOK(s.q)
    BY SoundParts
  <2>2. QueuesOK(q1) /\ q1.flags[c] \cap {"ACTIVE", "ACTIVE_LATER"} = {}
    BY <1>2, <2>1, QueueFlagOps, SMT DEF Writes
  <2>3. event_callback_activate_nolock_(s, t, c) = evthread_notify_base([s EXCEPT !.q = q2], t)
    BY <1>2 DEF event_callback_activate_nolock_
  <2> HIDE DEF q1
  <2>4. QueuesOK(q2)
    BY <2>1, <2>2, QueueFlagOps DEF Writes
  <2> HIDE DEF q2
  <2> QED
    BY <2>3, <2>4, WakeQueuesNotify DEF Wakeable
<1> QED
  BY <1>1, <1>2

(* event_callback_activate_later_nolock_ wakes the loop.                   *)
LEMMA WakeActivateLater ==
    ASSUME NEW s, Sound(s), Wakeable(s), NEW t, Holder(t), NEW c \in Callbacks
    PROVE  Wakeable(event_callback_activate_later_nolock_(s, t, c))
<1> DEFINE q2 == event_queue_insert_active_later(s.q, c)
<1>1. CASE s.q.flags[c] \cap {"ACTIVE", "ACTIVE_LATER"} # {}
  BY <1>1 DEF event_callback_activate_later_nolock_
<1>2. CASE s.q.flags[c] \cap {"ACTIVE", "ACTIVE_LATER"} = {}
  <2>1. event_callback_activate_later_nolock_(s, t, c)
          = evthread_notify_base([s EXCEPT !.q = q2], t)
    BY <1>2 DEF event_callback_activate_later_nolock_
  <2>2. QueuesOK(q2)
    BY <1>2, SoundParts, QueueFlagOps DEF Writes
  <2> HIDE DEF q2
  <2> QED
    BY <2>1, <2>2, WakeQueuesNotify DEF Wakeable
<1> QED
  BY <1>1, <1>2

(* Fields of the base that keep a loop at rest wakeable when written.      *)
LEMMA WakeBase ==
    ASSUME NEW s, Sound(s), Wakeable(s), NEW b \in BaseType,
           b.tv_cache = s.base.tv_cache, b.running_loop = s.base.running_loop,
           b.event_running_priority = s.base.event_running_priority,
           b.is_notify_pending = s.base.is_notify_pending,
           b.th_notify_fd = s.base.th_notify_fd, b.event_break = s.base.event_break,
           loop.pc = "poll" => b.event_continue = s.base.event_continue,
           s.base.virtual_event_count > 0 => b.virtual_event_count > 0
    PROVE  Wakeable([s EXCEPT !.base = b])
<1>1. PICK r : r = [s EXCEPT !.base = b]
  OBVIOUS
<1>2. r.q = s.q /\ r.ev = s.ev /\ r.base = b
  BY <1>1, WithBase
<1>3. Alert(r)
  BY <1>2, AlertBase DEF Wakeable
<1>4. Timers(r) = Timers(s) /\ (event_haveevents(s) => event_haveevents(r))
  BY <1>2 DEF Timers, event_haveevents
<1>5. CASE loop.pc = "poll"
  BY <1>1, <1>2, <1>3, <1>4, <1>5, WakeKept
<1>6. CASE loop.pc # "poll"
  BY <1>1, <1>3, <1>6 DEF Wakeable
<1> QED
  BY <1>5, <1>6

(* The first half of event_active_nolock_: no priority is below the -1     *)
(* that event_running_priority has during a poll.                          *)
LEMMA WakeActiveRes ==
    ASSUME NEW s, Sound(s), Wakeable(s), NEW e \in Callbacks,
           NEW res \in SUBSET {"EV_TIMEOUT"}
    PROVE  Wakeable(ActiveRes(s, e, res))
<1> DEFINE was == s.q.flags[e] \cap {"ACTIVE", "ACTIVE_LATER"}
           x == [s.ev EXCEPT ![e].res = IF was = {} THEN res ELSE @ \cup res]
           b == [s.base EXCEPT !.event_continue =
                      @ \/ /\ "ACTIVE" \notin was
                           /\ s.q.pri[e] < s.base.event_running_priority]
           s1 == [s EXCEPT !.ev = x]
           s2 == [s1 EXCEPT !.base = b]
<1>1. x \in [Callbacks -> EventType] /\ \A c \in Callbacks : x[c].timeout = s.ev[c].timeout
  BY SoundParts, SMT DEF EventType
<1>2. PICK v \in BOOLEAN :
          v = (s.base.event_continue
               \/ /\ "ACTIVE" \notin s.q.flags[e] \cap {"ACTIVE", "ACTIVE_LATER"}
                  /\ s.q.pri[e] < s.base.event_running_priority)
  OBVIOUS
<1>3. b = [s.base EXCEPT !.event_continue = v]
  BY <1>2
<1>4. ActiveRes(s, e, res) = s2
  BY SoundParts DEF ActiveRes, Sound, StateType
<1>5. loop.pc = "poll" => v = s.base.event_continue
  <2>1. s.q.pri[e] >= 0 /\ s.q.pri[e] \in Int
    BY SoundParts, NPriAssumption, SMT DEF BookkeepingType, Priorities
  <2>2. loop.pc = "poll" => s.base.event_running_priority = -1
    BY DEF Wakeable, Alert, NotProcessing
  <2>3. s.base.event_continue \in BOOLEAN
    BY SoundParts DEF BaseType
  <2>4. loop.pc = "poll" => ~(s.q.pri[e] < s.base.event_running_priority)
    BY <2>1, <2>2, SMT
  <2> QED
    BY <1>2, <2>3, <2>4
<1> HIDE DEF x, b
<1>6. Wakeable(s1) /\ Sound(s1) /\ s1.base = s.base
  BY <1>1, WakeEvents, WithEvents
<1> HIDE DEF s1
<1>8. v \in BOOLEAN
  BY <1>2
<1>7. /\ b \in BaseType /\ b.event_continue = v /\ b.tv_cache = s.base.tv_cache
      /\ b.running_loop = s.base.running_loop
      /\ b.event_running_priority = s.base.event_running_priority
      /\ b.is_notify_pending = s.base.is_notify_pending
      /\ b.th_notify_fd = s.base.th_notify_fd /\ b.event_break = s.base.event_break
      /\ b.virtual_event_count = s.base.virtual_event_count
  BY <1>3, <1>8, SoundParts, SMT DEF BaseType
<1> QED
  BY <1>4, <1>5, <1>6, <1>7, WakeBase, SMT

(* The second half of event_active_nolock_.                                *)
LEMMA WakeActiveInsert ==
    ASSUME NEW s, Sound(s), Wakeable(s), NEW t, Holder(t), NEW e \in Callbacks,
           NEW ncalls \in Int
    PROVE  Wakeable(ActiveInsert(s, t, e, ncalls))
<1> DEFINE x == [s.ev EXCEPT ![e].ncalls = ncalls, ![e].pncalls = FALSE]
           s1 == IF e \in SigEvents THEN [s EXCEPT !.ev = x] ELSE s
<1>1. x \in [Callbacks -> EventType] /\ \A c \in Callbacks : x[c].timeout = s.ev[c].timeout
  <2>1. s.ev \in [Callbacks -> EventType]
    BY SoundParts
  <2>2. PICK r : r = [s.ev[e] EXCEPT !.ncalls = ncalls, !.pncalls = FALSE]
    OBVIOUS
  <2>3. r \in EventType /\ r.timeout = s.ev[e].timeout
    BY <2>1, <2>2 DEF EventType
  <2>4. x = [s.ev EXCEPT ![e] = r]
    BY <2>1, <2>2
  <2> QED
    BY <2>1, <2>3, <2>4
<1>2. ActiveInsert(s, t, e, ncalls) = event_callback_activate_nolock_(s1, t, e)
  <2>1. [s EXCEPT !.ev[e].ncalls = ncalls, !.ev[e].pncalls = FALSE] = [s EXCEPT !.ev = x]
    BY SoundParts DEF Sound, StateType, EventType
  <2> QED
    BY <2>1 DEF ActiveInsert
<1> HIDE DEF x
<1>3. Sound(s1) /\ Wakeable(s1)
  BY <1>1, WakeEvents, WithEvents
<1> HIDE DEF s1
<1> QED
  BY <1>2, <1>3, WakeActivate

(* event_active_nolock_ wakes the loop.                                    *)
LEMMA WakeActive ==
    ASSUME NEW s, Sound(s), Wakeable(s), NEW t, Holder(t), NEW e \in Callbacks,
           NEW res \in SUBSET {"EV_TIMEOUT"}, NEW ncalls \in Int
    PROVE  Wakeable(event_active_nolock_(s, t, e, res, ncalls))
<1>1. Sound(ActiveRes(s, e, res)) /\ Wakeable(ActiveRes(s, e, res))
  BY OkActiveRes, WakeActiveRes DEF Ok
<1>2. Wakeable(ActiveInsert(ActiveRes(s, e, res), t, e, ncalls))
  BY <1>1, WakeActiveInsert
<1> QED
  BY <1>1, <1>2 DEF event_active_nolock_

(* Storing zero through ev_pncalls wakes nobody and need not.              *)
LEMMA WakeAbortLoop ==
    ASSUME NEW s, Sound(s), NEW e
    PROVE  LET a == AbortLoop(s, e)
           IN  /\ Wakeable(s) => Wakeable(a)
               /\ a.base.th_notify_fd = s.base.th_notify_fd
               /\ a.base.tv_cache = s.base.tv_cache
               /\ a.base.event_break = s.base.event_break
               /\ a.base.event_continue = s.base.event_continue
               /\ a.base.virtual_event_count = s.base.virtual_event_count
<1>1. PICK b : b = [s.base EXCEPT !.closure_ncalls = 0]
  OBVIOUS
<1>2. /\ b \in BaseType /\ b.tv_cache = s.base.tv_cache
      /\ b.running_loop = s.base.running_loop
      /\ b.event_running_priority = s.base.event_running_priority
      /\ b.is_notify_pending = s.base.is_notify_pending
      /\ b.th_notify_fd = s.base.th_notify_fd /\ b.event_break = s.base.event_break
      /\ b.event_continue = s.base.event_continue
      /\ b.virtual_event_count = s.base.virtual_event_count
  BY <1>1, SoundParts, SMT DEF BaseType
<1>3. PICK r : r = [s EXCEPT !.base = b]
  OBVIOUS
<1>4. r.base = b /\ (Wakeable(s) => Wakeable(r))
  BY <1>2, <1>3, WithBase, WakeBase
<1>5. [s EXCEPT !.base.closure_ncalls = 0] = r
  BY <1>1, <1>3
<1>6. AbortLoop(s, e) \in {s, r}
  BY <1>5 DEF AbortLoop
<1> QED
  BY <1>2, <1>4, <1>6

(* event_del_nolock_ wakes the loop when a descriptor goes, and may leave  *)
(* it asleep when a timer goes: the loop then wakes up for nothing.        *)
LEMMA WakeDel ==
    ASSUME NEW s, Sound(s), Wakeable(s), NEW t, Holder(t), NEW e \in LoopEvents
    PROVE  Wakeable(event_del_nolock_(s, t, e))
<1> DEFINE a == AbortLoop(s, e)
           d == DelQueues(a.q, e)
           s1 == [a EXCEPT !.q = d]
<1>0. e \in Callbacks
  BY EventBaseAssumption DEF LoopEvents
<1>1. Sound(a) /\ a.q = s.q /\ Wakeable(a)
  BY OkAbortLoop, WakeAbortLoop DEF Ok
<1>2. event_del_nolock_(s, t, e) = IF "FINALIZING" \in s.q.flags[e] THEN s
                                   ELSE IF "INSERTED" \in s.q.flags[e]
                                   THEN evthread_notify_base(s1, t) ELSE s1
  BY DEF DelBody, event_del_nolock_
<1> HIDE DEF a
<1>3. Writes(a.q, d, e, a.q.flags[e] \ QueueFlags)
  BY <1>0, <1>1, DelQueuesFlags DEF Sound
<1> HIDE DEF d
<1>4. Wakeable(evthread_notify_base(s1, t))
  BY <1>1, <1>3, WakeQueuesNotify DEF Writes, Wakeable
<1>5. ASSUME "INSERTED" \notin s.q.flags[e] PROVE Wakeable(s1)
  <2>1. ASSUME Rests(a), NEW c \in Callbacks
        PROVE  /\ d.flags[c] \cap {"ACTIVE", "ACTIVE_LATER"} = {}
               /\ "TIMEOUT" \in d.flags[c] => "TIMEOUT" \in a.q.flags[c]
    <3>1. a.q.flags[c] \cap {"ACTIVE", "ACTIVE_LATER"} = {}
      BY <1>1, <2>1, NoneActive DEF Rests
    <3> QED
      BY <1>3, <3>1 DEF Writes, FlagsBut
  <2>2. ASSUME Rests(a), Timers(a) = {}, NEW c \in Callbacks
        PROVE  d.flags[c] \cap QueueFlags = a.q.flags[c] \cap QueueFlags
    <3>1. a.q.flags[e] \cap {"ACTIVE", "ACTIVE_LATER"} = {}
      BY <1>0, <1>1, <2>2, NoneActive DEF Rests
    <3>2. "TIMEOUT" \notin a.q.flags[e]
      BY <2>2 DEF Timers
    <3>3. a.q.flags[e] \cap QueueFlags = {}
      BY <1>1, <1>5, <3>1, <3>2 DEF QueueFlags
    <3> QED
      BY <1>3, <3>3 DEF Writes, FlagsBut
  <2>3. QueuesOK(d)
    BY <1>3 DEF Writes
  <2> QED
    BY <1>1, <2>1, <2>2, <2>3, WakeQueues
<1> QED
  BY <1>2, <1>4, <1>5

(* event_callback_cancel_nolock_ wakes the loop where it has to.           *)
LEMMA WakeCancel ==
    ASSUME NEW s, Sound(s), Wakeable(s), NEW t, Holder(t), NEW c \in Callbacks
    PROVE  Wakeable(event_callback_cancel_nolock_(s, t, c))
<1>1. ASSUME NEW rr, QueuesOK(rr), s.q.flags[c] \cap {"ACTIVE", "ACTIVE_LATER"} # {}
      PROVE  Wakeable([s EXCEPT !.q = rr])
  <2>1. ~Rests(s)
    BY <1>1, NoneActive DEF Rests
  <2> QED
    BY <1>1, <2>1, WakeQueues
<1>2. ASSUME "ACTIVE" \in s.q.flags[c]
      PROVE  Wakeable([s EXCEPT !.q = event_queue_remove_active(s.q, c)])
  <2>1. QueuesOK(event_queue_remove_active(s.q, c))
    BY <1>2, SoundParts, QueueFlagOps DEF Writes
  <2>2. s.q.flags[c] \cap {"ACTIVE", "ACTIVE_LATER"} # {}
    BY <1>2
  <2> QED
    BY <1>1, <2>1, <2>2
<1>3. ASSUME "ACTIVE_LATER" \in s.q.flags[c]
      PROVE  Wakeable([s EXCEPT !.q = event_queue_remove_active_later(s.q, c)])
  <2>1. QueuesOK(event_queue_remove_active_later(s.q, c))
    BY <1>3, SoundParts, QueueFlagOps DEF Writes
  <2>2. s.q.flags[c] \cap {"ACTIVE", "ACTIVE_LATER"} # {}
    BY <1>3
  <2> QED
    BY <1>1, <2>1, <2>2
<1> QED
  BY <1>2, <1>3, WakeDel DEF event_callback_cancel_nolock_

(* An event that is not active is not after event_add_nolock_; without a   *)
(* descriptor and without a timeout nothing is queued.                     *)
LEMMA AddQueuesIdle ==
    ASSUME QueueLaws, NEW s, QueuesOK(s.q), NEW e \in Callbacks, NEW tv
    PROVE  /\ s.q.flags[e] \cap {"ACTIVE", "ACTIVE_LATER"} = {} =>
                 AddQueues(s, e, tv).flags[e] \cap {"ACTIVE", "ACTIVE_LATER"} = {}
           /\ tv = NoTv /\ ~AddsToMap(s, e) => AddQueues(s, e, tv) = s.q
<1> DEFINE q1 == IF AddsToMap(s, e) THEN event_queue_insert_inserted(s.q, e) ELSE s.q
           q2 == IF "TIMEOUT" \in q1.flags[e]
                 THEN event_queue_remove_timeout(q1, e) ELSE q1
           q4 == event_queue_insert_timeout(q2, e)
<1>1. ASSUME s.q.flags[e] \cap {"ACTIVE", "ACTIVE_LATER"} = {}
      PROVE  AddQueues(s, e, tv).flags[e] \cap {"ACTIVE", "ACTIVE_LATER"} = {}
  <2>1. QueuesOK(q1) /\ q1.flags[e] \cap {"ACTIVE", "ACTIVE_LATER"} = {}
    BY <1>1, QueueFlagOps, SMT DEF Writes, AddsToMap
  <2>2. ~ActiveByTimeout(s, e)
    BY <1>1 DEF ActiveByTimeout
  <2>3. AddQueues(s, e, tv) = IF tv = NoTv THEN q1 ELSE q4
    BY <2>2 DEF AddQueues
  <2> HIDE DEF q1
  <2>4. /\ QueuesOK(q2) /\ q2.flags[e] \cap {"ACTIVE", "ACTIVE_LATER"} = {}
        /\ "TIMEOUT" \notin q2.flags[e]
    BY <2>1, QueueFlagOps, SMT DEF Writes
  <2> HIDE DEF q2
  <2>5. q4.flags[e] \cap {"ACTIVE", "ACTIVE_LATER"} = {}
    BY <2>4, QueueFlagOps, SMT DEF Writes
  <2> QED
    BY <2>1, <2>3, <2>5
<1>2. ASSUME tv = NoTv, ~AddsToMap(s, e) PROVE AddQueues(s, e, tv) = s.q
  BY <1>2 DEF AddQueues
<1> QED
  BY <1>1, <1>2

(* event_add_nolock_ wakes the loop unless an earlier timer ends its poll. *)
LEMMA WakeAdd ==
    ASSUME NEW s, Sound(s), Wakeable(s), NEW t, Holder(t), NEW e \in LoopEvents,
           loop.tv \in Int, NEW tv \in Int, NEW tv_is_absolute \in BOOLEAN,
           ~tv_is_absolute => tv = NoTv \/ tv \in Nat
    PROVE  Wakeable(AddBody(s, t, e, tv, tv_is_absolute))
<1> DEFINE s1 == IF tv # NoTv /\ ActiveByTimeout(s, e) THEN AbortLoop(s, e) ELSE s
           q1 == AddQueues(s, e, tv)
           io == IF e \in Persist \ SigEvents /\ tv # NoTv /\ ~tv_is_absolute
                 THEN tv ELSE s1.ev[e].io_timeout
           to == IF tv = NoTv THEN s1.ev[e].timeout
                 ELSE IF tv_is_absolute THEN tv ELSE gettime(s) + tv
           v == [s1.ev[e] EXCEPT !.io_timeout = io, !.timeout = to]
           x == [s1.ev EXCEPT ![e].io_timeout = io, ![e].timeout = to]
           s2 == [s1 EXCEPT !.q = q1]
           s3 == [s2 EXCEPT !.ev = x]
           n3 == evthread_notify_base(s3, t)
<1>0. e \in Callbacks
  BY EventBaseAssumption DEF LoopEvents
<1>1. /\ Sound(s1) /\ s1.q = s.q /\ s1.ev = s.ev /\ Wakeable(s1)
      /\ s1.base.th_notify_fd = s.base.th_notify_fd
  BY OkAbortLoop, WakeAbortLoop DEF Ok
<1>2. s1 \in StateType /\ s1.ev[e] \in EventType
  BY <1>0, <1>1 DEF Sound, StateType
<1>3. /\ AddBody(s, t, e, tv, tv_is_absolute) \in {s3, n3}
      /\ AddBody(s, t, e, tv, tv_is_absolute) # n3 =>
            ~AddsToMap(s, e) /\ (tv # NoTv => ~min_heap_elt_is_top_(s3, e))
  <2> HIDE DEF s1
  <2> DEFINE s9 == [s1 EXCEPT
                !.q = AddQueues(s, e, tv),
                !.ev[e].io_timeout =
                    IF e \in Persist \ SigEvents /\ tv # NoTv /\ ~tv_is_absolute
                    THEN tv ELSE @,
                !.ev[e].timeout =
                    IF tv = NoTv THEN @
                    ELSE IF tv_is_absolute THEN tv ELSE gettime(s) + tv]
             notify == \/ AddsToMap(s, e)
                       \/ /\ tv # NoTv
                          /\ \/ min_heap_elt_is_top_(s9, e)
                             \/ \E f \in min_heap_tops(s9) :
                                   s9.ev[f].timeout < gettime(s)
  <2>1. AddBody(s, t, e, tv, tv_is_absolute)
          = IF notify THEN evthread_notify_base(s9, t) ELSE s9
    BY DEF AddBody, s1
  <2>2. s9 = s3
    BY <1>0, <1>2 DEF StateType, EventType
  <2> HIDE DEF s9, s3
  <2>3. CASE notify
    BY <2>1, <2>2, <2>3
  <2>4. CASE ~notify
    <3>1. AddBody(s, t, e, tv, tv_is_absolute) = s3
      BY <2>1, <2>2, <2>4
    <3>2. ~AddsToMap(s, e) /\ (tv # NoTv => ~min_heap_elt_is_top_(s3, e))
      BY <2>2, <2>4
    <3> QED
      BY <3>1, <3>2
  <2> QED
    BY <2>3, <2>4
<1> HIDE DEF s1
<1>4. io \in Nat /\ to \in Int
  BY <1>1, <1>2, gettimeType, SMT DEF EventType, NoTv
<1>12. tv = NoTv => to = s.ev[e].timeout
  BY <1>1
<1> HIDE DEF io, to
<1>5. v \in EventType /\ v.timeout = to
  <2>1. PICK w : w = s1.ev[e]
    OBVIOUS
  <2> QED
    BY <1>2, <1>4, <2>1 DEF EventType
<1>6. x = [s1.ev EXCEPT ![e] = v]
  BY <1>2 DEF StateType
<1>7. /\ x \in [Callbacks -> EventType] /\ x[e].timeout = to
      /\ \A c \in Callbacks \ {e} : x[c] = s.ev[c]
  BY <1>0, <1>1, <1>2, <1>5, <1>6 DEF StateType
<1> HIDE DEF v, x
<1>8. QueueLaws /\ QueuesOK(q1) /\ FlagsBut(s.q, q1, e) /\ QueuesOK(s.q)
  BY <1>0, AddQueuesFlags, SoundParts
<1>13. /\ s.q.flags[e] \cap {"ACTIVE", "ACTIVE_LATER"} = {} =>
              q1.flags[e] \cap {"ACTIVE", "ACTIVE_LATER"} = {}
       /\ tv = NoTv /\ ~AddsToMap(s, e) => q1 = s.q
  BY <1>0, <1>8, AddQueuesIdle
<1> HIDE DEF q1
<1>9. Sound(s2) /\ s2.q = q1 /\ s2.base = s1.base /\ s2.ev = s1.ev
  BY <1>1, <1>8, WithQueues, SMT
<1> HIDE DEF s2
<1>10. Sound(s3) /\ s3.q = q1 /\ s3.base = s1.base /\ s3.ev = x
  BY <1>7, <1>9, WithEvents
<1>11. Alert(s3)
  BY <1>1, <1>10, AlertBase DEF Wakeable
<1>14. Wakeable(n3)
  <2> HIDE DEF s3
  <2> QED
    BY <1>10, <1>11, WakeNotify
<1>15. ASSUME ~AddsToMap(s, e), tv = NoTv PROVE Wakeable(s3)
  <2>1. s2 = s1
    BY <1>1, <1>2, <1>13, <1>15 DEF s2, StateType
  <2>2. \A c \in Callbacks : x[c].timeout = s1.ev[c].timeout
    BY <1>1, <1>7, <1>12, <1>15
  <2> QED
    BY <1>1, <1>7, <2>1, <2>2, WakeEvents
<1>16. ASSUME tv # NoTv, ~min_heap_elt_is_top_(s3, e) PROVE Wakeable(s3)
  <2> HIDE DEF s3
  <2>1. PICK f \in Timers(s3) \ {e} : ~(s3.ev[e].timeout < s3.ev[f].timeout)
    BY <1>16 DEF min_heap_elt_is_top_
  <2>2. f \in Callbacks /\ f \in Timers(s) /\ f # e
    BY <1>8, <1>10, <2>1, EventBaseAssumption DEF Timers, LoopEvents, FlagsBut
  <2>3. s.ev[f].timeout \in Int /\ s.ev[f].timeout <= to
    BY <1>4, <1>7, <1>10, <2>1, <2>2, SoundParts, SMT DEF EventType
  <2>4. ASSUME Rests(s1) PROVE Rests(s3)
    <3>1. \A c \in Callbacks : s.q.flags[c] \cap {"ACTIVE", "ACTIVE_LATER"} = {}
      BY <1>1, <2>4, NoneActive DEF Rests
    <3>2. \A c \in Callbacks : q1.flags[c] \cap {"ACTIVE", "ACTIVE_LATER"} = {}
      BY <1>0, <1>8, <1>13, <3>1 DEF FlagsBut
    <3>3. N_ACTIVE_CALLBACKS(s3.q) = 0
      BY <1>8, <1>10, <3>2, CountersFollowFlags
    <3>4. Timers(s1) = Timers(s)
      BY <1>1 DEF Timers
    <3>5. loop.tv # NoTv
      BY <2>2, <2>4, <3>4 DEF Rests
    <3>6. ASSUME NEW g \in Timers(s3)
          PROVE  loop.tv <= (IF s3.ev[g].timeout > 0 THEN s3.ev[g].timeout ELSE 0) + MaxAge
      <4>1. CASE g # e
        <5>1. g \in Timers(s) /\ g \in Callbacks
          BY <1>8, <1>10, <3>6, <4>1, EventBaseAssumption DEF Timers, LoopEvents, FlagsBut
        <5> QED
          BY <1>1, <1>7, <1>10, <2>4, <3>4, <4>1, <5>1 DEF Rests
      <4>2. CASE g = e
        <5>1. loop.tv <= (IF s.ev[f].timeout > 0 THEN s.ev[f].timeout ELSE 0) + MaxAge
          BY <1>1, <2>2, <2>4, <3>4 DEF Rests
        <5>2. s3.ev[g].timeout = to
          BY <1>7, <1>10, <4>2
        <5>3. loop.tv \in Int /\ MaxAge \in Int
          BY EventBaseAssumption, SMT
        <5> QED
          BY <1>4, <2>3, <5>1, <5>2, <5>3, SMT
      <4> QED
        BY <4>1, <4>2
    <3> QED
      BY <1>10, <2>4, <3>3, <3>5, <3>6 DEF Rests
  <2> QED
    BY <1>1, <1>10, <1>11, <2>4 DEF Wakeable
<1> QED
  BY <1>3, <1>14, <1>15, <1>16

(* Giving a callback its finalizer and its mark changes nothing to wait    *)
(* for.                                                                    *)
LEMMA WakeSetFinalizing ==
    ASSUME NEW s, Sound(s), Wakeable(s), NEW c \in Callbacks
    PROVE  Wakeable(SetFinalizing(s, c))
<1>1. QueuesOK(s.q) /\ s.q.flags \in [Callbacks -> SUBSET Flags]
  BY SoundParts
<1>2. PICK qq : qq = [s.q EXCEPT !.flags[c] = @ \cup {"FINALIZING"}]
  OBVIOUS
<1>3. QueuesOK(qq) /\ qq.flags = [s.q.flags EXCEPT ![c] = @ \cup {"FINALIZING"}]
  BY <1>1, <1>2, SetFinalizingFlag
<1>4. ASSUME NEW x \in Callbacks
      PROVE  qq.flags[x] \cap QueueFlags = s.q.flags[x] \cap QueueFlags
  <2>1. CASE x = c
    <3>1. qq.flags[x] = s.q.flags[x] \cup {"FINALIZING"}
      BY <1>1, <1>3, <2>1
    <3>2. "FINALIZING" \notin QueueFlags
      BY DEF QueueFlags
    <3> QED
      BY <3>1, <3>2
  <2>2. CASE x # c
    BY <1>1, <1>3, <2>2
  <2> QED
    BY <2>1, <2>2
<1>5. ASSUME Rests(s), NEW x \in Callbacks
      PROVE  /\ qq.flags[x] \cap {"ACTIVE", "ACTIVE_LATER"} = {}
             /\ "TIMEOUT" \in qq.flags[x] => "TIMEOUT" \in s.q.flags[x]
  <2>1. s.q.flags[x] \cap {"ACTIVE", "ACTIVE_LATER"} = {}
    BY <1>5, NoneActive DEF Rests
  <2>2. qq.flags[x] \cap QueueFlags = s.q.flags[x] \cap QueueFlags
    BY <1>4
  <2> QED
    BY <2>1, <2>2 DEF QueueFlags
<1>6. SetFinalizing(s, c) = [s EXCEPT !.q = qq]
  BY <1>2 DEF SetFinalizing
<1>7. Rests(s) => \A x \in Callbacks :
              /\ qq.flags[x] \cap {"ACTIVE", "ACTIVE_LATER"} = {}
              /\ "TIMEOUT" \in qq.flags[x] => "TIMEOUT" \in s.q.flags[x]
  BY <1>5
<1>8. Rests(s) /\ Timers(s) = {} => \A x \in Callbacks :
              qq.flags[x] \cap QueueFlags = s.q.flags[x] \cap QueueFlags
  BY <1>4
<1>9. QueuesOK(qq)
  BY <1>3
<1>10. Wakeable([s EXCEPT !.q = qq])
  BY <1>7, <1>8, <1>9, WakeQueues
<1> QED
  BY <1>6, <1>10

(* Replacing the closure of a callback.                                    *)
LEMMA WakeSetClosure ==
    ASSUME NEW s, Sound(s), Wakeable(s), NEW c \in Callbacks
    PROVE  LET r == [s EXCEPT !.ev[c].closure = "finalize"]
           IN  Sound(r) /\ Wakeable(r)
<1>1. s.ev \in [Callbacks -> EventType]
  BY SoundParts
<1>2. PICK v : v = [s.ev[c] EXCEPT !.closure = "finalize"]
  OBVIOUS
<1>3. v \in EventType /\ v.timeout = s.ev[c].timeout
  BY <1>1, <1>2 DEF EventType
<1>4. PICK x : x = [s.ev EXCEPT ![c] = v]
  OBVIOUS
<1>5. x \in [Callbacks -> EventType] /\ \A y \in Callbacks : x[y].timeout = s.ev[y].timeout
  BY <1>1, <1>3, <1>4
<1>6. [s EXCEPT !.ev = x] = [s EXCEPT !.ev[c].closure = "finalize"]
  BY <1>2, <1>4
<1>7. Sound([s EXCEPT !.ev = x]) /\ Wakeable([s EXCEPT !.ev = x])
  BY <1>5, WakeEvents, WithEvents
<1> QED
  BY <1>6, <1>7

(* event_finalize_nolock_ wakes the loop where it has to.                  *)
LEMMA WakeFinalize ==
    ASSUME NEW s, Sound(s), Wakeable(s), NEW t, Holder(t), NEW e \in LoopEvents
    PROVE  Wakeable(event_finalize_nolock_(s, t, e))
<1> DEFINE s1 == event_del_nolock_(s, t, e)
           s2 == [s1 EXCEPT !.ev[e].closure = "finalize"]
           s3 == event_active_nolock_(s2, t, e, {}, 1)
<1>0. e \in Callbacks /\ {} \in SUBSET {"EV_TIMEOUT"} /\ 1 \in Int
  BY EventBaseAssumption, SMT DEF LoopEvents
<1>1. event_finalize_nolock_(s, t, e) = SetFinalizing(s3, e)
  BY DEF event_finalize_nolock_, FinalizeDel
<1>2. Sound(s1) /\ Wakeable(s1)
  BY <1>0, WakeDel, OkDel DEF Ok
<1> HIDE DEF s1
<1>3. Sound(s2) /\ Wakeable(s2)
  BY <1>0, <1>2, WakeSetClosure
<1> HIDE DEF s2
<1>4. Sound(s3) /\ Wakeable(s3)
  BY <1>0, <1>3, WakeActive, OkActive DEF Ok
<1> HIDE DEF s3
<1> QED
  BY <1>0, <1>1, <1>4, WakeSetFinalizing

(* event_callback_finalize_nolock_ wakes the loop where it has to.         *)
LEMMA WakeCallbackFinalize ==
    ASSUME NEW s, Sound(s), Wakeable(s), NEW t, Holder(t), NEW c \in Callbacks
    PROVE  Wakeable(event_callback_finalize_nolock_(s, t, c))
<1> DEFINE s1 == event_callback_cancel_nolock_(s, t, c)
           s2 == [s1 EXCEPT !.ev[c].closure = "finalize"]
           s3 == event_callback_activate_nolock_(s2, t, c)
<1>1. event_callback_finalize_nolock_(s, t, c) = SetFinalizing(s3, c)
  BY DEF event_callback_finalize_nolock_
<1>2. Sound(s1) /\ Wakeable(s1)
  BY WakeCancel, OkCancel DEF Ok
<1> HIDE DEF s1
<1>3. Sound(s2) /\ Wakeable(s2)
  BY <1>2, WakeSetClosure
<1> HIDE DEF s2
<1>4. Sound(s3) /\ Wakeable(s3)
  BY <1>3, WakeActivate, OkActivate DEF Ok
<1> HIDE DEF s3
<1> QED
  BY <1>1, <1>4, WakeSetFinalizing

-----------------------------------------------------------------------------
(* A call that changes the base to a wakeable state keeps the invariant.   *)
LEMMA WakeCall ==
    ASSUME Inv, loop.pc # "later", UNCHANGED loop, NEW r, Becomes(r), Wakeable(r)
    PROVE  WakeInv'
<1>1. State'.q = r.q /\ State'.ev = r.ev /\ State'.base = r.base
  BY DEF State, Becomes
<1>2. Alert(State)'
  BY <1>1 DEF Alert, Wakeable
<1>3. Timers(State)' = Timers(r) /\ (event_haveevents(State)' <=> event_haveevents(r))
  BY <1>1 DEF Timers, event_haveevents
<1>4. Rests(r) => Rests(State)'
  BY <1>1, <1>3 DEF Rests
<1> QED
  BY <1>1, <1>2, <1>4 DEF Wakeable, WakeInv

(* Whoever may act on the base is not the loop in its poll, and finds the  *)
(* loop outside the part of its turn that it runs with the lock held.      *)
LEMMA CallerHolds ==
    ASSUME Inv, LockInv, WakeInv, NEW t \in Threads,
           CanCall(t) \/ (thr[t].st = "woken" /\ CanLock(t)) \/ thr[t].st = "many"
    PROVE  /\ Holder(t) /\ loop.pc # "later" /\ loop.tv \in Int
           /\ Sound(State) /\ Wakeable(State)
<1>3. loop.tv \in Int /\ Sound(State) /\ Wakeable(State)
  BY StateTypes, CallTypes, SMT DEF LoopType, NoTv, WakeInv
<1>1. CASE t = L
  <2>1. loop.pc \in {"out", "cb"}
    BY <1>1 DEF LockInv, CanCall, InProgram
  <2> QED
    BY <1>3, <2>1 DEF Holder
<1>2. CASE t # L
  <2>1. loop.pc \notin LockedPcs
    BY <1>2 DEF LockInv, CanCall, CanLock
  <2> QED
    BY <1>2, <1>3, <2>1 DEF Holder, LockedPcs
<1> QED
  BY <1>1, <1>2, <1>3

(* Counting a waiter changes nothing for the loop.                         *)
LEMMA WakeWaits ==
    ASSUME Inv, loop.pc # "later", UNCHANGED loop, NEW s, Sound(s), Wakeable(s), NEW t,
           NEW op, NEW e, NEW arg, Waits(s, t, op, e, arg)
    PROVE  WakeInv'
<1>1. PICK n : n = s.base.current_event_waiters + 1
  OBVIOUS
<1>2. PICK b : b = [s.base EXCEPT !.current_event_waiters = n]
  OBVIOUS
<1>3. /\ b \in BaseType /\ b.tv_cache = s.base.tv_cache
      /\ b.running_loop = s.base.running_loop
      /\ b.event_running_priority = s.base.event_running_priority
      /\ b.is_notify_pending = s.base.is_notify_pending
      /\ b.th_notify_fd = s.base.th_notify_fd /\ b.event_break = s.base.event_break
      /\ b.event_continue = s.base.event_continue
      /\ b.virtual_event_count = s.base.virtual_event_count
  BY <1>1, <1>2, SoundParts, SMT DEF BaseType
<1>4. PICK r : r = [s EXCEPT !.base = b]
  OBVIOUS
<1>5. Wakeable(r)
  BY <1>3, <1>4, WakeBase
<1>6. Becomes(r)
  BY <1>1, <1>2, <1>4 DEF Waits
<1> QED
  BY <1>5, <1>6, WakeCall

(* event_add, before and after its wait.                                   *)
LEMMA WakeAddCall ==
    ASSUME Inv, LockInv, WakeInv, NEW t \in Threads, NEW e \in UserEvents,
           NEW tv \in Timeouts \cup {NoTv}, event_add(t, e, tv)
    PROVE  WakeInv'
<1>1. e \in LoopEvents /\ tv \in Int /\ (tv = NoTv \/ tv \in Nat)
  BY CallTypes DEF LoopEvents
<1>2. CanCall(t) /\ UNCHANGED loop
  BY DEF event_add
<1>3. /\ Holder(t) /\ loop.pc # "later" /\ loop.tv \in Int
      /\ Sound(State) /\ Wakeable(State)
  BY <1>2, CallerHolds
<1>4. Wakeable(AddBody(State, t, e, tv, FALSE))
  BY <1>1, <1>3, WakeAdd
<1>5. CASE Waits(State, t, "add", e, tv)
  BY <1>2, <1>3, <1>5, WakeWaits
<1>6. CASE Becomes(AddBody(State, t, e, tv, FALSE))
  BY <1>2, <1>3, <1>4, <1>6, WakeCall
<1> QED
  BY <1>5, <1>6 DEF event_add

(* The rest of event_add, after its wait, keeps the loop wakeable.         *)
LEMMA WakeAddAfterWait ==
    ASSUME Inv, LockInv, WakeInv, NEW t \in Threads, AddAfterWait(t)
    PROVE  WakeInv'
<1> DEFINE e == thr[t].e
           tv == thr[t].arg
<1>1. e \in LoopEvents /\ tv \in Int /\ (tv = NoTv \/ tv \in Nat)
  <2>1. CallInv(t) /\ thr[t].st = "woken" /\ thr[t].op = "add"
    BY StateTypes DEF CallsInv, AddAfterWait, Wakes
  <2>2. e \in Events /\ tv \in Timeouts \cup {NoTv}
    BY <2>1 DEF CallInv
  <2> QED
    BY <2>2, CallTypes DEF LoopEvents
<1>2. /\ Becomes(AddBody(State, t, e, tv, FALSE)) /\ UNCHANGED loop
      /\ thr[t].st = "woken" /\ CanLock(t)
  BY DEF AddAfterWait, Wakes
<1> HIDE DEF e, tv
<1>3. /\ Holder(t) /\ loop.pc # "later" /\ loop.tv \in Int
      /\ Sound(State) /\ Wakeable(State)
  BY <1>2, CallerHolds
<1>4. Wakeable(AddBody(State, t, e, tv, FALSE))
  BY <1>1, <1>3, WakeAdd
<1> QED
  BY <1>2, <1>3, <1>4, WakeCall

(* event_remove_timer leaves the loop to find out by itself.               *)
LEMMA WakeRemoveTimer ==
    ASSUME Inv, LockInv, WakeInv, NEW t \in Threads, NEW e \in UserEvents,
           event_remove_timer(t, e)
    PROVE  WakeInv'
<1>1. e \in Callbacks /\ e \in LoopEvents
  BY CallTypes DEF LoopEvents
<1>2. CanCall(t) /\ UNCHANGED <<loop, base>> /\ "TIMEOUT" \in q.flags[e]
      /\ q' = event_queue_remove_timeout(q, e)
  BY DEF event_remove_timer
<1>3. /\ Holder(t) /\ loop.pc # "later" /\ loop.tv \in Int
      /\ Sound(State) /\ Wakeable(State)
  BY <1>2, CallerHolds
<1>4. Writes(q, q', e, q.flags[e] \ {"TIMEOUT"})
  BY <1>1, <1>2, StateTypes, QueueFlagOps
<1>5. ev' \in [Callbacks -> EventType] /\ \A c \in Callbacks : ev'[c].timeout = ev[c].timeout
  <2>1. PICK v \in BOOLEAN, z \in Nat : v = FALSE /\ z = 0
    OBVIOUS
  <2>2. ev[e] \in EventType
    BY <1>1, StateTypes
  <2>3. PICK u, r, w : /\ u = [ev[e] EXCEPT !.ncalls = z]
                       /\ r = [u EXCEPT !.pncalls = v]
                       /\ w = [ev[e] EXCEPT !.io_timeout = z]
    OBVIOUS
  <2>4. r \in EventType /\ r.timeout = ev[e].timeout
    <3>1. u \in EventType /\ u.timeout = ev[e].timeout
      BY <2>1, <2>2, <2>3, SMT DEF EventType
    <3> QED
      BY <2>1, <2>3, <3>1 DEF EventType
  <2>5. w \in EventType /\ w.timeout = ev[e].timeout
    BY <2>1, <2>2, <2>3 DEF EventType
  <2>6. e \in SigEvents => ev' = [ev EXCEPT ![e] = r]
    BY <2>1, <2>3 DEF event_remove_timer
  <2>7. e \notin SigEvents => ev' = [ev EXCEPT ![e] = w]
    BY <2>1, <2>3 DEF event_remove_timer
  <2> QED
    BY <1>1, <2>4, <2>5, <2>6, <2>7, StateTypes
<1>6. PICK s1 : s1 = [State EXCEPT !.ev = ev']
  OBVIOUS
<1>7. Sound(s1) /\ Wakeable(s1) /\ s1.q = q /\ s1.ev = ev' /\ s1.base = base
  BY <1>3, <1>5, <1>6, CallTypes, WithEvents, WakeEvents, SMT
<1>8. PICK r : r = [s1 EXCEPT !.q = q']
  OBVIOUS
<1>9. Rests(s1) => \A c \in Callbacks :
          /\ q'.flags[c] \cap {"ACTIVE", "ACTIVE_LATER"} = {}
          /\ "TIMEOUT" \in q'.flags[c] => "TIMEOUT" \in s1.q.flags[c]
  <2>1. SUFFICES ASSUME Rests(s1), NEW c \in Callbacks
                 PROVE  /\ q'.flags[c] \cap {"ACTIVE", "ACTIVE_LATER"} = {}
                        /\ "TIMEOUT" \in q'.flags[c] => "TIMEOUT" \in s1.q.flags[c]
    OBVIOUS
  <2>2. q.flags[c] \cap {"ACTIVE", "ACTIVE_LATER"} = {}
    BY <1>7, <2>1, NoneActive DEF Rests
  <2> QED
    BY <1>4, <1>7, <2>2 DEF Writes, FlagsBut
<1>10. Timers(s1) # {}
  BY <1>1, <1>2, <1>7 DEF Timers
<1>11. Wakeable(r) /\ r.q = q' /\ r.ev = ev' /\ r.base = base
  BY <1>4, <1>7, <1>8, <1>9, <1>10, WakeQueues, WithQueues, SMTT(20) DEF Writes
<1>12. Becomes(r)
  BY <1>2, <1>11 DEF Becomes
<1> QED
  BY <1>2, <1>3, <1>11, <1>12, WakeCall

(* event_del keeps the loop wakeable, up to its wait...                    *)
LEMMA WakeDelCall ==
    ASSUME Inv, LockInv, WakeInv, NEW t \in Threads, NEW e \in UserEvents,
           NEW m, event_del(t, e, m)
    PROVE  WakeInv'
<1> DEFINE s == event_del_nolock_(State, t, e)
<1>1. e \in LoopEvents /\ e \in Callbacks
  BY CallTypes DEF LoopEvents
<1>2. CanCall(t) /\ UNCHANGED loop /\ (Waits(s, t, "del", e, 0) \/ Becomes(s))
  BY DEF event_del
<1>3. /\ Holder(t) /\ loop.pc # "later" /\ loop.tv \in Int
      /\ Sound(State) /\ Wakeable(State)
  BY <1>2, CallerHolds
<1>4. Sound(s) /\ Wakeable(s)
  BY <1>1, <1>3, WakeDel, OkDel DEF Ok
<1> HIDE DEF s
<1> QED
  BY <1>2, <1>3, <1>4, WakeWaits, WakeCall

(* ...and after it.                                                        *)
LEMMA WakeDelAfterWait ==
    ASSUME Inv, LockInv, WakeInv, NEW t \in Threads, DelAfterWait(t)
    PROVE  WakeInv'
<1>1. UNCHANGED loop /\ thr[t].st = "woken" /\ CanLock(t) /\ UNCHANGED <<q, ev, base>>
  BY DEF DelAfterWait, Wakes
<1>2. Becomes(State)
  BY <1>1 DEF Becomes, State
<1> QED
  BY <1>1, <1>2, CallerHolds, WakeCall

(* event_active keeps the loop wakeable, up to its wait...                 *)
LEMMA WakeActiveCall ==
    ASSUME Inv, LockInv, WakeInv, NEW t \in Threads, NEW e \in UserEvents,
           NEW n \in NCalls, event_active(t, e, n)
    PROVE  WakeInv'
<1>1. e \in Callbacks /\ n \in Int /\ {} \in SUBSET {"EV_TIMEOUT"}
  BY CallTypes, EventBaseAssumption, SMT
<1>2. CanCall(t) /\ UNCHANGED loop
  BY DEF event_active
<1>3. /\ Holder(t) /\ loop.pc # "later" /\ loop.tv \in Int
      /\ Sound(State) /\ Wakeable(State)
  BY <1>2, CallerHolds
<1>4. /\ Wakeable(event_active_nolock_(State, t, e, {}, n))
      /\ Wakeable(ActiveRes(State, e, {})) /\ Sound(ActiveRes(State, e, {}))
  BY <1>1, <1>3, WakeActive, WakeActiveRes, OkActiveRes DEF Ok
<1>5. CASE Waits(ActiveRes(State, e, {}), t, "active", e, n)
  BY <1>2, <1>3, <1>4, <1>5, WakeWaits
<1>6. CASE Becomes(event_active_nolock_(State, t, e, {}, n))
  BY <1>2, <1>3, <1>4, <1>6, WakeCall
<1> QED
  BY <1>5, <1>6 DEF event_active

(* ...and after it.                                                        *)
LEMMA WakeActiveAfterWait ==
    ASSUME Inv, LockInv, WakeInv, NEW t \in Threads, ActiveAfterWait(t)
    PROVE  WakeInv'
<1>1. thr[t].e \in Callbacks /\ thr[t].arg \in Int
  <2>1. CallInv(t) /\ thr[t].st = "woken" /\ thr[t] \in CallType
    BY StateTypes DEF CallsInv, ActiveAfterWait, Wakes
  <2> QED
    BY <2>1, CallTypes DEF CallInv, CallType
<1>2. /\ Becomes(ActiveInsert(State, t, thr[t].e, thr[t].arg)) /\ UNCHANGED loop
      /\ thr[t].st = "woken" /\ CanLock(t)
  BY DEF ActiveAfterWait, Wakes
<1>3. /\ Holder(t) /\ loop.pc # "later" /\ loop.tv \in Int
      /\ Sound(State) /\ Wakeable(State)
  BY <1>2, CallerHolds
<1>4. Wakeable(ActiveInsert(State, t, thr[t].e, thr[t].arg))
  BY <1>1, <1>3, WakeActiveInsert
<1> QED
  BY <1>2, <1>3, <1>4, WakeCall

(* event_active_later_ wakes the loop for the callback it queues.          *)
LEMMA WakeActiveLaterCall ==
    ASSUME Inv, LockInv, WakeInv, NEW t \in Threads, NEW e \in UserEvents,
           event_active_later_(t, e)
    PROVE  WakeInv'
<1> DEFINE was == q.flags[e] \cap {"ACTIVE", "ACTIVE_LATER"} # {}
           s1 == [State EXCEPT !.ev[e].res = IF was THEN @ ELSE {}]
<1>1. e \in Callbacks
  BY CallTypes
<1>2. PICK x : x = [ev EXCEPT ![e].res = IF was THEN @ ELSE {}]
  OBVIOUS
<1>3. x \in [Callbacks -> EventType] /\ \A c \in Callbacks : x[c].timeout = ev[c].timeout
  BY <1>1, <1>2, StateTypes, SMT DEF EventType
<1>4. s1 = [State EXCEPT !.ev = x]
  BY <1>2, CallTypes
<1>5. /\ Becomes(event_callback_activate_later_nolock_(s1, t, e))
      /\ CanCall(t) /\ UNCHANGED loop
  BY DEF event_active_later_
<1> HIDE DEF s1
<1>6. /\ Holder(t) /\ loop.pc # "later" /\ loop.tv \in Int
      /\ Sound(State) /\ Wakeable(State)
  BY <1>5, CallerHolds
<1>7. Sound(s1) /\ Wakeable(s1)
  BY <1>3, <1>4, <1>6, CallTypes, WithEvents, WakeEvents, SMT
<1>8. Wakeable(event_callback_activate_later_nolock_(s1, t, e))
  BY <1>1, <1>6, <1>7, WakeActivateLater
<1> QED
  BY <1>5, <1>6, <1>8, WakeCall

(* event_finalize of a careful program wakes the loop for the finalizer.   *)
LEMMA WakeFinalizeCall ==
    ASSUME Inv, LockInv, WakeInv, CarefulProgram, NEW t \in Threads, NEW e \in UserEvents,
           event_finalize(t, e)
    PROVE  WakeInv'
<1>1. e \in LoopEvents
  BY CallTypes DEF LoopEvents
<1>2. Becomes(event_finalize_nolock_(State, t, e)) /\ CanCall(t) /\ UNCHANGED loop
  BY DEF CarefulProgram, event_finalize
<1>3. /\ Holder(t) /\ loop.pc # "later" /\ loop.tv \in Int
      /\ Sound(State) /\ Wakeable(State)
  BY <1>2, CallerHolds
<1>4. Wakeable(event_finalize_nolock_(State, t, e))
  BY <1>1, <1>3, WakeFinalize
<1> QED
  BY <1>2, <1>3, <1>4, WakeCall

(* event_callback_finalize_many_ keeps the loop wakeable for each callback *)
(* of the group but the last,                                              *)
LEMMA WakeFinalizeNext ==
    ASSUME Inv, LockInv, WakeInv, NEW t \in Threads, FinalizeNext(t)
    PROVE  WakeInv'
<1> DEFINE c == Group[thr[t].arg + 1]
           running == base.current_event = c
           r == IF running THEN event_callback_finalize_nolock_(State, t, c)
                ELSE event_callback_cancel_nolock_(State, t, c)
<1>1. thr[t].st = "many" /\ thr[t].arg \in 0..Len(Group) /\ thr[t].arg < Len(Group)
  <2>1. CallInv(t) /\ thr[t].st = "many" /\ thr[t].arg < Len(Group)
    BY StateTypes DEF CallsInv, FinalizeNext
  <2> QED
    BY <2>1 DEF CallInv
<1>2. c \in Callbacks
  BY <1>1, EventBaseAssumption, SMT
<1>3. Becomes(r) /\ UNCHANGED loop
  BY DEF FinalizeNext
<1> HIDE DEF c
<1>4. /\ Holder(t) /\ loop.pc # "later" /\ loop.tv \in Int
      /\ Sound(State) /\ Wakeable(State)
  BY <1>1, CallerHolds
<1>5. Wakeable(r)
  BY <1>2, <1>4, WakeCallbackFinalize, WakeCancel
<1> HIDE DEF r
<1> QED
  BY <1>3, <1>4, <1>5, WakeCall

(* and for the last one, whose finalizer it activates.                     *)
LEMMA WakeFinalizeLast ==
    ASSUME Inv, LockInv, WakeInv, NEW t \in Threads, FinalizeLast(t)
    PROVE  WakeInv'
<1> DEFINE r == IF thr[t].e = NoCb
                THEN event_callback_finalize_nolock_(State, t, Group[1]) ELSE State
<1>1. thr[t].st = "many" /\ Group # <<>>
  <2>1. CallInv(t) /\ thr[t].st = "many"
    BY StateTypes DEF CallsInv, FinalizeLast
  <2> QED
    BY <2>1 DEF CallInv
<1>2. Group[1] \in Callbacks
  BY <1>1, EventBaseAssumption, SMT
<1>3. Becomes(r) /\ UNCHANGED loop
  BY DEF FinalizeLast
<1>4. /\ Holder(t) /\ loop.pc # "later" /\ loop.tv \in Int
      /\ Sound(State) /\ Wakeable(State)
  BY <1>1, CallerHolds
<1>5. Wakeable(r)
  BY <1>2, <1>4, WakeCallbackFinalize
<1> HIDE DEF r
<1> QED
  BY <1>3, <1>4, <1>5, WakeCall

(* event_base_once keeps the loop wakeable: it adds the event, or activates *)
(* it at once.                                                             *)
LEMMA WakeOnce ==
    ASSUME Inv, LockInv, WakeInv, NEW t \in Threads, NEW e \in OnceEvents,
           NEW tv \in Timeouts \cup {NoTv}, event_base_once(t, e, tv)
    PROVE  WakeInv'
<1> DEFINE s == IF ActivatesAtOnce(e, tv)
                THEN event_active_nolock_(State, t, e, {"EV_TIMEOUT"}, 1)
                ELSE AddBody(State, t, e, tv, FALSE)
<1>1. e \in LoopEvents /\ e \in Callbacks /\ tv \in Int /\ (tv = NoTv \/ tv \in Nat)
  BY CallTypes, EventBaseAssumption DEF LoopEvents
<1>2. /\ Becomes([s EXCEPT !.base.once_events = @ \cup {e}])
      /\ CanCall(t) /\ UNCHANGED loop
  BY DEF event_base_once, CallsOnce
<1>3. /\ Holder(t) /\ loop.pc # "later" /\ loop.tv \in Int
      /\ Sound(State) /\ Wakeable(State)
  BY <1>2, CallerHolds
<1>4. Sound(s) /\ Wakeable(s)
  <2>1. {"EV_TIMEOUT"} \in SUBSET {"EV_TIMEOUT"} /\ 1 \in Int
    BY SMT
  <2>2. /\ Sound(event_active_nolock_(State, t, e, {"EV_TIMEOUT"}, 1))
        /\ Wakeable(event_active_nolock_(State, t, e, {"EV_TIMEOUT"}, 1))
    BY <1>1, <1>3, <2>1, OkActive, WakeActive DEF Ok
  <2>3. Sound(AddBody(State, t, e, tv, FALSE)) /\ Wakeable(AddBody(State, t, e, tv, FALSE))
    BY <1>1, <1>3, OkAddBody, WakeAdd DEF Ok
  <2> QED
    BY <2>2, <2>3
<1> HIDE DEF s
<1>5. PICK b : b = [s.base EXCEPT !.once_events = @ \cup {e}]
  OBVIOUS
<1>6. /\ b \in BaseType /\ b.tv_cache = s.base.tv_cache
      /\ b.running_loop = s.base.running_loop
      /\ b.event_running_priority = s.base.event_running_priority
      /\ b.is_notify_pending = s.base.is_notify_pending
      /\ b.th_notify_fd = s.base.th_notify_fd /\ b.event_break = s.base.event_break
      /\ b.event_continue = s.base.event_continue
      /\ b.virtual_event_count = s.base.virtual_event_count
  BY <1>4, <1>5, SoundParts, SMT DEF BaseType
<1>7. PICK r : r = [s EXCEPT !.base = b]
  OBVIOUS
<1>8. Wakeable(r)
  BY <1>4, <1>6, <1>7, WakeBase
<1>9. [s EXCEPT !.base.once_events = @ \cup {e}] = r
  BY <1>5, <1>7
<1> QED
  BY <1>2, <1>3, <1>8, <1>9, WakeCall

(* The calls that change nothing but the base give the loop no more to do. *)
LEMMA WakeBaseCall ==
    ASSUME Inv, LockInv, WakeInv, NEW t \in Threads,
           \/ OnceFails(t) \/ event_base_update_cache_time(t)
           \/ event_base_add_virtual_(t)
    PROVE  WakeInv'
<1>1. CanCall(t) /\ UNCHANGED <<q, ev, loop>>
  BY DEF OnceFails, CallsOnce, event_base_update_cache_time, event_base_add_virtual_
<1>2. /\ Holder(t) /\ loop.pc # "later" /\ loop.tv \in Int
      /\ Sound(State) /\ Wakeable(State)
  BY <1>1, CallerHolds
<1>3. MaxAge \in Nat /\ base \in BaseType /\ State.base = base
  BY EventBaseAssumption, StateTypes, CallTypes
<1>4. /\ base'.tv_cache <= MaxAge
      /\ base'.running_loop = base.running_loop
      /\ base'.event_running_priority = base.event_running_priority
      /\ base'.is_notify_pending = base.is_notify_pending
      /\ base'.th_notify_fd = base.th_notify_fd /\ base'.event_break = base.event_break
      /\ base'.event_continue = base.event_continue
      /\ base.virtual_event_count > 0 => base'.virtual_event_count > 0
  <2>0. base.tv_cache <= MaxAge
    BY <1>2, <1>3 DEF Wakeable, Alert
  <2>1. CASE OnceFails(t)
    BY <1>3, <2>0, <2>1 DEF OnceFails, BaseType
  <2>2. CASE event_base_update_cache_time(t)
    <3>1. base' = [base EXCEPT !.tv_cache = 0]
      BY <2>2 DEF event_base_update_cache_time, update_time_cache
    <3> QED
      BY <1>3, <3>1, SMT DEF BaseType
  <2>3. CASE event_base_add_virtual_(t)
    BY <1>3, <2>0, <2>3, SMT DEF event_base_add_virtual_, BaseType
  <2> QED
    BY <2>1, <2>2, <2>3
<1>5. PICK r : r = [q |-> q, ev |-> ev, base |-> base']
  OBVIOUS
<1>6. /\ r.q = q /\ r.ev = ev /\ r.base = base' /\ State.q = q /\ State.ev = ev
      /\ Becomes(r)
  BY <1>1, <1>5 DEF Becomes, State
<1>7. Alert(r)
  BY <1>2, <1>3, <1>4, <1>6 DEF Wakeable, Alert
<1>8. Timers(r) = Timers(State) /\ (event_haveevents(State) => event_haveevents(r))
  BY <1>3, <1>4, <1>6 DEF Timers, event_haveevents
<1>9. Wakeable(r)
  BY <1>2, <1>3, <1>4, <1>6, <1>7, <1>8, WakeKept
<1> QED
  BY <1>1, <1>2, <1>6, <1>9, WakeCall

(* event_base_loopbreak, event_base_loopcontinue and the removal of the    *)
(* last virtual event wake the loop.                                       *)
LEMMA WakeNotifyCall ==
    ASSUME Inv, LockInv, WakeInv, NEW t \in Threads,
           \/ event_base_loopbreak(t) \/ event_base_loopcontinue(t)
           \/ event_base_del_virtual_(t)
    PROVE  WakeInv'
<1>1. CanCall(t) /\ UNCHANGED loop
  BY DEF event_base_loopbreak, event_base_loopcontinue, event_base_del_virtual_
<1>2. /\ Holder(t) /\ loop.pc # "later" /\ loop.tv \in Int
      /\ Sound(State) /\ Wakeable(State)
  BY <1>1, CallerHolds
<1>3. base \in BaseType /\ State.base = base
  BY StateTypes, CallTypes
<1>4. ASSUME NEW b \in BaseType,
             b.tv_cache = base.tv_cache, b.running_loop = base.running_loop,
             b.event_running_priority = base.event_running_priority,
             b.is_notify_pending = base.is_notify_pending,
             b.th_notify_fd = base.th_notify_fd
      PROVE  Wakeable(evthread_notify_base([State EXCEPT !.base = b], t))
  <2>1. PICK r : r = [State EXCEPT !.base = b]
    OBVIOUS
  <2>2. Sound(r) /\ r.base = b
    BY <1>2, <2>1, WithBase
  <2>3. Alert(r)
    BY <1>2, <1>3, <1>4, <2>2, AlertBase DEF Wakeable
  <2> QED
    BY <1>2, <2>1, <2>2, <2>3, WakeNotify
<1>5. CASE event_base_loopbreak(t)
  <2>1. PICK b : b = [base EXCEPT !.event_break = TRUE]
    OBVIOUS
  <2>2. /\ b \in BaseType /\ b.tv_cache = base.tv_cache /\ b.running_loop = base.running_loop
        /\ b.event_running_priority = base.event_running_priority
        /\ b.is_notify_pending = base.is_notify_pending
        /\ b.th_notify_fd = base.th_notify_fd
    BY <1>3, <2>1 DEF BaseType
  <2>3. [State EXCEPT !.base.event_break = TRUE] = [State EXCEPT !.base = b]
    BY <2>1, CallTypes
  <2> QED
    BY <1>1, <1>2, <1>4, <1>5, <2>2, <2>3, WakeCall DEF event_base_loopbreak
<1>6. CASE event_base_loopcontinue(t)
  <2>1. PICK b : b = [base EXCEPT !.event_continue = TRUE]
    OBVIOUS
  <2>2. /\ b \in BaseType /\ b.tv_cache = base.tv_cache /\ b.running_loop = base.running_loop
        /\ b.event_running_priority = base.event_running_priority
        /\ b.is_notify_pending = base.is_notify_pending
        /\ b.th_notify_fd = base.th_notify_fd
    BY <1>3, <2>1 DEF BaseType
  <2>3. [State EXCEPT !.base.event_continue = TRUE] = [State EXCEPT !.base = b]
    BY <2>1, CallTypes
  <2> QED
    BY <1>1, <1>2, <1>4, <1>6, <2>2, <2>3, WakeCall DEF event_base_loopcontinue
<1>7. CASE event_base_del_virtual_(t)
  <2>1. PICK n \in Nat : n = base.virtual_event_count - 1
    BY <1>3, <1>7, SMT DEF BaseType, event_base_del_virtual_
  <2>2. PICK b : b = [base EXCEPT !.virtual_event_count = n]
    OBVIOUS
  <2>3. /\ b \in BaseType /\ b.tv_cache = base.tv_cache /\ b.running_loop = base.running_loop
        /\ b.event_running_priority = base.event_running_priority
        /\ b.is_notify_pending = base.is_notify_pending
        /\ b.th_notify_fd = base.th_notify_fd /\ b.event_break = base.event_break
        /\ b.event_continue = base.event_continue /\ b.virtual_event_count = n
    BY <1>3, <2>2 DEF BaseType
  <2>4. [State EXCEPT !.base.virtual_event_count = @ - 1] = [State EXCEPT !.base = b]
    BY <2>1, <2>2, CallTypes
  <2>5. PICK s : s = [State EXCEPT !.base = b]
    OBVIOUS
  <2>6. s.base = b
    BY <1>2, <2>3, <2>5, WithBase
  <2>7. Becomes(IF n = 0 THEN evthread_notify_base(s, t) ELSE s)
    BY <1>7, <2>3, <2>4, <2>5, <2>6 DEF event_base_del_virtual_
  <2>8. CASE n = 0
    <3>1. Becomes(evthread_notify_base(s, t)) /\ Wakeable(evthread_notify_base(s, t))
      BY <1>4, <2>3, <2>5, <2>7, <2>8
    <3> QED
      BY <1>1, <1>2, <3>1, WakeCall
  <2>9. CASE n # 0
    <3>1. Becomes(s)
      BY <2>7, <2>9
    <3>2. b.virtual_event_count > 0
      BY <2>3, <2>9, SMT
    <3>3. Wakeable(s)
      BY <1>2, <1>3, <2>3, <2>5, <3>2, WakeBase
    <3> QED
      BY <1>1, <1>2, <3>1, <3>3, WakeCall
  <2> QED
    BY <2>8, <2>9
<1> QED
  BY <1>5, <1>6, <1>7

(* Scheduling a deferred callback for the loop wakes it, and cancelling    *)
(* one gives it no more to do.                                             *)
LEMMA WakeDeferred ==
    ASSUME Inv, LockInv, WakeInv, NEW t \in Threads, NEW c \in Deferreds,
           event_deferred_cb_schedule_(t, c) \/ event_deferred_cb_cancel_(t, c)
    PROVE  WakeInv'
<1>1. CanCall(t) /\ UNCHANGED loop
  BY DEF event_deferred_cb_schedule_, event_deferred_cb_cancel_
<1>2. /\ Holder(t) /\ loop.pc # "later" /\ loop.tv \in Int
      /\ Sound(State) /\ Wakeable(State) /\ c \in Callbacks
  BY <1>1, CallerHolds, CallTypes
<1>3. CASE event_deferred_cb_cancel_(t, c)
  <2>1. Wakeable(event_callback_cancel_nolock_(State, t, c))
    BY <1>2, WakeCancel
  <2> QED
    BY <1>1, <1>2, <1>3, <2>1, WakeCall DEF event_deferred_cb_cancel_
<1>4. CASE event_deferred_cb_schedule_(t, c)
  <2> DEFINE s == event_callback_activate_nolock_(State, t, c)
             new == q.flags[c] = {}
  <2>1. \/ Becomes(event_callback_activate_later_nolock_(State, t, c))
        \/ Becomes([s EXCEPT !.base.n_deferreds_queued = IF new THEN @ + 1 ELSE @])
    BY <1>4 DEF event_deferred_cb_schedule_
  <2>2. Wakeable(s) /\ Wakeable(event_callback_activate_later_nolock_(State, t, c))
    BY <1>2, WakeActivate, WakeActivateLater
  <2>3. Sound(s)
    BY <1>2, OkActivate DEF Ok
  <2> HIDE DEF s, new
  <2>4. s.base \in BaseType
    BY <2>3, SoundParts
  <2>5. PICK n : n = IF new THEN s.base.n_deferreds_queued + 1
                     ELSE s.base.n_deferreds_queued
    OBVIOUS
  <2>6. n \in Nat
    BY <2>4, <2>5, SMT DEF BaseType
  <2>7. PICK b : b = [s.base EXCEPT !.n_deferreds_queued = n]
    OBVIOUS
  <2>8. /\ b \in BaseType /\ b.tv_cache = s.base.tv_cache
        /\ b.running_loop = s.base.running_loop
        /\ b.event_running_priority = s.base.event_running_priority
        /\ b.is_notify_pending = s.base.is_notify_pending
        /\ b.th_notify_fd = s.base.th_notify_fd /\ b.event_break = s.base.event_break
        /\ b.event_continue = s.base.event_continue
        /\ b.virtual_event_count = s.base.virtual_event_count
    BY <2>4, <2>6, <2>7 DEF BaseType
  <2>9. [s EXCEPT !.base.n_deferreds_queued = IF new THEN @ + 1 ELSE @]
          = [s EXCEPT !.base = b]
    BY <2>5, <2>7
  <2>10. Wakeable([s EXCEPT !.base = b])
    BY <2>2, <2>3, <2>8, WakeBase
  <2> QED
    BY <1>1, <1>2, <2>1, <2>2, <2>9, <2>10, WakeCall
<1> QED
  BY <1>3, <1>4

-----------------------------------------------------------------------------
(* A step that changes neither the base nor what is pending, active or     *)
(* timed leaves the loop as wakeable as it was:                            *)
LEMMA WakeUnmoved ==
    ASSUME WakeInv, UNCHANGED <<ev, base, loop>>, q'.flags = q.flags,
           q'.event_count = q.event_count,
           q'.event_count_active = q.event_count_active
    PROVE  WakeInv'
<1>1. /\ State.q = q /\ State.ev = ev /\ State.base = base
      /\ State'.q = q' /\ State'.ev = ev /\ State'.base = base
  BY DEF State
<1>2. Timers(State)' = Timers(State)
  BY <1>1 DEF Timers
<1>3. Rests(State) => Rests(State)'
  BY <1>1, <1>2 DEF Rests, event_haveevents, N_ACTIVE_CALLBACKS
<1> QED
  BY <1>1, <1>3 DEF WakeInv, Wakeable, Alert

(* event_priority_set, the start of event_callback_finalize_many_, a       *)
(* descriptor that changes and a spurious wakeup do nothing else.          *)
LEMMA WakeQuiet ==
    ASSUME Inv, WakeInv,
           \/ CarefulProgram /\ \E t \in Threads, e \in UserEvents, p \in Priorities :
                 event_priority_set(t, e, p)
           \/ \E t \in Threads : event_callback_finalize_many_(t) \/ SpuriousWakeup(t)
           \/ \E e \in IOEvents : DescriptorChanges(e)
    PROVE  WakeInv'
<1>1. UNCHANGED <<ev, base, loop>>
  BY DEF event_priority_set, event_callback_finalize_many_, SpuriousWakeup,
         DescriptorChanges
<1> DEFINE Same == /\ q'.flags = q.flags /\ q'.event_count = q.event_count
                   /\ q'.event_count_active = q.event_count_active
<1>2. ASSUME CarefulProgram, NEW t \in Threads, NEW e \in UserEvents,
             NEW p \in Priorities, event_priority_set(t, e, p)
      PROVE  Same
  <2>1. q' = [q EXCEPT !.pri[e] = p]
    BY <1>2 DEF event_priority_set, CarefulProgram
  <2> QED
    BY <2>1, StateTypes DEF BookkeepingType
<1>3. ASSUME UNCHANGED q
      PROVE  Same
  BY <1>3
<1>4. Same
  <2> HIDE DEF Same
  <2> QED
    BY <1>2, <1>3 DEF event_callback_finalize_many_, SpuriousWakeup, DescriptorChanges
<1> QED
  BY <1>1, <1>4, WakeUnmoved

-----------------------------------------------------------------------------
(* What WakeInv says of the fields of the base.                            *)
LEMMA WakeFacts ==
    ASSUME Inv, WakeInv
    PROVE  /\ base.tv_cache <= MaxAge
           /\ loop.pc # "out" => base.running_loop = TRUE
           /\ loop.pc \in NotProcessing => base.event_running_priority = -1
           /\ base.is_notify_pending = TRUE /\ base.th_notify_fd = 0 => loop.pc = "drained"
           /\ base \in BaseType /\ loop \in LoopType /\ MaxAge \in Nat /\ NoTv <= MaxAge
           /\ loop.pc \notin {"later", "poll"} => loop.tv = NoTv
<1>1. /\ base.tv_cache <= MaxAge
      /\ loop.pc # "out" => base.running_loop = TRUE
      /\ loop.pc \in NotProcessing => base.event_running_priority = -1
      /\ base.is_notify_pending = TRUE /\ base.th_notify_fd = 0 => loop.pc = "drained"
  BY DEF WakeInv, Wakeable, Alert, State
<1>2. /\ base \in BaseType /\ loop \in LoopType /\ MaxAge \in Nat /\ NoTv <= MaxAge
      /\ loop.pc \notin {"later", "poll"} => loop.tv = NoTv
  BY StateTypes, EventBaseAssumption, SMT DEF NoTv, LoopInv
<1> QED
  BY <1>1, <1>2

(* A step that leaves the loop neither in its poll nor about to start one  *)
(* has the fields of the base to account for only.                         *)
LEMMA WakeElsewhere ==
    ASSUME loop'.pc \notin {"later", "poll"}, base'.tv_cache <= MaxAge,
           loop'.pc # "out" => base'.running_loop = TRUE,
           loop'.pc \in NotProcessing => base'.event_running_priority = -1,
           base'.is_notify_pending = TRUE /\ base'.th_notify_fd = 0 => loop'.pc = "drained"
    PROVE  WakeInv'
BY DEF WakeInv, Wakeable, Alert, State

(* The start of event_base_loop, and its end whatever ends it.             *)
LEMMA WakeStart ==
    ASSUME Inv, WakeInv, NEW f, event_base_loop(f)
    PROVE  WakeInv'
<1>1. /\ loop.pc = "out" /\ loop' = [loop EXCEPT !.pc = "top", !.flags = f]
      /\ base' = [base EXCEPT !.running_loop = TRUE, !.tv_cache = NoTv,
                              !.event_gotterm = FALSE, !.event_break = FALSE]
  BY DEF event_base_loop
<1>2. loop'.pc = "top"
  BY <1>1, WakeFacts DEF LoopType
<1>3. /\ base'.running_loop = TRUE /\ base'.tv_cache = NoTv
      /\ base'.event_running_priority = base.event_running_priority
      /\ base'.is_notify_pending = base.is_notify_pending
      /\ base'.th_notify_fd = base.th_notify_fd
  BY <1>1, WakeFacts DEF BaseType
<1> QED
  BY <1>1, <1>2, <1>3, WakeFacts, WakeElsewhere DEF NotProcessing

(* The return of event_base_loop leaves no poll to wake.                   *)
LEMMA WakeLoopReturns ==
    ASSUME Inv, WakeInv, NEW b \in BaseType, LoopReturns(b),
           b.event_running_priority = -1,
           ~(b.is_notify_pending = TRUE /\ b.th_notify_fd = 0)
    PROVE  WakeInv'
<1>1. loop'.pc = "out"
  BY WakeFacts DEF LoopReturns, LoopType
<1>2. /\ base'.tv_cache = NoTv
      /\ base'.event_running_priority = b.event_running_priority
      /\ base'.is_notify_pending = b.is_notify_pending
      /\ base'.th_notify_fd = b.th_notify_fd
  BY DEF LoopReturns, BaseType
<1> QED
  BY <1>1, <1>2, WakeFacts, WakeElsewhere

(* So does an error of epoll_wait; epoll_wait itself, and the steps of     *)
(* epoll_dispatch after it, leave the poll.                                *)
LEMMA WakePoll ==
    ASSUME Inv, WakeInv,
           epoll_wait \/ DispatchFails \/ DispatchLocks \/ DispatchReturns
    PROVE  WakeInv'
<1>1. CASE epoll_wait
  <2>1. loop.pc = "poll" /\ UNCHANGED base
    BY <1>1 DEF epoll_wait
  <2>2. PICK r : loop' = [loop EXCEPT !.pc = "pollret", !.reported = r, !.tv = NoTv]
    BY <1>1 DEF epoll_wait
  <2>3. loop'.pc = "pollret"
    BY <2>2, WakeFacts DEF LoopType
  <2> QED
    BY <2>1, <2>3, WakeFacts, WakeElsewhere DEF NotProcessing
<1>2. CASE DispatchFails
  <2>1. loop.pc = "poll" /\ LoopReturns(base)
    BY <1>2 DEF DispatchFails
  <2>2. base.event_running_priority = -1
    BY <2>1, WakeFacts DEF NotProcessing
  <2> QED
    BY <2>1, <2>2, WakeFacts, WakeLoopReturns
<1>3. CASE DispatchLocks
  <2>1. /\ loop.pc = "pollret" /\ UNCHANGED base
        /\ loop' = [loop EXCEPT !.pc = "report"]
    BY <1>3 DEF DispatchLocks
  <2>2. loop'.pc = "report"
    BY <2>1, WakeFacts DEF LoopType
  <2> QED
    BY <2>1, <2>2, WakeFacts, WakeElsewhere DEF NotProcessing
<1>4. CASE DispatchReturns
  <2>1. /\ loop.pc = "report" /\ base' = [base EXCEPT !.tv_cache = 0]
        /\ loop' = [loop EXCEPT !.pc = "timeouts"]
    BY <1>4 DEF DispatchReturns, update_time_cache
  <2>2. loop'.pc = "timeouts"
    BY <2>1, WakeFacts DEF LoopType
  <2>3. /\ base'.tv_cache = 0 /\ base'.running_loop = base.running_loop
        /\ base'.event_running_priority = base.event_running_priority
        /\ base'.is_notify_pending = base.is_notify_pending
        /\ base'.th_notify_fd = base.th_notify_fd
    BY <2>1, WakeFacts DEF BaseType
  <2>4. base'.tv_cache <= MaxAge
    BY <2>3, WakeFacts, SMT
  <2> QED
    BY <2>1, <2>2, <2>3, <2>4, WakeFacts, WakeElsewhere DEF NotProcessing
<1> QED
  BY <1>1, <1>2, <1>3, <1>4

(* The time that timeout_next computes is not past any timer by more than  *)
(* the age of the cached time.                                             *)
LEMMA TimeoutNext ==
    ASSUME Inv, WakeInv, NEW tv \in timeout_next(State)
    PROVE  /\ tv = NoTv => Timers(State) = {}
           /\ \A e \in Timers(State) :
                 tv <= (IF ev[e].timeout > 0 THEN ev[e].timeout ELSE 0) + MaxAge
<1>1. CASE Timers(State) = {}
  BY <1>1
<1>2. CASE Timers(State) # {}
  <2>1. PICK f \in min_heap_tops(State) :
           tv = IF State.ev[f].timeout <= gettime(State) THEN 0
                ELSE State.ev[f].timeout - gettime(State)
    BY <1>2 DEF timeout_next
  <2>2. f \in Timers(State) /\ \A e \in Timers(State) : ev[f].timeout <= ev[e].timeout
    BY CallTypes DEF min_heap_tops
  <2>3. Timers(State) \subseteq Callbacks
    BY CallTypes, EventBaseAssumption DEF Timers, LoopEvents
  <2>4. \A e \in Timers(State) : ev[e].timeout \in Int
    BY <2>3, StateTypes DEF EventType
  <2>5. PICK now \in Int : now = gettime(State) /\ -now <= MaxAge /\ now <= 0
    <3>1. base.tv_cache \in Nat \cup {NoTv} /\ base.tv_cache <= MaxAge
      BY WakeFacts DEF BaseType
    <3>2. gettime(State) = IF base.tv_cache = NoTv THEN 0 ELSE -base.tv_cache
      BY CallTypes DEF gettime
    <3> QED
      BY <3>1, <3>2, WakeFacts, SMT DEF NoTv
  <2>6. tv = IF ev[f].timeout <= now THEN 0 ELSE ev[f].timeout - now
    BY <2>1, <2>5, CallTypes
  <2>7. tv # NoTv
    BY <2>2, <2>4, <2>5, <2>6, SMTT(20) DEF NoTv
  <2>8. ASSUME NEW e \in Timers(State)
        PROVE  tv <= (IF ev[e].timeout > 0 THEN ev[e].timeout ELSE 0) + MaxAge
    <3>1. ev[f].timeout <= ev[e].timeout /\ ev[f].timeout \in Int /\ ev[e].timeout \in Int
      BY <2>2, <2>4, <2>8
    <3> QED
      BY <2>5, <2>6, <3>1, WakeFacts, SMT
  <2> QED
    BY <2>7, <2>8
<1> QED
  BY <1>1, <1>2

(* At its top the loop returns, or asks for a poll that ends in time.      *)
LEMMA WakeLoopTop ==
    ASSUME Inv, WakeInv, LoopTop
    PROVE  WakeInv'
<1>1. PICK b : b = [base EXCEPT !.event_continue = FALSE, !.n_deferreds_queued = 0]
  OBVIOUS
<1>2. /\ b \in BaseType /\ b.event_continue = FALSE /\ b.event_break = base.event_break
      /\ b.tv_cache = base.tv_cache /\ b.running_loop = base.running_loop
      /\ b.event_running_priority = base.event_running_priority
      /\ b.is_notify_pending = base.is_notify_pending
      /\ b.th_notify_fd = base.th_notify_fd
      /\ b.virtual_event_count = base.virtual_event_count
  BY <1>1, WakeFacts DEF BaseType
<1>3. loop.pc = "top" /\ UNCHANGED <<q, ev>>
  BY DEF LoopTop
<1>4. /\ b.tv_cache <= MaxAge /\ b.running_loop = TRUE
      /\ b.event_running_priority = -1
      /\ ~(b.is_notify_pending = TRUE /\ b.th_notify_fd = 0)
  BY <1>2, <1>3, WakeFacts DEF NotProcessing
<1>5. CASE LoopReturns(b)
  BY <1>2, <1>4, <1>5, WakeLoopReturns
<1>6. CASE ~(base.event_gotterm \/ base.event_break \/ NoEventsLeft)
  <2>1. base' = b /\ base.event_break = FALSE /\ ~NoEventsLeft
    BY <1>1, <1>6, WakeFacts DEF LoopTop, BaseType
  <2>2. PICK tv : /\ loop' = [loop EXCEPT !.pc = "later", !.tv = tv]
                  /\ tv # 0 => N_ACTIVE_CALLBACKS(q) = 0 /\ tv \in timeout_next(State)
    BY <1>6 DEF LoopTop
  <2>3. loop'.pc = "later" /\ loop'.tv = tv /\ loop'.flags = loop.flags
    BY <2>2, WakeFacts DEF LoopType
  <2>4. /\ State'.q = q /\ State'.ev = ev /\ State'.base = b
        /\ State.q = q /\ State.ev = ev /\ State.base = base
    BY <1>3, <2>1 DEF State
  <2>5. Timers(State)' = Timers(State) /\ event_haveevents(State)' = event_haveevents(State)
    BY <1>2, <2>4 DEF Timers, event_haveevents
  <2>6. ASSUME tv # 0
        PROVE  Rests(State)'
    <3>1. N_ACTIVE_CALLBACKS(q) = 0 /\ tv \in timeout_next(State)
      BY <2>2, <2>6
    <3>2. /\ tv = NoTv => Timers(State) = {}
          /\ \A e \in Timers(State) :
                tv <= (IF ev[e].timeout > 0 THEN ev[e].timeout ELSE 0) + MaxAge
      BY <3>1, TimeoutNext
    <3>3. "NO_EXIT_ON_EMPTY" \in loop.flags \/ event_haveevents(State)
      BY <2>1, <3>1 DEF NoEventsLeft
    <3> QED
      BY <1>2, <2>1, <2>3, <2>4, <2>5, <3>1, <3>2, <3>3 DEF Rests, N_ACTIVE_CALLBACKS
  <2>7. Alert(State)'
    BY <1>4, <2>3, <2>4 DEF Alert
  <2> QED
    BY <2>3, <2>6, <2>7 DEF WakeInv, Wakeable
<1> QED
  BY <1>1, <1>5, <1>6 DEF LoopTop

(* A callback that waits for its turn keeps the loop from asking for a     *)
(* poll that blocks.                                                       *)
LEMMA WakeMakeLater ==
    ASSUME Inv, WakeInv, event_queue_make_later_events_active
    PROVE  WakeInv'
<1>1. loop.pc = "later" /\ q.active_later_queue # <<>> /\ UNCHANGED <<loop, ev>>
  BY DEF event_queue_make_later_events_active
<1>2. PICK s \in Seq(Callbacks) : s = q.active_later_queue
  BY StateTypes DEF BookkeepingType
<1>3. 1 \in 1..Len(s) /\ s[1] \in Callbacks
  BY <1>1, <1>2, SMT
<1>4. s[1] \in Elems(s)
  BY <1>3 DEF Elems
<1>5. "ACTIVE_LATER" \in q.flags[s[1]]
  BY <1>2, <1>4, StateTypes DEF QueuesOK, QueuesMatchFlags
<1>6. ~Rests(State)
  <2>1. State.q = q /\ Sound(State)
    BY CallTypes
  <2> QED
    BY <1>3, <1>5, <2>1, NoneActive DEF Rests
<1>7. loop.tv = 0
  BY <1>1, <1>6 DEF WakeInv
<1>8. PICK n : base' = [base EXCEPT !.n_deferreds_queued = n]
  BY DEF event_queue_make_later_events_active
<1>9. /\ base'.tv_cache = base.tv_cache /\ base'.running_loop = base.running_loop
      /\ base'.event_running_priority = base.event_running_priority
      /\ base'.is_notify_pending = base.is_notify_pending
      /\ base'.th_notify_fd = base.th_notify_fd
  BY <1>8, WakeFacts DEF BaseType
<1>10. Alert(State)'
  BY <1>1, <1>9, WakeFacts DEF Alert, State
<1> QED
  BY <1>1, <1>7, <1>10 DEF WakeInv, Wakeable

(* The poll starts with nothing to do before its timeout.                  *)
LEMMA WakeStartPoll ==
    ASSUME Inv, WakeInv, StartPoll
    PROVE  WakeInv'
<1>1. /\ loop.pc = "later" /\ base' = [base EXCEPT !.tv_cache = NoTv]
      /\ loop' = [loop EXCEPT !.pc = "poll"] /\ UNCHANGED <<q, ev>>
  BY DEF StartPoll
<1>2. loop'.pc = "poll" /\ loop'.tv = loop.tv /\ loop'.flags = loop.flags
  BY <1>1, WakeFacts DEF LoopType
<1>3. /\ base'.tv_cache = NoTv /\ base'.running_loop = base.running_loop
      /\ base'.event_running_priority = base.event_running_priority
      /\ base'.is_notify_pending = base.is_notify_pending
      /\ base'.th_notify_fd = base.th_notify_fd /\ base'.event_break = base.event_break
      /\ base'.event_continue = base.event_continue
      /\ base'.virtual_event_count = base.virtual_event_count
  BY <1>1, WakeFacts DEF BaseType
<1>4. /\ State'.q = q /\ State'.ev = ev /\ State'.base = base'
      /\ State.q = q /\ State.ev = ev /\ State.base = base
  BY <1>1 DEF State
<1>5. Timers(State)' = Timers(State) /\ event_haveevents(State)' = event_haveevents(State)
  BY <1>3, <1>4 DEF Timers, event_haveevents
<1>6. Rests(State) => Rests(State)'
  BY <1>2, <1>3, <1>4, <1>5 DEF Rests, N_ACTIVE_CALLBACKS
<1>7. /\ base'.tv_cache <= MaxAge /\ base'.running_loop = TRUE
      /\ base'.event_running_priority = -1
      /\ ~(base'.is_notify_pending = TRUE /\ base'.th_notify_fd = 0)
  BY <1>1, <1>3, WakeFacts DEF NotProcessing
<1>8. Alert(State)'
  BY <1>2, <1>4, <1>7 DEF Alert
<1> QED
  BY <1>1, <1>2, <1>6, <1>8 DEF WakeInv, Wakeable

(* What the loop activates between its poll and the callbacks needs no     *)
(* wakeup.                                                                 *)
LEMMA WakeActivates ==
    ASSUME Inv, WakeInv,
           \/ \E e \in FdEvents : evmap_io_active_(e)
           \/ \E e \in LoopEvents : timeout_process(e)
    PROVE  WakeInv'
<1>1. FdEvents \subseteq Callbacks /\ LoopEvents \subseteq Callbacks
  BY EventBaseAssumption DEF FdEvents, LoopEvents
<1>2. Sound(State) /\ Wakeable(State)
  BY CallTypes DEF WakeInv
<1>3. ASSUME NEW r, Becomes(r), Wakeable(r), loop'.pc = loop.pc,
             loop.pc \in {"report", "timeouts"}
      PROVE  WakeInv'
  <2>1. base' = r.base
    BY <1>3 DEF Becomes
  <2>2. /\ base'.tv_cache <= MaxAge /\ base'.running_loop = TRUE
        /\ base'.event_running_priority = -1
        /\ ~(base'.is_notify_pending = TRUE /\ base'.th_notify_fd = 0)
    BY <1>3, <2>1 DEF Wakeable, Alert, NotProcessing
  <2> QED
    BY <1>3, <2>2, WakeElsewhere
<1>4. ASSUME NEW e \in FdEvents, evmap_io_active_(e)
      PROVE  WakeInv'
  <2>1. loop.pc = "report" /\ loop' = [loop EXCEPT !.reported = @ \ {e}]
    BY <1>4 DEF evmap_io_active_
  <2>2. loop'.pc = loop.pc
    BY <2>1, WakeFacts DEF LoopType
  <2>3. Wakeable(event_active_nolock_(State, L, e, {}, 1))
    BY <1>1, <1>2, <2>1, WakeActive, SMT DEF Holder
  <2>4. Becomes(State) \/ Becomes(event_active_nolock_(State, L, e, {}, 1))
    BY <1>4 DEF evmap_io_active_
  <2> QED
    BY <1>2, <1>3, <2>1, <2>2, <2>3, <2>4
<1>5. ASSUME NEW e \in LoopEvents, timeout_process(e)
      PROVE  WakeInv'
  <2>1. loop.pc = "timeouts" /\ loop'.pc = loop.pc
    BY <1>5 DEF timeout_process
  <2> DEFINE d == event_del_nolock_(State, L, e)
  <2>2. Sound(d) /\ Wakeable(d)
    BY <1>1, <1>2, <2>1, OkDel, WakeDel DEF Holder, Ok
  <2>3. Becomes(event_active_nolock_(d, L, e, {"EV_TIMEOUT"}, 1))
    BY <1>5 DEF timeout_process
  <2> HIDE DEF d
  <2>4. Wakeable(event_active_nolock_(d, L, e, {"EV_TIMEOUT"}, 1))
    BY <1>1, <2>1, <2>2, WakeActive, SMT DEF Holder
  <2> QED
    BY <1>3, <2>1, <2>3, <2>4
<1> QED
  BY <1>4, <1>5

(* The end of timeout_process leaves the loop on its way to the callbacks, *)
(* to its top or to its end.                                               *)
LEMMA WakeTimeoutsDone ==
    ASSUME Inv, WakeInv, TimeoutsDone
    PROVE  WakeInv'
<1>1. loop.pc = "timeouts"
  BY DEF TimeoutsDone
<1>2. /\ base.tv_cache <= MaxAge /\ base.running_loop = TRUE
      /\ base.event_running_priority = -1
      /\ ~(base.is_notify_pending = TRUE /\ base.th_notify_fd = 0)
  BY <1>1, WakeFacts DEF NotProcessing
<1>3. CASE LoopReturns(base)
  BY <1>2, <1>3, WakeFacts, WakeLoopReturns
<1>4. CASE /\ loop' = [loop EXCEPT !.pc = "queue", !.i = 0, !.count = 0]
           /\ base' = IF DispatchTimeLimit THEN update_time_cache(base) ELSE base
  <2>1. loop'.pc = "queue"
    BY <1>4, WakeFacts DEF LoopType
  <2>2. base' = base \/ base' = [base EXCEPT !.tv_cache = 0]
    BY <1>4 DEF update_time_cache
  <2>3. /\ base'.tv_cache <= MaxAge /\ base'.running_loop = TRUE
        /\ ~(base'.is_notify_pending = TRUE /\ base'.th_notify_fd = 0)
    BY <1>2, <2>2, WakeFacts, SMT DEF BaseType
  <2> QED
    BY <2>1, <2>3, WakeElsewhere DEF NotProcessing
<1>5. CASE loop' = [loop EXCEPT !.pc = "top"] /\ UNCHANGED base
  <2>1. loop'.pc = "top"
    BY <1>5, WakeFacts DEF LoopType
  <2> QED
    BY <1>2, <1>5, <2>1, WakeElsewhere
<1> QED
  BY <1>3, <1>4, <1>5 DEF TimeoutsDone

(* The end of the service of one queue, and of event_process_active.       *)
LEMMA WakeQueueReturns ==
    ASSUME Inv, NEW b \in BaseType, NEW n,
           SingleQueueReturns(b, n) \/ ProcessActiveReturns(b, n),
           b.tv_cache <= MaxAge, b.running_loop = TRUE,
           ~(b.is_notify_pending = TRUE /\ b.th_notify_fd = 0)
    PROVE  WakeInv'
<1>1. loop \in LoopType /\ MaxAge \in Nat
  BY StateTypes, EventBaseAssumption
<1>2. PICK b1 : b1 = [b EXCEPT !.event_running_priority = -1]
  OBVIOUS
<1>3. /\ b1 \in BaseType /\ b1.event_running_priority = -1
      /\ b1.tv_cache <= MaxAge /\ b1.running_loop = TRUE
      /\ ~(b1.is_notify_pending = TRUE /\ b1.th_notify_fd = 0)
  BY <1>2 DEF BaseType
<1>4. CASE ProcessActiveReturns(b, n)
  <2>1. CASE /\ base' = [b1 EXCEPT !.running_loop = FALSE, !.tv_cache = NoTv]
             /\ loop' = [loop EXCEPT !.pc = "out", !.flags = {}, !.count = 0,
                                     !.i = 0, !.running = NoCb]
    <3>1. loop'.pc = "out"
      BY <1>1, <2>1 DEF LoopType
    <3>2. /\ base'.event_running_priority = -1 /\ base'.tv_cache = NoTv
          /\ ~(base'.is_notify_pending = TRUE /\ base'.th_notify_fd = 0)
      BY <1>3, <2>1 DEF BaseType
    <3>3. base'.tv_cache <= MaxAge
      BY <1>1, <3>2, SMT DEF NoTv
    <3> QED
      BY <3>1, <3>2, <3>3, WakeElsewhere
  <2>2. CASE /\ base' = b1
             /\ loop' = [loop EXCEPT !.pc = "top", !.count = 0, !.i = 0,
                                     !.running = NoCb]
    <3>1. loop'.pc = "top"
      BY <1>1, <2>2 DEF LoopType
    <3> QED
      BY <1>3, <2>2, <3>1, WakeElsewhere
  <2> QED
    BY <1>2, <1>4, <2>1, <2>2 DEF ProcessActiveReturns
<1>5. CASE /\ base' = b
           /\ loop' = [loop EXCEPT !.pc = "queue", !.i = @ + 1, !.count = 0,
                                   !.running = NoCb]
  <2>1. loop'.pc = "queue"
    BY <1>1, <1>5 DEF LoopType
  <2> QED
    BY <1>5, <2>1, WakeElsewhere DEF NotProcessing
<1> QED
  BY <1>4, <1>5 DEF SingleQueueReturns

(* The end of a queue without callbacks.                                   *)
LEMMA WakeQueueEmpty ==
    ASSUME Inv, WakeInv, QueueEmpty
    PROVE  WakeInv'
<1>1. loop.pc = "queue" /\ SingleQueueReturns(base, loop.count)
  BY DEF QueueEmpty
<1>2. /\ base.tv_cache <= MaxAge /\ base.running_loop = TRUE
      /\ ~(base.is_notify_pending = TRUE /\ base.th_notify_fd = 0)
  BY <1>1, WakeFacts
<1> QED
  BY <1>1, <1>2, WakeFacts, WakeQueueReturns

-----------------------------------------------------------------------------
(* What Alert asks of the base while the loop is in event_process_active.  *)
Fit(b) == /\ b.tv_cache <= MaxAge /\ b.running_loop = TRUE
          /\ ~(b.is_notify_pending = TRUE /\ b.th_notify_fd = 0)

(* While the loop serves a queue it is wakeable when its base is fit,      *)
LEMMA FitIsWakeable ==
    ASSUME NEW s, loop.pc = "queue"
    PROVE  Wakeable(s) <=> Fit(s.base)
BY DEF Wakeable, Alert, Fit, NotProcessing

(* and so it is in the middle of a callback.                               *)
LEMMA WakeDuring ==
    ASSUME loop'.pc \notin NotProcessing, Fit(base')
    PROVE  WakeInv'
BY WakeElsewhere DEF NotProcessing, Fit

(* The closure of a persistent event schedules its timeout again.          *)
LEMMA WakePersist ==
    ASSUME NEW s, Sound(s), Wakeable(s), loop.pc = "queue", loop.tv \in Int,
           NEW e \in LoopEvents
    PROVE  Wakeable(event_persist_closure(s, e))
<1> DEFINE now == gettime(s)
           delay == s.ev[e].io_timeout
           from == IF s.ev[e].res # {} THEN s.ev[e].timeout ELSE now
           run_at == IF from + delay < now THEN now + delay ELSE from + delay
<1>1. now \in Int /\ delay \in Int /\ from \in Int
  <2>1. e \in Callbacks
    BY EventBaseAssumption DEF LoopEvents
  <2> QED
    BY <2>1, gettimeType, SoundParts, SMT DEF EventType
<1>2. run_at \in Int
  BY <1>1, SMT
<1>3. event_persist_closure(s, e) = IF delay = 0 THEN s ELSE AddBody(s, L, e, run_at, TRUE)
  BY DEF event_persist_closure
<1> HIDE DEF run_at
<1>4. Wakeable(AddBody(s, L, e, run_at, TRUE))
  BY <1>2, WakeAdd DEF Holder
<1> QED
  BY <1>3, <1>4

(* The start of a closure leaves the base fit, whatever kind it is of.     *)
LEMMA FitClosure ==
    ASSUME NEW s, Sound(s), Fit(s.base), NEW c \in Callbacks, loop.pc = "queue",
           loop.tv \in Int, loop.i \in Priorities
    PROVE  Fit(StartClosure(s, c).base)
<1> DEFINE b1 == [s.base EXCEPT !.current_event = c, !.current_event_waiters = 0,
                                !.event_running_priority = loop.i]
           s1 == [s EXCEPT !.base.current_event = c,
                           !.base.current_event_waiters = 0,
                           !.base.event_running_priority = loop.i]
<1>1. s \in StateType /\ s.base \in BaseType
  BY SoundParts DEF Sound
<1>2. b1 \in BaseType /\ Fit(b1)
  BY <1>1 DEF BaseType, Fit
<1>3. s1 = [s EXCEPT !.base = b1]
  BY <1>1 DEF StateType, BaseType
<1> HIDE DEF b1, s1
<1>4. Sound(s1) /\ s1.base = b1
  BY <1>2, <1>3, WithBase
<1>5. CASE Finalizes(c)
  <2>1. StartClosure(s, c).base = [s1.base EXCEPT !.current_event = NoCb]
    <3>1. StartClosure(s, c) =
             [s1 EXCEPT !.base.current_event = NoCb,
                        !.q.fatal = @ \/ "FINALIZING" \notin s.q.flags[c]]
      BY <1>5 DEF StartClosure, s1
    <3>2. s1 \in StateType
      BY <1>4 DEF Sound
    <3> QED
      BY <3>1, <3>2 DEF StateType
  <2> QED
    BY <1>2, <1>4, <2>1 DEF BaseType, Fit
<1>6. CASE ~Finalizes(c) /\ c \in SigEvents
  <2>1. StartClosure(s, c).base = [s1.base EXCEPT !.closure_ncalls = s.ev[c].ncalls]
    <3>1. StartClosure(s, c) =
             [s1 EXCEPT !.base.closure_ncalls = s.ev[c].ncalls,
                        !.ev[c].pncalls = @ \/ s.ev[c].ncalls # 0]
      BY <1>6 DEF StartClosure, s1
    <3>2. s1 \in StateType
      BY <1>4 DEF Sound
    <3> QED
      BY <3>1, <3>2 DEF StateType
  <2> QED
    BY <1>2, <1>4, <2>1 DEF BaseType, Fit
<1>7. CASE ~Finalizes(c) /\ c \notin SigEvents /\ c \in Persist
  <2>1. StartClosure(s, c) = event_persist_closure(s1, c)
    BY <1>7 DEF StartClosure, s1
  <2>2. c \in LoopEvents
    BY <1>7, EventBaseAssumption DEF LoopEvents
  <2>3. Wakeable(s1)
    BY <1>2, <1>4, FitIsWakeable
  <2>4. Wakeable(event_persist_closure(s1, c))
    BY <1>4, <2>2, <2>3, WakePersist
  <2> QED
    BY <2>1, <2>4, FitIsWakeable
<1>8. CASE ~Finalizes(c) /\ c \notin SigEvents /\ c \notin Persist
  <2>1. StartClosure(s, c) = s1
    BY <1>8 DEF StartClosure, s1
  <2> QED
    BY <1>2, <1>4, <2>1
<1> QED
  BY <1>5, <1>6, <1>7, <1>8

(* The first callback of the queue starts.                                 *)
LEMMA WakeRunCallback ==
    ASSUME Inv, WakeInv, RunCallback
    PROVE  WakeInv'
<1> DEFINE c == Head(q.activequeues[loop.i])
           s1 == Dequeue(State, c)
<1>1. /\ loop.pc = "queue" /\ loop.tv \in Int /\ loop.i \in Priorities
      /\ loop \in LoopType
  BY WakeFacts, SMT DEF RunCallback, LoopType, NoTv
<1>2. c \in Callbacks /\ "ACTIVE" \in q.flags[c]
  BY <1>1, StateTypes, HeadActive DEF RunCallback
<1>3. /\ Becomes(StartClosure(s1, c))
      /\ loop' = [loop EXCEPT !.pc = ClosurePc(c), !.running = c,
                              !.count = IF c \in Internal THEN @ ELSE Counted(@)]
  BY DEF RunCallback
<1>4. Sound(State) /\ State.q = q /\ Wakeable(State) /\ Fit(State.base)
  BY <1>1, CallTypes, FitIsWakeable DEF WakeInv
<1> HIDE DEF c
<1>5. Sound(s1)
  BY <1>2, <1>4, OkDequeue DEF Ok
<1>6. Fit(s1.base)
  <2>1. CASE c \in Events \ Persist /\ "FINALIZING" \notin State.q.flags[c]
    <3>1. s1 = event_del_nolock_(State, L, c) /\ c \in LoopEvents
      BY <2>1 DEF Dequeue, LoopEvents
    <3>2. Wakeable(event_del_nolock_(State, L, c))
      BY <1>1, <1>4, <3>1, WakeDel DEF Holder
    <3> QED
      BY <1>1, <3>1, <3>2, FitIsWakeable
  <2>2. CASE ~(c \in Events \ Persist /\ "FINALIZING" \notin State.q.flags[c])
    <3>1. s1 = [State EXCEPT !.q = event_queue_remove_active(State.q, c)]
      BY <2>2 DEF Dequeue
    <3>2. s1.base = State.base
      BY <3>1 DEF State
    <3> QED
      BY <1>4, <3>2
  <2> QED
    BY <2>1, <2>2
<1> HIDE DEF s1
<1>7. Fit(base')
  <2>1. Fit(StartClosure(s1, c).base)
    BY <1>1, <1>2, <1>5, <1>6, FitClosure
  <2> QED
    BY <1>3, <2>1 DEF Becomes
<1>8. loop'.pc = ClosurePc(c)
  BY <1>1, <1>3 DEF LoopType
<1>9. ClosurePc(c) \notin NotProcessing
  BY DEF ClosurePc, NotProcessing
<1> QED
  BY <1>7, <1>8, <1>9, WakeDuring

(* The steps in the middle of a callback leave the base fit, and the read  *)
(* of the eventfd is followed by the reset of is_notify_pending.           *)
LEMMA WakeClosure ==
    ASSUME Inv, WakeInv,
           \/ SigLoad \/ SigStore \/ SigReturn \/ event_once_cb
           \/ NotifyRead \/ NotifyReset
    PROVE  WakeInv'
<1>1. loop.pc # "drained" /\ loop.pc # "out" => Fit(base)
  BY WakeFacts DEF Fit
<1>2. CASE SigLoad \/ SigReturn
  <2>1. loop.pc \in {"sigload", "cb"} /\ UNCHANGED base
    BY <1>2 DEF SigLoad, SigReturn
  <2>2. loop'.pc \in {"cbret", "sigstore", "sigload"}
    BY <1>2, WakeFacts DEF SigLoad, SigReturn, LoopType
  <2> QED
    BY <1>1, <2>1, <2>2, WakeDuring DEF NotProcessing
<1>3. CASE SigStore
  <2>1. loop.pc = "sigstore" /\ loop' = [loop EXCEPT !.pc = "cb", !.reg = 0]
    BY <1>3 DEF SigStore
  <2>2. PICK n : base' = [base EXCEPT !.closure_ncalls = n]
    BY <1>3 DEF SigStore
  <2>3. loop'.pc = "cb"
    BY <2>1, WakeFacts DEF LoopType
  <2>4. Fit(base')
    BY <1>1, <2>1, <2>2, WakeFacts DEF BaseType, Fit
  <2> QED
    BY <2>3, <2>4, WakeDuring DEF NotProcessing
<1>4. CASE event_once_cb
  <2>1. loop.pc = "cb" /\ loop' = [loop EXCEPT !.pc = "cbret"]
    BY <1>4 DEF event_once_cb
  <2>2. PICK o, g : base' = [base EXCEPT !.once_events = o, !.event_gotterm = g]
    BY <1>4 DEF event_once_cb
  <2>3. loop'.pc = "cbret"
    BY <2>1, WakeFacts DEF LoopType
  <2>4. Fit(base')
    BY <1>1, <2>1, <2>2, WakeFacts DEF BaseType, Fit
  <2> QED
    BY <2>3, <2>4, WakeDuring DEF NotProcessing
<1>5. CASE NotifyRead
  <2>1. /\ loop.pc = "drain" /\ loop' = [loop EXCEPT !.pc = "drained"]
        /\ base' = [base EXCEPT !.th_notify_fd = 0]
    BY <1>5 DEF NotifyRead
  <2>2. loop'.pc = "drained"
    BY <2>1, WakeFacts DEF LoopType
  <2>3. base'.tv_cache <= MaxAge /\ base'.running_loop = TRUE
    BY <2>1, WakeFacts DEF BaseType
  <2> QED
    BY <2>2, <2>3, WakeElsewhere DEF NotProcessing
<1>6. CASE NotifyReset
  <2>1. /\ loop.pc = "drained" /\ loop' = [loop EXCEPT !.pc = "cbret"]
        /\ base' = [base EXCEPT !.is_notify_pending = FALSE]
    BY <1>6 DEF NotifyReset
  <2>2. loop'.pc = "cbret"
    BY <2>1, WakeFacts DEF LoopType
  <2>3. Fit(base')
    BY <2>1, WakeFacts DEF BaseType, Fit
  <2> QED
    BY <2>2, <2>3, WakeDuring DEF NotProcessing
<1> QED
  BY <1>2, <1>3, <1>4, <1>5, <1>6

(* The callback returns to the service of its queue.                       *)
LEMMA WakeCallbackDone ==
    ASSUME Inv, WakeInv, CallbackDone
    PROVE  WakeInv'
<1> DEFINE b == [base EXCEPT !.current_event = NoCb, !.current_event_waiters = 0]
           b1 == update_time_cache(b)
<1>1. Fit(base)
  BY WakeFacts DEF CallbackDone, Fit
<1>2. b \in BaseType /\ Fit(b)
  BY <1>1, WakeFacts DEF BaseType, Fit
<1>3. b1 \in BaseType /\ Fit(b1)
  <2> HIDE DEF b
  <2> QED
    BY <1>2, WakeFacts, SMT DEF BaseType, Fit, update_time_cache
<1>4. \/ \E n : \E x \in {b, b1} : SingleQueueReturns(x, n) \/ ProcessActiveReturns(x, n)
      \/ /\ base' \in {b, b1}
         /\ loop' = [loop EXCEPT !.pc = "queue", !.running = NoCb]
  BY DEF CallbackDone
<1> HIDE DEF b, b1
<1>5. ASSUME NEW n, NEW x \in {b, b1}, SingleQueueReturns(x, n) \/ ProcessActiveReturns(x, n)
      PROVE  WakeInv'
  <2>1. x \in BaseType /\ Fit(x)
    BY <1>2, <1>3
  <2> QED
    BY <1>5, <2>1, WakeQueueReturns DEF Fit
<1>6. CASE /\ base' \in {b, b1}
           /\ loop' = [loop EXCEPT !.pc = "queue", !.running = NoCb]
  <2>1. loop'.pc = "queue"
    BY <1>6, WakeFacts DEF LoopType
  <2>2. Fit(base')
    BY <1>2, <1>3, <1>6
  <2> QED
    BY <2>1, <2>2, WakeDuring DEF NotProcessing
<1> QED
  BY <1>4, <1>5, <1>6

(* Time passes for the poll and for the timers alike.                      *)
LEMMA WakeTick ==
    ASSUME Inv, WakeInv, Tick
    PROVE  WakeInv'
<1>1. /\ loop.pc \in {"out", "poll", "cb"} /\ (loop.pc = "poll" => loop.tv # 0)
      /\ base.tv_cache < MaxAge /\ UNCHANGED q
  BY DEF Tick
<1>2. PICK age : /\ age = IF base.tv_cache = NoTv THEN NoTv ELSE base.tv_cache + 1
                 /\ base' = [base EXCEPT !.tv_cache = age]
  BY DEF Tick
<1>3. /\ base'.tv_cache = age /\ base'.running_loop = base.running_loop
      /\ base'.event_running_priority = base.event_running_priority
      /\ base'.is_notify_pending = base.is_notify_pending
      /\ base'.th_notify_fd = base.th_notify_fd /\ base'.event_break = base.event_break
      /\ base'.event_continue = base.event_continue
      /\ base'.virtual_event_count = base.virtual_event_count
  BY <1>2, WakeFacts DEF BaseType
<1>4. age <= MaxAge
  BY <1>1, <1>2, WakeFacts, SMT DEF BaseType, NoTv
<1>5. PICK tv : /\ tv = IF loop.tv = NoTv THEN NoTv ELSE loop.tv - 1
                /\ loop' = [loop EXCEPT !.tv = tv]
  BY DEF Tick
<1>6. loop'.pc = loop.pc /\ loop'.tv = tv /\ loop'.flags = loop.flags
  BY <1>5, WakeFacts DEF LoopType
<1>7. /\ State'.q = q /\ State'.ev = ev' /\ State'.base = base'
      /\ State.q = q /\ State.ev = ev /\ State.base = base
  BY <1>1 DEF State
<1>8. Timers(State)' = Timers(State) /\ event_haveevents(State)' = event_haveevents(State)
  BY <1>3, <1>7 DEF Timers, event_haveevents
<1>9. ASSUME loop.pc = "poll", Rests(State)
      PROVE  Rests(State)'
  <2>1. loop.tv \in Nat \cup {NoTv} /\ loop.tv # 0
    BY <1>1, <1>9, WakeFacts DEF LoopType
  <2>2. tv = NoTv => loop.tv = NoTv
    BY <1>5, <2>1, SMT DEF NoTv
  <2>3. ASSUME NEW e \in Timers(State)
        PROVE  tv <= (IF ev'[e].timeout > 0 THEN ev'[e].timeout ELSE 0) + MaxAge
    <3>1. e \in Callbacks /\ TimeoutMatters(e)
      BY <1>7, <2>3, EventBaseAssumption DEF Timers, LoopEvents, TimeoutMatters
    <3>2. ev[e] \in EventType /\ ev[e].timeout \in Int
      BY <3>1, StateTypes DEF EventType
    <3>3. ev'[e].timeout = IF ev[e].timeout > MinTimeout THEN ev[e].timeout - 1
                           ELSE ev[e].timeout
      BY <3>1, <3>2 DEF Tick, EventType
    <3>4. MinTimeout \in Int /\ MinTimeout < 0
      BY EventBaseAssumption, SMT DEF MinTimeout
    <3>5. /\ loop.tv <= (IF ev[e].timeout > 0 THEN ev[e].timeout ELSE 0) + MaxAge
          /\ loop.tv # NoTv
      BY <1>7, <1>9, <2>3 DEF Rests
    <3> QED
      BY <1>5, <2>1, <3>2, <3>3, <3>4, <3>5, WakeFacts, SMTT(20)
  <2> QED
    BY <1>3, <1>6, <1>7, <1>8, <1>9, <2>2, <2>3 DEF Rests, N_ACTIVE_CALLBACKS
<1>10. Alert(State)'
  BY <1>3, <1>4, <1>6, <1>7, WakeFacts DEF Alert
<1>11. Wakeable(State)'
  <2>1. ASSUME loop'.pc = "poll", loop'.tv # 0, base'.th_notify_fd = 0
        PROVE  Rests(State)'
    <3>1. Rests(State)
      BY <1>1, <1>3, <1>6, <1>7, <2>1 DEF WakeInv, Wakeable
    <3> QED
      BY <1>6, <1>9, <2>1, <3>1
  <2> QED
    BY <1>7, <1>10, <2>1 DEF Wakeable
<1> QED
  BY <1>1, <1>6, <1>11 DEF WakeInv

-----------------------------------------------------------------------------
(* The steps of event_base_loop.                                           *)
LEMMA WakeLoopStep ==
    ASSUME Inv, WakeInv, LoopStep
    PROVE  WakeInv'
<1>1. CASE LoopTop \/ event_queue_make_later_events_active \/ StartPoll
  BY <1>1, WakeLoopTop, WakeMakeLater, WakeStartPoll
<1>2. CASE epoll_wait \/ DispatchFails \/ DispatchLocks \/ DispatchReturns
  BY <1>2, WakePoll
<1>3. CASE \/ \E e \in FdEvents : evmap_io_active_(e)
           \/ \E e \in LoopEvents : timeout_process(e)
  BY <1>3, WakeActivates
<1>4. CASE TimeoutsDone \/ QueueEmpty \/ RunCallback \/ CallbackDone
  BY <1>4, WakeTimeoutsDone, WakeQueueEmpty, WakeRunCallback, WakeCallbackDone
<1>5. CASE \/ SigLoad \/ SigStore \/ SigReturn \/ event_once_cb
           \/ NotifyRead \/ NotifyReset
  BY <1>5, WakeClosure
<1> QED
  BY <1>1, <1>2, <1>3, <1>4, <1>5 DEF LoopStep

(* The calls of a careful program.                                         *)
LEMMA WakeCalls ==
    ASSUME CarefulProgram, Inv, LockInv, WakeInv, NEW t \in Threads, Call(t)
    PROVE  WakeInv'
<1>1. CASE \E e \in UserEvents :
              \/ \E tv \in Timeouts \cup {NoTv} : event_add(t, e, tv)
              \/ \E m \in DelModes : event_del(t, e, m)
              \/ \E n \in NCalls : event_active(t, e, n)
  BY <1>1, WakeAddCall, WakeDelCall, WakeActiveCall
<1>2. CASE \E e \in UserEvents :
              \/ event_remove_timer(t, e) \/ event_active_later_(t, e)
              \/ event_finalize(t, e)
  BY <1>2, WakeRemoveTimer, WakeActiveLaterCall, WakeFinalizeCall
<1>3. CASE \/ \E e \in UserEvents : \E p \in Priorities : event_priority_set(t, e, p)
           \/ event_callback_finalize_many_(t)
  BY <1>3, WakeQuiet
<1>4. CASE \E e \in OnceEvents, tv \in Timeouts \cup {NoTv} : event_base_once(t, e, tv)
  BY <1>4, WakeOnce
<1>5. CASE \/ OnceFails(t) \/ event_base_update_cache_time(t)
           \/ event_base_add_virtual_(t) \/ event_base_loopbreak(t)
           \/ event_base_loopcontinue(t) \/ event_base_del_virtual_(t)
  BY <1>5, WakeBaseCall, WakeNotifyCall
<1>6. CASE \E c \in Deferreds : \/ event_deferred_cb_schedule_(t, c)
                                \/ event_deferred_cb_cancel_(t, c)
  BY <1>6, WakeDeferred
<1>7. ASSUME NEW c \in Deferreds, NEW p \in Priorities
      PROVE  ~event_deferred_cb_set_priority_(t, c, p)
  BY DEF CarefulProgram, event_deferred_cb_set_priority_
<1> QED
  BY <1>1, <1>2, <1>3, <1>4, <1>5, <1>6, <1>7 DEF Call

(* Every step of a careful program keeps the loop wakeable.                *)
LEMMA NextWake ==
    ASSUME CarefulProgram, Inv, LockInv, WakeInv, [Next]_vars
    PROVE  WakeInv'
<1>1. CASE UNCHANGED vars
  BY <1>1, WakeUnmoved DEF vars
<1>2. CASE \E f \in LoopFlags : event_base_loop(f)
  BY <1>2, WakeStart
<1>3. ASSUME NEW t \in Threads, CallGoesOn(t)
      PROVE  WakeInv'
  <2>1. ~PriorityStore(t) /\ ~FinalizeAfterWait(t)
    <3>1. CallInv(t)
      BY StateTypes DEF CallsInv
    <3> QED
      BY <3>1 DEF CallInv, PriorityStore, FinalizeAfterWait, Wakes
  <2>2. CASE AddAfterWait(t) \/ DelAfterWait(t) \/ ActiveAfterWait(t)
    BY <2>2, WakeAddAfterWait, WakeDelAfterWait, WakeActiveAfterWait
  <2>3. CASE FinalizeNext(t) \/ FinalizeLast(t)
    BY <2>3, WakeFinalizeNext, WakeFinalizeLast
  <2> QED
    BY <1>3, <2>1, <2>2, <2>3 DEF CallGoesOn
<1>4. CASE \/ \E t \in Threads : SpuriousWakeup(t)
           \/ \E e \in IOEvents : DescriptorChanges(e)
  BY <1>4, WakeQuiet
<1> QED
  BY <1>1, <1>2, <1>3, <1>4, WakeLoopStep, WakeCalls, WakeTick DEF Next

(* event_base_new leaves no notification pending and no loop running.      *)
LEMMA InitWake ==
    ASSUME Init
    PROVE  WakeInv
<1>1. /\ loop.pc = "out" /\ base.tv_cache = NoTv /\ base.event_running_priority = -1
      /\ base.is_notify_pending = FALSE
  BY DEF Init
<1>2. NoTv <= MaxAge
  BY EventBaseAssumption, SMT DEF NoTv
<1> QED
  BY <1>1, <1>2 DEF WakeInv, Wakeable, Alert, State

(* What WakeInv says of the poll.                                          *)
LEMMA WakeIsEnough ==
    ASSUME Inv, WakeInv
    PROVE  NoLostWakeup /\ PollEndsInTime
<1>1. base \in BaseType /\ loop \in LoopType
  BY StateTypes
<1>2. State.q = q /\ State.ev = ev /\ State.base = base
  BY DEF State
<1>3. loop.pc = "poll" /\ loop.tv # 0 /\ base.th_notify_fd = 0 => Rests(State)
  BY <1>2 DEF WakeInv, Wakeable
<1>4. NoLostWakeup
  BY <1>1, <1>2, <1>3 DEF NoLostWakeup, Rests, NoEventsLeft, BaseType, event_haveevents
<1>5. ASSUME loop.pc = "poll", loop.tv # 0, base.th_notify_fd = 0, NEW e \in Timers(State)
      PROVE  /\ loop.tv # NoTv
             /\ loop.tv <= (IF ev[e].timeout > 0 THEN ev[e].timeout ELSE 0) + MaxAge
  <2>1. Rests(State)
    BY <1>3, <1>5
  <2> QED
    BY <1>2, <1>5, <2>1 DEF Rests
<1> QED
  BY <1>4, <1>5 DEF PollEndsInTime
=============================================================================
