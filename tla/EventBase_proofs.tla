------------------------ MODULE EventBase_proofs ----------------------------
(***************************************************************************)
(* The bookkeeping of an event base is in order at all times, for any      *)
(* number of events, deferred callbacks, priorities and threads: every     *)
(* step of the loop, of the calls and of the environment preserves IInv.   *)
(* So it does LockInv: a finalization of many callbacks that goes on shuts *)
(* the loop out.                                                           *)
(***************************************************************************)
EXTENDS EventBaseOps_proofs

(* Zenon, unless a step cites another prover. *)
USE Zenon

(* event_finalize and event_callback_finalize_many_ set the mark after the *)
(* closure, in between the closure of c alone is ahead of it.              *)
LEMMA SetFinalizingInOrder ==
    ASSUME NEW s, Sound(s), NEW c \in Callbacks,
           \A x \in Callbacks \ {c} :
               s.ev[x].closure = "finalize" => "FINALIZING" \in s.q.flags[x]
    PROVE  InOrder(SetFinalizing(s, c))
<1>1. s.q.flags \in [Callbacks -> SUBSET Flags] /\ QueuesOK(s.q)
  BY SoundParts
<1>2. PICK qq : qq = [s.q EXCEPT !.flags[c] = @ \cup {"FINALIZING"}]
  OBVIOUS
<1>3. QueuesOK(qq) /\ qq.flags = [s.q.flags EXCEPT ![c] = @ \cup {"FINALIZING"}]
  BY <1>1, <1>2, SetFinalizingFlag
<1>4. PICK r : r = [s EXCEPT !.q = qq]
  OBVIOUS
<1>5. Sound(r) /\ r.q = qq /\ r.ev = s.ev
  BY <1>3, <1>4, WithQueues, SMT
<1>6. r = SetFinalizing(s, c)
  BY <1>2, <1>4 DEF SetFinalizing
<1> QED
  BY <1>1, <1>3, <1>5, <1>6 DEF InOrder, FinalizersMarked

(* Giving a callback its finalizer changes nothing else.                   *)
LEMMA SetClosure ==
    ASSUME NEW s, InOrder(s), NEW c \in Callbacks
    PROVE  LET r == [s EXCEPT !.ev[c].closure = "finalize"]
           IN  /\ Sound(r)
               /\ \A x \in Callbacks \ {c} :
                     r.ev[x].closure = "finalize" => "FINALIZING" \in r.q.flags[x]
<1>1. s.ev \in [Callbacks -> EventType] /\ Sound(s)
  BY SoundParts DEF InOrder
<1>2. PICK x : x = [s.ev EXCEPT ![c].closure = "finalize"]
  OBVIOUS
<1>3. x \in [Callbacks -> EventType] /\ \A y \in Callbacks \ {c} : x[y] = s.ev[y]
  BY <1>1, <1>2, SMT DEF EventType
<1>4. PICK r : r = [s EXCEPT !.ev = x]
  OBVIOUS
<1>5. Sound(r) /\ r.q = s.q /\ r.ev = x
  BY <1>1, <1>3, <1>4, WithEvents
<1>6. r = [s EXCEPT !.ev[c].closure = "finalize"]
  BY <1>2, <1>4
<1> QED
  BY <1>3, <1>5, <1>6 DEF InOrder, FinalizersMarked

(* event_finalize_nolock_ keeps a state in order.                          *)
LEMMA FinalizeInOrder ==
    ASSUME NEW s, InOrder(s), NEW t, NEW e \in Callbacks
    PROVE  InOrder(event_finalize_nolock_(s, t, e))
<1> DEFINE s1 == event_del_nolock_(s, t, e)
           s2 == [s1 EXCEPT !.ev[e].closure = "finalize"]
           s3 == event_active_nolock_(s2, t, e, {}, 1)
<1>1. event_finalize_nolock_(s, t, e) = SetFinalizing(s3, e)
  BY DEF event_finalize_nolock_, FinalizeDel
<1>2. InOrder(s1)
  BY OkDel, OkInOrder DEF InOrder
<1> HIDE DEF s1
<1>3. /\ Sound(s2)
      /\ \A x \in Callbacks \ {e} :
            s2.ev[x].closure = "finalize" => "FINALIZING" \in s2.q.flags[x]
  BY <1>2, SetClosure
<1> HIDE DEF s2
<1>4. Ok(s2, s3)
  BY <1>3, OkActive, SMT
<1> HIDE DEF s3
<1>5. /\ Sound(s3)
      /\ \A x \in Callbacks \ {e} :
            s3.ev[x].closure = "finalize" => "FINALIZING" \in s3.q.flags[x]
  BY <1>3, <1>4 DEF Ok, SameFinal
<1> QED
  BY <1>1, <1>5, SetFinalizingInOrder

(* event_callback_finalize_nolock_ keeps a state in order.                 *)
LEMMA CallbackFinalizeInOrder ==
    ASSUME NEW s, InOrder(s), NEW t, NEW c \in Callbacks
    PROVE  InOrder(event_callback_finalize_nolock_(s, t, c))
<1> DEFINE s1 == event_callback_cancel_nolock_(s, t, c)
           s2 == [s1 EXCEPT !.ev[c].closure = "finalize"]
           s3 == event_callback_activate_nolock_(s2, t, c)
<1>1. event_callback_finalize_nolock_(s, t, c) = SetFinalizing(s3, c)
  BY DEF event_callback_finalize_nolock_
<1>2. InOrder(s1)
  BY OkCancel, OkInOrder DEF InOrder
<1> HIDE DEF s1
<1>3. /\ Sound(s2)
      /\ \A x \in Callbacks \ {c} :
            s2.ev[x].closure = "finalize" => "FINALIZING" \in s2.q.flags[x]
  BY <1>2, SetClosure
<1> HIDE DEF s2
<1>4. Ok(s2, s3)
  BY <1>3, OkActivate
<1> HIDE DEF s3
<1>5. /\ Sound(s3)
      /\ \A x \in Callbacks \ {c} :
            s3.ev[x].closure = "finalize" => "FINALIZING" \in s3.q.flags[x]
  BY <1>3, <1>4 DEF Ok, SameFinal
<1> QED
  BY <1>1, <1>5, SetFinalizingInOrder

(* A step to a state in order preserves StateInv.                          *)
LEMMA BecomesInOrder ==
    ASSUME NEW r, InOrder(r), Becomes(r)
    PROVE  StateInv'
<1>1. QueuesOK(q') /\ ev' \in [Callbacks -> EventType] /\ base' \in BaseType
  BY SoundParts DEF InOrder, Becomes
<1> QED
  BY <1>1 DEF StateInv, Becomes, InOrder, FinalizersMarked, Finalizes

(* A step by a sound operation preserves StateInv.                         *)
LEMMA BecomesOk ==
    ASSUME StateInv, NEW r, Ok(State, r), Becomes(r)
    PROVE  StateInv'
<1>1. QueueLaws
  BY SoundParts DEF Ok
<1> QED
  BY <1>1, StateInOrder, OkInOrder, BecomesInOrder

(* A step that only writes fields of the base.                             *)
LEMMA BaseStep ==
    ASSUME StateInv, base' \in BaseType, UNCHANGED <<q, ev>>
    PROVE  StateInv'
BY DEF StateInv, Finalizes

(* The parts of the invariant over variables that do not change.           *)
LEMMA Unmoved ==
    /\ LoopInv /\ UNCHANGED loop => LoopInv'
    /\ CallsInv /\ UNCHANGED thr => CallsInv'
    /\ StateInv /\ UNCHANGED <<q, ev, base>> => StateInv'
BY DEF LoopInv, CallsInv, CallInv, StateInv, Finalizes

(* A thread whose call returns preserves CallsInv.                         *)
LEMMA IdleCallInv ==
    ASSUME NEW t \in Threads, CallsInv, thr' = [thr EXCEPT ![t] = IdleCall]
    PROVE  CallsInv'
<1>1. IdleCall \in CallType /\ IdleCall.st = "idle"
  BY SMT DEF IdleCall, CallType
<1>2. thr' \in [Threads -> CallType]
  BY <1>1 DEF CallsInv
<1>3. ASSUME NEW u \in Threads
      PROVE  CallInv(u)'
  <2>1. CASE u = t
    <3>1. thr'[u] = IdleCall
      BY <2>1 DEF CallsInv
    <3> QED
      BY <3>1, <1>1 DEF CallInv
  <2>2. CASE u # t
    <3>1. thr'[u] = thr[u]
      BY <2>2 DEF CallsInv
    <3> QED
      BY <3>1 DEF CallsInv, CallInv
  <2> QED
    BY <2>1, <2>2
<1> QED
  BY <1>2, <1>3 DEF CallsInv

(* COND_WAIT in event_add, event_del or event_active.                      *)
LEMMA WaitsInv ==
    ASSUME StateInv, CallsInv, NEW s, InOrder(s), NEW t \in Threads,
           NEW op \in {"add", "del", "active"}, NEW e \in Events, NEW arg \in Int,
           op = "add" => arg \in Timeouts \cup {NoTv},
           Waits(s, t, op, e, arg)
    PROVE  StateInv' /\ CallsInv'
<1>1. StateInv'
  <2>1. PICK b : b = [s.base EXCEPT !.current_event_waiters = @ + 1]
    OBVIOUS
  <2>2. b \in BaseType
    BY <2>1, SoundParts, SMT DEF InOrder, BaseType
  <2>3. InOrder([s EXCEPT !.base = b])
    BY <2>2, OkBase, OkInOrder DEF InOrder
  <2> QED
    BY <2>1, <2>3, BecomesInOrder DEF Waits
<1>2. CallsInv'
  <2> DEFINE call == [st |-> "wait", op |-> op, e |-> e, arg |-> arg]
  <2>1. /\ call \in CallType /\ call.st = "wait" /\ call.op = op /\ call.e = e
        /\ call.arg = arg
    BY EventBaseAssumption DEF CallType
  <2>2. thr' = [thr EXCEPT ![t] = call]
    BY DEF Waits
  <2> HIDE DEF call
  <2>3. thr' \in [Threads -> CallType]
    BY <2>1, <2>2 DEF CallsInv
  <2>4. ASSUME NEW u \in Threads
        PROVE  CallInv(u)'
    <3>1. CASE u = t
      <4>1. thr'[u] = call
        BY <2>2, <3>1 DEF CallsInv
      <4> QED
        BY <2>1, <4>1 DEF CallInv
    <3>2. CASE u # t
      <4>1. thr'[u] = thr[u]
        BY <2>2, <3>2 DEF CallsInv
      <4> QED
        BY <4>1 DEF CallsInv, CallInv
    <3> QED
      BY <3>1, <3>2
  <2> QED
    BY <2>3, <2>4 DEF CallsInv
<1> QED
  BY <1>1, <1>2

(* The history keeps its type.                                             *)
LEMMA TouchType ==
    ASSUME hist \in HistType, NEW e
    PROVE  Touch(hist, e) \in HistType
BY DEF Touch, HistType

-----------------------------------------------------------------------------
(* The invariant holds when event_base_new returns.                        *)
LEMMA InitIInv ==
    ASSUME QueueLaws, Init
    PROVE  Inv
<1> DEFINE q0 == [flags |-> [c \in Callbacks |-> {}],
                  pri |-> InitPri,
                  activequeues |-> [p \in Priorities |-> <<>>],
                  active_later_queue |-> <<>>,
                  event_count |-> 0,
                  event_count_active |-> 0,
                  fatal |-> FALSE]
<1>1. q0 \in BookkeepingType
  BY EventBaseAssumption, SMT DEF BookkeepingType
<1>2. QueuesOK(q0)
  <2>1. Elems(<<>>) = {} /\ Injective(<<>>)
    BY SMT DEF Elems, Injective
  <2>2. QueuesMatchFlags(q0)
    BY <2>1 DEF QueuesMatchFlags
  <2>3. ActiveCallbacks(q0) = {} /\ CountedFlags(q0) = {}
    BY DEF ActiveCallbacks, CountedFlags
  <2>4. CountersMatchFlags(q0)
    BY <2>3 DEF QueueLaws, CountersMatchFlags
  <2> QED
    BY <1>1, <2>2, <2>4 DEF QueuesOK
<1>3. q = event_queue_insert_inserted(q0, th_notify) /\ "INSERTED" \notin q0.flags[th_notify]
  BY EventBaseAssumption DEF Init
<1> HIDE DEF q0
<1>4. QueuesOK(q)
  BY <1>2, <1>3, QueueFlagOps, EventBaseAssumption DEF Writes
<1>5. ev \in [Callbacks -> EventType] /\ \A c \in Callbacks : ev[c].closure = "run"
  <2>1. ev = [c \in Callbacks |->
                [res |-> {}, timeout |-> 0, io_timeout |-> 0, ncalls |-> 0,
                 pncalls |-> FALSE, closure |-> "run"]]
    BY DEF Init
  <2> QED
    BY <2>1, SMT DEF EventType
<1>6. base \in BaseType
  <2>1. base = [running_loop |-> FALSE, event_gotterm |-> FALSE,
               event_break |-> FALSE, event_continue |-> FALSE,
               current_event |-> NoCb, current_event_waiters |-> 0,
               event_running_priority |-> -1, n_deferreds_queued |-> 0,
               virtual_event_count |-> 0, tv_cache |-> NoTv,
               is_notify_pending |-> FALSE, th_notify_fd |-> 0,
               closure_ncalls |-> 0, once_events |-> {},
               lock_leaked_to |-> NoThread]
    BY DEF Init
  <2> QED
    BY <2>1, SMTT(60) DEF BaseType, NoTv
<1>7. LoopInv
  <2>1. 0 \in Priorities
    BY NPriAssumption, SMT DEF Priorities
  <2>2. loop = [pc |-> "out", flags |-> {}, tv |-> NoTv, i |-> 0, count |-> 0,
               running |-> NoCb, reg |-> 0, reported |-> {}]
    BY DEF Init
  <2>3. NoTv \in Int /\ "out" \in UnlockedPcs
    BY SMT DEF NoTv, UnlockedPcs
  <2> HIDE DEF NoTv
  <2>4. loop \in LoopType
    BY <2>1, <2>2, <2>3, SMT DEF LoopType
  <2>5. loop.tv = NoTv
    BY <2>2
  <2> QED
    BY <2>4, <2>5 DEF LoopInv
<1>8. CallsInv
  <2>1. thr = [t \in Threads |-> IdleCall]
    BY DEF Init
  <2> QED
    BY <2>1, SMTT(60) DEF CallsInv, CallInv, IdleCall, CallType
<1>9. ready \subseteq IOEvents /\ hist \in HistType
  <2>1. /\ ready = {}
        /\ hist = [safe |-> {}, clean |-> {}, timed |-> {}, dead |-> {},
                   group_freed |-> FALSE]
    BY DEF Init
  <2> QED
    BY <2>1, SMTT(60) DEF HistType
<1> QED
  BY <1>4, <1>5, <1>6, <1>7, <1>8, <1>9 DEF Inv, IInv, StateInv, Finalizes

(* The invariant after a step, part by part.                               *)
LEMMA InvParts ==
    ASSUME StateInv', LoopInv', CallsInv', UNCHANGED ready, hist' \in HistType, Inv
    PROVE  Inv'
BY DEF Inv, IInv

-----------------------------------------------------------------------------
(* The steps of the loop.                                                  *)
LEMMA LoopReturnsInv ==
    ASSUME LoopInv, NEW b \in BaseType, LoopReturns(b)
    PROVE  base' \in BaseType /\ LoopInv'
<1>1. base' \in BaseType
  BY DEF LoopReturns, BaseType, NoTv
<1>2. loop' \in LoopType /\ loop'.tv = NoTv
  BY DEF LoopReturns, LoopInv, LoopType, UnlockedPcs
<1> QED
  BY <1>1, <1>2 DEF LoopInv

(* The entry of event_base_loop preserves the invariant.                   *)
LEMMA StartInv ==
    ASSUME Inv, NEW f \in LoopFlags, event_base_loop(f)
    PROVE  Inv'
<1>1. base' \in BaseType
  BY StateTypes DEF event_base_loop, BaseType, NoTv
<1>2. LoopInv'
  BY StateTypes, EventBaseAssumption DEF event_base_loop, LoopInv, LoopType, LockedPcs
<1> QED
  BY <1>1, <1>2, StateTypes, BaseStep, Unmoved DEF Inv, IInv, event_base_loop

(* So does the top of its while statement,                                 *)
LEMMA LoopTopInv ==
    ASSUME Inv, LoopTop
    PROVE  Inv'
<1> DEFINE b == [base EXCEPT !.event_continue = FALSE, !.n_deferreds_queued = 0]
<1>1. b \in BaseType
  BY StateTypes DEF BaseType
<1>2. base' \in BaseType /\ LoopInv'
  <2>1. CASE LoopReturns(b)
    BY <1>1, <2>1, StateTypes, LoopReturnsInv
  <2>2. ASSUME base' = b,
               NEW tv \in IF N_ACTIVE_CALLBACKS(q) = 0 /\ "NONBLOCK" \notin loop.flags
                          THEN timeout_next(State) ELSE {0},
               loop' = [loop EXCEPT !.pc = "later", !.tv = tv]
        PROVE  base' \in BaseType /\ LoopInv'
    <3>1. tv \in Nat \cup {NoTv}
      <4>1. ASSUME NEW x \in timeout_next(State)
            PROVE  x \in Nat \cup {NoTv}
        <5>1. gettime(State) \in Int /\ \A e \in LoopEvents : State.ev[e].timeout \in Int
          BY StateTypes, StateInOrder, gettimeType, EventBaseAssumption, SMT DEF EventType, LoopEvents
        <5>2. CASE Timers(State) = {}
          BY <5>2 DEF timeout_next
        <5>3. CASE Timers(State) # {}
          <6>1. PICK e \in min_heap_tops(State) :
                  x = IF State.ev[e].timeout <= gettime(State) THEN 0
                      ELSE State.ev[e].timeout - gettime(State)
            BY <5>3 DEF timeout_next
          <6>2. e \in LoopEvents
            BY <6>1 DEF min_heap_tops, Timers
          <6> QED
            BY <5>1, <6>1, <6>2, SMT
        <5> QED
          BY <5>2, <5>3
      <4> QED
        BY <2>2, <4>1, SMT
    <3>2. loop' \in LoopType /\ loop'.pc = "later"
      BY <2>2, <3>1, StateTypes DEF LoopType, LockedPcs
    <3> QED
      BY <1>1, <2>2, <3>2 DEF LoopInv
  <2> QED
    BY <2>1, <2>2 DEF LoopTop
<1> QED
  BY <1>2, StateTypes, BaseStep, Unmoved DEF Inv, IInv, LoopTop

(* one turn of event_queue_make_later_events_active,                       *)
LEMMA MakeLaterInv ==
    ASSUME Inv, event_queue_make_later_events_active
    PROVE  Inv'
<1> DEFINE c == Head(q.active_later_queue)
<1>1. /\ QueuesOK(q') /\ c \in Callbacks
      /\ q'.flags = [q.flags EXCEPT ![c] = (@ \ {"ACTIVE_LATER"}) \cup {"ACTIVE"}]
  BY StateTypes, LaterActive DEF event_queue_make_later_events_active
<1>2. base' \in BaseType
  <2>1. PICK n : n = IF c \in Deferreds /\ ev[c].closure = "run"
                     THEN base.n_deferreds_queued + 1 ELSE base.n_deferreds_queued
    OBVIOUS
  <2>2. n \in Nat
    BY <2>1, StateTypes, SMT DEF BaseType
  <2>3. base' = [base EXCEPT !.n_deferreds_queued = n]
    BY <2>1 DEF event_queue_make_later_events_active
  <2> QED
    BY <2>2, <2>3, StateTypes DEF BaseType
<1>3. \A x \in Callbacks : "FINALIZING" \in q.flags[x] => "FINALIZING" \in q'.flags[x]
  BY <1>1, StateTypes
<1>4. StateInv'
  BY <1>1, <1>2, <1>3, StateTypes
     DEF StateInv, Finalizes, event_queue_make_later_events_active
<1> QED
  BY <1>4, StateTypes, Unmoved DEF Inv, IInv, event_queue_make_later_events_active

(* the steps of epoll_dispatch that activate nothing,                      *)
LEMMA PollInv ==
    ASSUME Inv, StartPoll \/ epoll_wait \/ DispatchFails \/ DispatchLocks \/ DispatchReturns
    PROVE  Inv'
<1>1. CASE StartPoll
  <2>1. base' \in BaseType
    BY <1>1, StateTypes DEF StartPoll, BaseType, NoTv
  <2>2. LoopInv'
    BY <1>1, StateTypes DEF StartPoll, LoopInv, LoopType, UnlockedPcs
  <2> QED
    BY <1>1, <2>1, <2>2, StateTypes, BaseStep, Unmoved DEF Inv, IInv, StartPoll
<1>2. CASE epoll_wait
  <2>1. ReadyEvents \subseteq FdEvents
    BY DEF ReadyEvents
  <2>2. LoopInv'
    <3>1. PICK r \in {ReadyEvents} \cup (IF "eintr" \in Faults THEN {{}} ELSE {}) :
            loop' = [loop EXCEPT !.pc = "pollret", !.reported = r, !.tv = NoTv]
      BY <1>2 DEF epoll_wait
    <3>2. r \subseteq FdEvents
      BY <2>1, <3>1
    <3>3. loop' \in LoopType /\ loop'.tv = NoTv
      BY <3>1, <3>2, StateTypes DEF LoopType, UnlockedPcs
    <3> QED
      BY <3>3 DEF LoopInv
  <2> QED
    BY <1>2, <2>2, StateTypes, Unmoved DEF Inv, IInv, epoll_wait
<1>3. CASE DispatchFails
  BY <1>3, StateTypes, LoopReturnsInv, BaseStep, Unmoved DEF Inv, IInv, DispatchFails
<1>4. CASE DispatchLocks
  <2>1. LoopInv'
    BY <1>4, StateTypes DEF DispatchLocks, LoopInv, LoopType, LockedPcs
  <2> QED
    BY <1>4, <2>1, StateTypes, Unmoved DEF Inv, IInv, DispatchLocks
<1>5. CASE DispatchReturns
  <2>1. base' \in BaseType
    BY <1>5, StateTypes DEF DispatchReturns, BaseType, update_time_cache
  <2>2. LoopInv'
    BY <1>5, StateTypes DEF DispatchReturns, LoopInv, LoopType, LockedPcs
  <2> QED
    BY <1>5, <2>1, <2>2, StateTypes, BaseStep, Unmoved DEF Inv, IInv, DispatchReturns
<1> QED
  BY <1>1, <1>2, <1>3, <1>4, <1>5

(* the report of one descriptor,                                           *)
LEMMA IoActiveInv ==
    ASSUME Inv, NEW e \in FdEvents, evmap_io_active_(e)
    PROVE  Inv'
<1>1. e \in Callbacks
  BY EventBaseAssumption DEF FdEvents
<1>2. Ok(State, event_active_nolock_(State, L, e, {}, 1)) /\ Ok(State, State)
  BY <1>1, StateTypes, StateInOrder, OkActive, OkRefl, SMT
<1>3. StateInv'
  BY <1>2, StateTypes, BecomesOk DEF evmap_io_active_
<1>4. LoopInv'
  BY StateTypes DEF evmap_io_active_, LoopInv, LoopType
<1> QED
  BY <1>3, <1>4, StateTypes, Unmoved DEF Inv, IInv, evmap_io_active_

(* one turn of timeout_process,                                            *)
LEMMA TimeoutInv ==
    ASSUME Inv, NEW e \in LoopEvents, timeout_process(e)
    PROVE  Inv'
<1> DEFINE s1 == event_del_nolock_(State, L, e)
<1>1. e \in Callbacks
  BY EventBaseAssumption DEF LoopEvents
<1>2. Ok(State, s1)
  BY <1>1, StateTypes, StateInOrder, OkDel
<1>3. Becomes(event_active_nolock_(s1, L, e, {"EV_TIMEOUT"}, 1))
  BY DEF timeout_process
<1> HIDE DEF s1
<1>4. Ok(State, event_active_nolock_(s1, L, e, {"EV_TIMEOUT"}, 1))
  BY <1>1, <1>2, OkActive, OkTrans, SMT DEF Ok
<1> QED
  BY <1>3, <1>4, StateTypes, BecomesOk, Unmoved DEF Inv, IInv, timeout_process

(* and its end.                                                            *)
LEMMA TimeoutsDoneInv ==
    ASSUME Inv, TimeoutsDone
    PROVE  Inv'
<1>1. update_time_cache(base) \in BaseType /\ base \in BaseType
  BY StateTypes DEF update_time_cache, BaseType
<1>2. base' \in BaseType /\ LoopInv'
  <2>1. CASE N_ACTIVE_CALLBACKS(q) > 0
    <3>1. 0 \in Priorities
      BY NPriAssumption, SMT DEF Priorities
    <3>2. loop' = [loop EXCEPT !.pc = "queue", !.i = 0, !.count = 0] /\ loop.tv = NoTv
      BY <2>1, StateTypes DEF TimeoutsDone, LoopInv
    <3>3. loop' \in LoopType /\ loop'.tv = NoTv
      BY <3>1, <3>2, StateTypes DEF LoopType, LockedPcs
    <3>4. LoopInv'
      BY <3>3 DEF LoopInv
    <3> QED
      BY <1>1, <2>1, <3>4 DEF TimeoutsDone
  <2>2. CASE ~(N_ACTIVE_CALLBACKS(q) > 0) /\ "NONBLOCK" \in loop.flags
    BY <2>2, StateTypes, LoopReturnsInv DEF TimeoutsDone
  <2>3. CASE ~(N_ACTIVE_CALLBACKS(q) > 0) /\ "NONBLOCK" \notin loop.flags
    BY <1>1, <2>3, StateTypes, SMT DEF TimeoutsDone, LoopInv, LoopType, LockedPcs
  <2> QED
    BY <2>1, <2>2, <2>3
<1> QED
  BY <1>2, StateTypes, BaseStep, Unmoved DEF Inv, IInv, TimeoutsDone

(* The return of event_process_active.                                     *)
LEMMA ProcessActiveInv ==
    ASSUME loop \in LoopType, loop.tv = NoTv, NEW b \in BaseType, NEW n,
           ProcessActiveReturns(b, n)
    PROVE  base' \in BaseType /\ LoopInv'
<1>1. 0 \in Priorities
  BY NPriAssumption, SMT DEF Priorities
<1> DEFINE b1 == [b EXCEPT !.event_running_priority = -1]
<1>2. b1 \in BaseType
  BY DEF BaseType
<1>3. CASE /\ base' = [b1 EXCEPT !.running_loop = FALSE, !.tv_cache = NoTv]
           /\ loop' = [loop EXCEPT !.pc = "out", !.flags = {}, !.count = 0,
                                   !.i = 0, !.running = NoCb]
  <2>1. base' \in BaseType
    BY <1>2, <1>3 DEF BaseType, NoTv
  <2>2. loop' \in LoopType /\ loop'.tv = NoTv
    BY <1>1, <1>3 DEF LoopType, UnlockedPcs
  <2> QED
    BY <2>1, <2>2 DEF LoopInv
<1>4. CASE /\ base' = b1
           /\ loop' = [loop EXCEPT !.pc = "top", !.count = 0, !.i = 0,
                                   !.running = NoCb]
  <2>1. loop' \in LoopType /\ loop'.tv = NoTv
    BY <1>1, <1>4 DEF LoopType, LockedPcs
  <2> QED
    BY <1>2, <1>4, <2>1 DEF LoopInv
<1> QED
  BY <1>3, <1>4 DEF ProcessActiveReturns

(* The return of event_process_active_single_queue.                        *)
LEMMA SingleQueueInv ==
    ASSUME loop \in LoopType, loop.tv = NoTv, NEW b \in BaseType, NEW n,
           SingleQueueReturns(b, n)
    PROVE  base' \in BaseType /\ LoopInv'
<1>1. CASE n # 0 \/ loop.i = NPri - 1
  BY <1>1, ProcessActiveInv DEF SingleQueueReturns
<1>2. CASE ~(n # 0 \/ loop.i = NPri - 1)
  <2>1. loop.i + 1 \in Priorities
    BY <1>2, NPriAssumption, SMT DEF Priorities, LoopType
  <2>2. /\ base' = b
        /\ loop' = [loop EXCEPT !.pc = "queue", !.i = @ + 1, !.count = 0,
                                !.running = NoCb]
    BY <1>2 DEF SingleQueueReturns
  <2>3. loop' \in LoopType /\ loop'.tv = NoTv
    BY <2>1, <2>2 DEF LoopType, LockedPcs
  <2> QED
    BY <2>2, <2>3 DEF LoopInv
<1> QED
  BY <1>1, <1>2

(* The end of an active queue preserves the invariant.                     *)
LEMMA QueueEmptyInv ==
    ASSUME Inv, QueueEmpty
    PROVE  Inv'
<1>1. loop \in LoopType /\ loop.tv = NoTv
  BY StateTypes DEF LoopInv, QueueEmpty
<1>2. base' \in BaseType /\ LoopInv'
  BY <1>1, StateTypes, SingleQueueInv DEF QueueEmpty
<1> QED
  BY <1>2, StateTypes, BaseStep, Unmoved DEF Inv, IInv, QueueEmpty

(* The closure starts: an EV_FINALIZE closure finds its mark.              *)
LEMMA StartClosureInOrder ==
    ASSUME NEW s, InOrder(s), NEW c \in Callbacks, loop.i \in Priorities,
           Finalizes(c) => "FINALIZING" \in s.q.flags[c]
    PROVE  InOrder(StartClosure(s, c))
<1> DEFINE b1 == [s.base EXCEPT !.current_event = c, !.current_event_waiters = 0,
                                !.event_running_priority = loop.i]
           s1 == [s EXCEPT !.base.current_event = c,
                           !.base.current_event_waiters = 0,
                           !.base.event_running_priority = loop.i]
<1>1. /\ Sound(s) /\ s \in StateType /\ s.base \in BaseType
      /\ s.ev \in [Callbacks -> EventType] /\ QueuesOK(s.q)
  BY SoundParts DEF InOrder, Sound
<1>2. b1 \in BaseType
  BY <1>1 DEF BaseType
<1>3. s1 = [s EXCEPT !.base = b1]
  BY <1>1 DEF StateType, BaseType
<1> HIDE DEF b1, s1
<1>4. InOrder(s1) /\ s1.q = s.q /\ s1.ev = s.ev /\ s1.base \in BaseType
  BY <1>1, <1>2, <1>3, OkBase, OkInOrder, WithBase
<1>5. CASE Finalizes(c)
  <2> DEFINE r == [s1 EXCEPT !.base.current_event = NoCb,
                             !.q.fatal = @ \/ "FINALIZING" \notin s.q.flags[c]]
             r1 == [s1 EXCEPT !.base = [s1.base EXCEPT !.current_event = NoCb]]
  <2>1. StartClosure(s, c) = r
    BY <1>5 DEF StartClosure, s1
  <2>2. (s1.q.fatal \/ "FINALIZING" \notin s.q.flags[c]) = s1.q.fatal
    BY <1>4, <1>5, <1>1 DEF QueuesOK
  <2>3. r = r1
    <3>1. s1 \in StateType /\ s1.q \in BookkeepingType
      BY <1>4, SoundParts DEF InOrder, Sound
    <3>2. [s1.q EXCEPT !.fatal = @ \/ "FINALIZING" \notin s.q.flags[c]] = s1.q
      BY <2>2, <3>1 DEF BookkeepingType
    <3> QED
      BY <3>1, <3>2 DEF StateType
  <2>4. [s1.base EXCEPT !.current_event = NoCb] \in BaseType
    BY <1>4 DEF BaseType
  <2> QED
    BY <1>4, <2>1, <2>3, <2>4, OkBase, OkInOrder DEF InOrder
<1>6. CASE ~Finalizes(c) /\ c \in SigEvents
  <2> DEFINE r == [s1 EXCEPT !.base.closure_ncalls = s.ev[c].ncalls,
                             !.ev[c].pncalls = @ \/ s.ev[c].ncalls # 0]
             b2 == [s1.base EXCEPT !.closure_ncalls = s.ev[c].ncalls]
             x == [s1.ev EXCEPT ![c].pncalls = @ \/ s.ev[c].ncalls # 0]
             r1 == [s1 EXCEPT !.base = b2]
             r2 == [r1 EXCEPT !.ev = x]
  <2>1. StartClosure(s, c) = r
    BY <1>6 DEF StartClosure, s1
  <2>2. b2 \in BaseType
    BY <1>1, <1>4 DEF BaseType, EventType
  <2>3. x \in [Callbacks -> EventType] /\ \A y \in Callbacks : x[y].closure = s1.ev[y].closure
    <3>1. PICK pn \in BOOLEAN : pn = (s1.ev[c].pncalls \/ s.ev[c].ncalls # 0)
      OBVIOUS
    <3>2. x = [s1.ev EXCEPT ![c].pncalls = pn]
      BY <3>1
    <3> QED
      BY <1>1, <1>4, <3>2, SMT DEF EventType
  <2>4. r = r2
    BY <1>4 DEF InOrder, Sound, StateType
  <2> HIDE DEF b2, x
  <2>5. InOrder(r1) /\ r1.ev = s1.ev
    BY <1>4, <2>2, OkBase, OkInOrder, WithBase DEF InOrder
  <2> HIDE DEF r1
  <2>6. InOrder(r2)
    BY <2>3, <2>5, OkEvents, OkInOrder DEF InOrder
  <2> QED
    BY <2>1, <2>4, <2>6
<1>7. CASE ~Finalizes(c) /\ c \notin SigEvents
  <2>1. StartClosure(s, c) \in {s1, event_persist_closure(s1, c)}
    BY <1>7 DEF StartClosure, s1
  <2> QED
    BY <1>4, <2>1, OkPersist, OkInOrder DEF InOrder
<1> QED
  BY <1>5, <1>6, <1>7

(* Starting a callback preserves the invariant.                            *)
LEMMA RunCallbackInv ==
    ASSUME Inv, RunCallback
    PROVE  Inv'
<1> DEFINE c == Head(q.activequeues[loop.i])
           s1 == Dequeue(State, c)
<1>1. /\ loop \in LoopType /\ loop.tv = NoTv /\ loop.i \in Priorities
      /\ loop.count \in Nat
  BY StateTypes DEF LoopInv, RunCallback, LoopType
<1>2. c \in Callbacks /\ "ACTIVE" \in q.flags[c]
  BY <1>1, StateTypes, HeadActive DEF RunCallback
<1>3. /\ Becomes(StartClosure(s1, c))
      /\ loop' = [loop EXCEPT !.pc = ClosurePc(c), !.running = c,
                              !.count = IF c \in Internal THEN @ ELSE Counted(@)]
      /\ hist' = [hist EXCEPT !.dead = IF Finalizes(c) THEN @ \cup {c} ELSE @,
                              !.timed = IF c \in Persist THEN @ ELSE @ \ {c}]
      /\ UNCHANGED <<ready, thr>>
  BY DEF RunCallback
<1>4. InOrder(State) /\ Sound(State) /\ State.q = q /\ State.ev = ev
  BY StateTypes, StateInOrder
<1> HIDE DEF c
<1>5. Ok(State, s1)
  BY <1>2, <1>4, OkDequeue
<1> HIDE DEF s1
<1>6. Finalizes(c) => "FINALIZING" \in s1.q.flags[c]
  BY <1>2, <1>4, <1>5, StateTypes DEF Ok, SameFinal, StateInv
<1>7. StateInv'
  BY <1>1, <1>2, <1>3, <1>4, <1>5, <1>6, OkInOrder, StartClosureInOrder, BecomesInOrder
<1>8. LoopInv'
  <2>1. PICK n : n = IF c \in Internal THEN loop.count ELSE Counted(loop.count)
    OBVIOUS
  <2>2. n \in Nat
    BY <1>1, <2>1, SMT DEF Counted
  <2>3. ClosurePc(c) \in UnlockedPcs
    BY DEF ClosurePc, UnlockedPcs
  <2>4. loop' = [loop EXCEPT !.pc = ClosurePc(c), !.running = c, !.count = n]
    BY <1>3, <2>1
  <2>5. loop' \in LoopType /\ loop'.tv = NoTv
    BY <1>1, <1>2, <2>2, <2>3, <2>4 DEF LoopType
  <2> QED
    BY <2>5 DEF LoopInv
<1>9. hist' \in HistType
  <2>1. PICK d, m : /\ d = IF Finalizes(c) THEN hist.dead \cup {c} ELSE hist.dead
                    /\ m = IF c \in Persist THEN hist.timed ELSE hist.timed \ {c}
    OBVIOUS
  <2>2. d \subseteq Callbacks /\ m \subseteq Events
    BY <1>2, <2>1, StateTypes DEF HistType
  <2>3. hist' = [hist EXCEPT !.dead = d, !.timed = m]
    BY <1>3, <2>1
  <2> QED
    BY <2>2, <2>3, StateTypes DEF HistType
<1> QED
  BY <1>3, <1>7, <1>8, <1>9, StateTypes, Unmoved DEF Inv, IInv

(* One event changes, or none when r is no callback.                       *)
LEMMA PutEvent ==
    ASSUME NEW x \in [Callbacks -> EventType], NEW r, NEW v,
           r \in Callbacks => v \in EventType /\ v.closure = x[r].closure
    PROVE  LET y == [x EXCEPT ![r] = v]
           IN  /\ y \in [Callbacks -> EventType]
               /\ \A c \in Callbacks : y[c].closure = x[c].closure
<1>1. CASE r \in Callbacks
  BY <1>1
<1>2. CASE r \notin Callbacks
  <2>1. [x EXCEPT ![r] = v] = x
    BY <1>2
  <2> QED
    BY <2>1
<1> QED
  BY <1>1, <1>2

(* A step that writes fields of events other than the closure.             *)
LEMMA EventsStep ==
    ASSUME StateInv, base' \in BaseType, UNCHANGED q,
           ev' \in [Callbacks -> EventType],
           \A c \in Callbacks : ev'[c].closure = ev[c].closure
    PROVE  StateInv'
BY DEF StateInv, Finalizes

(* The steps of event_signal_closure preserve the invariant.               *)
LEMMA SignalInv ==
    ASSUME Inv, SigLoad \/ SigStore \/ SigReturn
    PROVE  Inv'
<1>1. CASE SigLoad
  <2>1. loop' \in LoopType /\ loop'.tv = NoTv
    <3>1. loop.tv = NoTv /\ base.closure_ncalls \in Int
      BY <1>1, StateTypes DEF SigLoad, LoopInv, BaseType
    <3>2. PICK p \in {"cbret", "sigstore"} :
            loop' = [loop EXCEPT !.reg = base.closure_ncalls, !.pc = p]
      BY <1>1 DEF SigLoad
    <3> QED
      BY <3>1, <3>2, StateTypes DEF LoopType, UnlockedPcs
  <2> QED
    BY <1>1, <2>1, StateTypes, Unmoved DEF Inv, IInv, SigLoad, LoopInv
<1>2. CASE SigStore
  <2>0. loop' \in LoopType /\ loop'.tv = NoTv
    <3>1. loop.tv = NoTv /\ loop' = [loop EXCEPT !.pc = "cb", !.reg = 0]
      BY <1>2, StateTypes DEF SigStore, LoopInv
    <3>2. loop \in LoopType /\ "cb" \in UnlockedPcs
      BY StateTypes DEF UnlockedPcs
    <3>3. PICK z \in Int : z = 0
      BY SMT
    <3>4. loop' = [loop EXCEPT !.pc = "cb", !.reg = z]
      BY <3>1, <3>3
    <3>5. loop'.tv = NoTv
      BY <3>1, <3>2, <3>4 DEF LoopType
    <3>6. loop' \in LoopType
      BY <3>2, <3>4 DEF LoopType
    <3> QED
      BY <3>5, <3>6
  <2>1. PICK r \in {loop.reg, base.closure_ncalls} :
          \E n \in IF r > 0 THEN {r - 1} ELSE {-1, 0} :
            /\ base' = [base EXCEPT !.closure_ncalls = n]
            /\ ev' = [ev EXCEPT ![loop.running].ncalls = n,
                                ![loop.running].pncalls = @ /\ n # 0]
    BY <1>2 DEF SigStore
  <2>2. PICK n \in IF r > 0 THEN {r - 1} ELSE {-1, 0} :
            /\ base' = [base EXCEPT !.closure_ncalls = n]
            /\ ev' = [ev EXCEPT ![loop.running].ncalls = n,
                                ![loop.running].pncalls = @ /\ n # 0]
    BY <2>1
  <2>3. r \in Int
    BY <2>1, StateTypes DEF LoopType, BaseType
  <2>4. n \in Int
    BY <2>2, <2>3, SMT
  <2>5. base' \in BaseType
    BY <2>2, <2>4, StateTypes DEF BaseType
  <2>6. ev' \in [Callbacks -> EventType] /\ \A c \in Callbacks : ev'[c].closure = ev[c].closure
    <3>1. PICK pn \in BOOLEAN : pn = (ev[loop.running].pncalls /\ n # 0)
      OBVIOUS
    <3>2. PICK v : v = [ev[loop.running] EXCEPT !.ncalls = n, !.pncalls = pn]
      OBVIOUS
    <3>3. ev' = [ev EXCEPT ![loop.running] = v]
      <4>1. CASE loop.running \in Callbacks
        <5>1. ev[loop.running] \in EventType
          BY <4>1, StateTypes
        <5> QED
          BY <2>2, <3>1, <3>2, <4>1, <5>1, StateTypes DEF EventType
      <4>2. CASE loop.running \notin Callbacks
        <5>1. ev' = ev
          BY <2>2, <4>2, StateTypes
        <5>2. [ev EXCEPT ![loop.running] = v] = ev
          BY <4>2, StateTypes
        <5> QED
          BY <5>1, <5>2
      <4> QED
        BY <4>1, <4>2
    <3>4. loop.running \in Callbacks =>
            v \in EventType /\ v.closure = ev[loop.running].closure
      <4>1. SUFFICES ASSUME loop.running \in Callbacks
                     PROVE  v \in EventType /\ v.closure = ev[loop.running].closure
        OBVIOUS
      <4>2. ev[loop.running] \in EventType
        BY <4>1, StateTypes
      <4> QED
        BY <2>4, <3>1, <3>2, <4>2 DEF EventType
    <3> QED
      BY <3>3, <3>4, StateTypes, PutEvent
  <2>7. StateInv'
    BY <1>2, <2>5, <2>6, StateTypes, EventsStep DEF SigStore
  <2> QED
    BY <1>2, <2>7, <2>0, StateTypes, Unmoved DEF Inv, IInv, SigStore, LoopInv
<1>3. CASE SigReturn
  <2>1. PICK pn \in BOOLEAN :
          pn = (ev[loop.running].pncalls /\ ~(base.event_break /\ base.closure_ncalls # 0))
    OBVIOUS
  <2>2. ev' = [ev EXCEPT ![loop.running].pncalls = pn]
    BY <1>3, <2>1 DEF SigReturn
  <2>3. ev' \in [Callbacks -> EventType] /\ \A c \in Callbacks : ev'[c].closure = ev[c].closure
    <3>1. loop.running \in Callbacks =>
            /\ [ev[loop.running] EXCEPT !.pncalls = pn] \in EventType
            /\ [ev[loop.running] EXCEPT !.pncalls = pn].closure = ev[loop.running].closure
      BY StateTypes, SMT DEF EventType
    <3> QED
      BY <2>2, <3>1, StateTypes, PutEvent
  <2>4. StateInv'
    BY <1>3, <2>3, StateTypes, EventsStep DEF SigReturn
  <2>5. loop' \in LoopType /\ loop'.tv = NoTv
    <3>1. PICK p \in {"cbret", "sigload"} : loop' = [loop EXCEPT !.pc = p]
      BY <1>3 DEF SigReturn
    <3> QED
      BY <1>3, <3>1, StateTypes DEF SigReturn, LoopInv, LoopType, UnlockedPcs
  <2> QED
    BY <1>3, <2>4, <2>5, StateTypes, Unmoved DEF Inv, IInv, SigReturn, LoopInv
<1> QED
  BY <1>1, <1>2, <1>3

(* So do the steps that end a once event or the notification event,        *)
LEMMA ClosureEndInv ==
    ASSUME Inv, event_once_cb \/ NotifyRead \/ NotifyReset
    PROVE  Inv'
<1>1. base' \in BaseType
  <2>1. CASE event_once_cb
    <3>1. PICK g \in BOOLEAN : g = (base.event_gotterm \/ loop.running \in LoopExit)
      OBVIOUS
    <3>2. base' = [base EXCEPT !.once_events = @ \ {loop.running}, !.event_gotterm = g]
      BY <2>1, <3>1 DEF event_once_cb
    <3> QED
      BY <3>2, StateTypes DEF BaseType
  <2>2. CASE NotifyRead
    BY <2>2, StateTypes DEF NotifyRead, BaseType
  <2>3. CASE NotifyReset
    BY <2>3, StateTypes DEF NotifyReset, BaseType
  <2> QED
    BY <2>1, <2>2, <2>3
<1>2. LoopInv'
  <2>1. PICK p \in {"cbret", "drained"} : loop' = [loop EXCEPT !.pc = p]
    BY DEF event_once_cb, NotifyRead, NotifyReset
  <2>2. loop.tv = NoTv
    BY StateTypes DEF event_once_cb, NotifyRead, NotifyReset, LoopInv
  <2> QED
    BY <2>1, <2>2, StateTypes DEF LoopInv, LoopType, UnlockedPcs
<1> QED
  BY <1>1, <1>2, StateTypes, BaseStep, Unmoved
     DEF Inv, IInv, event_once_cb, NotifyRead, NotifyReset

(* and the return of a callback to the loop.                               *)
LEMMA CallbackDoneInv ==
    ASSUME Inv, CallbackDone
    PROVE  Inv'
<1> DEFINE b == [base EXCEPT !.current_event = NoCb, !.current_event_waiters = 0]
           limited == loop.i >= limit_callbacks_after_prio
           b1 == IF limited /\ DispatchTimeLimit /\ loop.count > 0
                 THEN update_time_cache(b) ELSE b
<1>1. loop \in LoopType /\ loop.tv = NoTv
  BY StateTypes DEF CallbackDone, LoopInv
<1>2. b \in BaseType /\ update_time_cache(b) \in BaseType /\ b1 \in BaseType
  <2>1. b \in BaseType
    BY StateTypes DEF BaseType
  <2> HIDE DEF b
  <2>2. update_time_cache(b) \in BaseType
    BY <2>1 DEF BaseType, update_time_cache
  <2> QED
    BY <2>1, <2>2
<1>3. \/ ProcessActiveReturns(b, -1)
      \/ SingleQueueReturns(b, loop.count)
      \/ SingleQueueReturns(update_time_cache(b), loop.count)
      \/ SingleQueueReturns(b1, loop.count)
      \/ base' = b1 /\ loop' = [loop EXCEPT !.pc = "queue", !.running = NoCb]
  BY DEF CallbackDone
<1> HIDE DEF b, b1
<1>4. base' \in BaseType /\ LoopInv'
  <2>1. CASE base' = b1 /\ loop' = [loop EXCEPT !.pc = "queue", !.running = NoCb]
    BY <1>1, <1>2, <2>1 DEF LoopInv, LoopType, LockedPcs
  <2> QED
    BY <1>1, <1>2, <1>3, <2>1, ProcessActiveInv, SingleQueueInv
<1>5. CallsInv'
  <2>1. ASSUME NEW t \in Threads
        PROVE  thr'[t] \in CallType /\ CallInv(t)'
    <3>1. CallInv(t) /\ thr[t] \in CallType
      BY StateTypes DEF CallsInv
    <3>2. CASE thr'[t] = thr[t]
      BY <3>1, <3>2, SMT DEF CallInv
    <3>3. CASE thr[t].st = "wait" /\ thr'[t] = [thr[t] EXCEPT !.st = "woken"]
      <4>1. /\ thr'[t] \in CallType /\ thr'[t].st = "woken" /\ thr'[t].op = thr[t].op
            /\ thr'[t].e = thr[t].e /\ thr'[t].arg = thr[t].arg
        BY <3>1, <3>3 DEF CallType
      <4> QED
        BY <3>1, <3>3, <4>1 DEF CallInv
    <3> QED
      BY <3>2, <3>3 DEF CallbackDone
  <2>2. thr' \in [Threads -> CallType]
    BY <2>1 DEF CallbackDone
  <2> QED
    BY <2>1, <2>2 DEF CallsInv
<1> QED
  BY <1>4, <1>5, StateTypes, BaseStep DEF Inv, IInv, CallbackDone

(* Every step of the loop preserves the invariant.                         *)
LEMMA LoopStepInv ==
    ASSUME Inv, LoopStep
    PROVE  Inv'
BY LoopTopInv, MakeLaterInv, PollInv, IoActiveInv, TimeoutInv, TimeoutsDoneInv,
   QueueEmptyInv, RunCallbackInv, SignalInv, ClosureEndInv, CallbackDoneInv DEF LoopStep

-----------------------------------------------------------------------------
(* Time, descriptors and spurious wakeups.                                 *)
LEMMA EnvironmentInv ==
    ASSUME Inv, \/ Tick \/ \E e \in IOEvents : DescriptorChanges(e)
                \/ \E t \in Threads : SpuriousWakeup(t)
    PROVE  Inv'
<1>1. CASE Tick
  <2>1. base' \in BaseType
    <3>1. PICK a : a = IF base.tv_cache = NoTv THEN base.tv_cache ELSE base.tv_cache + 1
      OBVIOUS
    <3>2. a \in Nat \cup {NoTv}
      BY <3>1, StateTypes, SMT DEF BaseType, NoTv
    <3>3. base' = [base EXCEPT !.tv_cache = a]
      BY <1>1, <3>1 DEF Tick
    <3> QED
      BY <3>2, <3>3, StateTypes DEF BaseType
  <2>2. LoopInv'
    <3>1. PICK a : a = IF loop.tv = NoTv THEN loop.tv ELSE loop.tv - 1
      OBVIOUS
    <3>2. a \in Nat \cup {NoTv} /\ (a # NoTv => loop.pc \in {"later", "poll"})
      <4>1. loop.tv \in Nat \cup {NoTv} /\ (loop.tv # NoTv => loop.pc \in {"later", "poll"})
        BY StateTypes DEF LoopInv, LoopType
      <4>2. loop.pc \in {"out", "poll", "cb"} /\ (loop.pc = "poll" => loop.tv # 0)
        BY <1>1 DEF Tick
      <4> QED
        BY <3>1, <4>1, <4>2, SMT DEF NoTv
    <3>3. loop' = [loop EXCEPT !.tv = a]
      BY <1>1, <3>1 DEF Tick
    <3> QED
      BY <3>2, <3>3, StateTypes DEF LoopInv, LoopType
  <2>3. ev' \in [Callbacks -> EventType] /\ \A c \in Callbacks : ev'[c].closure = ev[c].closure
    <3>1. ASSUME NEW c \in Callbacks
          PROVE  ev'[c] \in EventType /\ ev'[c].closure = ev[c].closure
      <4>1. PICK a : a = IF ~TimeoutMatters(c) THEN 0
                         ELSE IF ev[c].timeout > MinTimeout THEN ev[c].timeout - 1
                         ELSE ev[c].timeout
        OBVIOUS
      <4>2. a \in Int
        BY <4>1, StateTypes, SMT DEF EventType
      <4>3. ev'[c] = [ev[c] EXCEPT !.timeout = a]
        BY <1>1, <4>1 DEF Tick
      <4> QED
        BY <4>2, <4>3, StateTypes, SMT DEF EventType
    <3> QED
      BY <1>1, <3>1 DEF Tick
  <2> QED
    BY <1>1, <2>1, <2>2, <2>3, StateTypes, Unmoved DEF Inv, IInv, StateInv, Finalizes, Tick
<1>2. ASSUME NEW e \in IOEvents, DescriptorChanges(e)
      PROVE  Inv'
  BY <1>2, StateTypes, Unmoved DEF Inv, IInv, DescriptorChanges
<1>3. ASSUME NEW t \in Threads, SpuriousWakeup(t)
      PROVE  Inv'
  <2>1. CallsInv'
    <3>1. ASSUME NEW u \in Threads
          PROVE  thr'[u] \in CallType /\ CallInv(u)'
      <4>1. CallInv(u) /\ thr[u] \in CallType
        BY StateTypes DEF CallsInv
      <4>2. CASE u # t
        <5>1. thr'[u] = thr[u]
          BY <1>3, <4>2, StateTypes DEF SpuriousWakeup
        <5> QED
          BY <4>1, <5>1, SMT DEF CallInv
      <4>3. CASE u = t
        <5>1. thr[u].st = "wait" /\ thr'[u] = [thr[u] EXCEPT !.st = "woken"]
          BY <1>3, <4>3, StateTypes DEF SpuriousWakeup
        <5>2. /\ thr'[u] \in CallType /\ thr'[u].st = "woken" /\ thr'[u].op = thr[u].op
              /\ thr'[u].e = thr[u].e /\ thr'[u].arg = thr[u].arg
          BY <4>1, <5>1 DEF CallType
        <5> QED
          BY <4>1, <5>1, <5>2 DEF CallInv
      <4> QED
        BY <4>2, <4>3
    <3>2. thr' \in [Threads -> CallType]
      <4>1. thr' = [u \in Threads |-> thr'[u]]
        BY <1>3, StateTypes DEF SpuriousWakeup
      <4> QED
        BY <3>1, <4>1
    <3> QED
      BY <3>1, <3>2 DEF CallsInv
  <2> QED
    BY <1>3, <2>1, StateTypes, Unmoved DEF Inv, IInv, SpuriousWakeup
<1> QED
  BY <1>1, <1>2, <1>3

(* event_add preserves the invariant, up to its wait...                    *)
LEMMA AddInv ==
    ASSUME Inv, NEW t \in Threads, NEW e \in UserEvents, NEW tv \in Timeouts \cup {NoTv},
           event_add(t, e, tv)
    PROVE  Inv'
<1>1. e \in Events /\ e \in Callbacks /\ tv \in Int /\ (tv = NoTv \/ tv \in Nat)
  BY CallTypes
<1>2. hist' \in HistType
  <2>1. PICK h \in HistType : h = Touch(hist, e)
    BY StateTypes, TouchType
  <2>2. PICK m : m = IF tv = NoTv THEN h.timed ELSE h.timed \cup {e}
    OBVIOUS
  <2>3. m \subseteq Events
    BY <1>1, <2>1, <2>2 DEF HistType
  <2>4. hist' = [h EXCEPT !.timed = m]
    BY <2>1, <2>2 DEF event_add, HistAdd
  <2> QED
    BY <2>1, <2>3, <2>4 DEF HistType
<1>3. StateInv' /\ CallsInv'
  <2>1. CASE Waits(State, t, "add", e, tv)
    BY <1>1, <2>1, CallTypes, StateTypes, WaitsInv
  <2>2. CASE Becomes(AddBody(State, t, e, tv, FALSE)) /\ UNCHANGED thr
    BY <1>1, <2>2, CallTypes, StateTypes, OkAddBody, BecomesOk, Unmoved
  <2> QED
    BY <2>1, <2>2 DEF event_add
<1> QED
  BY <1>2, <1>3, StateTypes, Unmoved, InvParts DEF event_add

(* ...and after it.                                                        *)
LEMMA AddAfterWaitInv ==
    ASSUME Inv, NEW t \in Threads, AddAfterWait(t)
    PROVE  Inv'
<1> DEFINE e == thr[t].e
           tv == thr[t].arg
<1>1. e \in Callbacks /\ tv \in Int /\ (tv = NoTv \/ tv \in Nat)
  <2>1. CallInv(t) /\ thr[t].st = "woken" /\ thr[t].op = "add"
    BY StateTypes DEF CallsInv, AddAfterWait, Wakes
  <2>2. e \in Events /\ tv \in Timeouts \cup {NoTv}
    BY <2>1 DEF CallInv
  <2> QED
    BY <2>2, CallTypes
<1>2. /\ Becomes(AddBody(State, t, e, tv, FALSE)) /\ hist' = Touch(hist, e)
      /\ thr' = [thr EXCEPT ![t] = IdleCall] /\ UNCHANGED <<loop, ready>>
  BY DEF AddAfterWait, Returns
<1> HIDE DEF e, tv
<1>3. StateInv'
  BY <1>1, <1>2, CallTypes, StateTypes, OkAddBody, BecomesOk
<1> QED
  BY <1>2, <1>3, StateTypes, TouchType, IdleCallInv, Unmoved, InvParts

(* event_remove_timer preserves the invariant.                             *)
LEMMA RemoveTimerInv ==
    ASSUME Inv, NEW t \in Threads, NEW e \in UserEvents, event_remove_timer(t, e)
    PROVE  Inv'
<1>1. e \in Callbacks
  BY CallTypes
<1>2. Keeps(q, q')
  BY <1>1, StateTypes, QueueOps DEF event_remove_timer
<1>3. ev' \in [Callbacks -> EventType] /\ \A c \in Callbacks : ev'[c].closure = ev[c].closure
  <2>1. PICK v \in BOOLEAN, z \in Nat : v = FALSE /\ z = 0
    OBVIOUS
  <2>2. ev[e] \in EventType
    BY <1>1, StateTypes
  <2>3. PICK u, r, w : /\ u = [ev[e] EXCEPT !.ncalls = z]
                       /\ r = [u EXCEPT !.pncalls = v]
                       /\ w = [ev[e] EXCEPT !.io_timeout = z]
    OBVIOUS
  <2>4. r \in EventType /\ r.closure = ev[e].closure
    <3>1. u \in EventType /\ u.closure = ev[e].closure
      BY <2>1, <2>2, <2>3, SMT DEF EventType
    <3> QED
      BY <2>1, <2>3, <3>1 DEF EventType
  <2>5. w \in EventType /\ w.closure = ev[e].closure
    BY <2>1, <2>2, <2>3 DEF EventType
  <2>6. e \in SigEvents => ev' = [ev EXCEPT ![e] = r]
    BY <2>1, <2>3 DEF event_remove_timer
  <2>7. e \notin SigEvents => ev' = [ev EXCEPT ![e] = w]
    BY <2>1, <2>3 DEF event_remove_timer
  <2> QED
    BY <1>1, <2>4, <2>5, <2>6, <2>7, StateTypes
<1>4. StateInv'
  BY <1>2, <1>3, StateTypes DEF StateInv, Finalizes, Keeps, event_remove_timer
<1>5. hist' \in HistType
  BY StateTypes DEF event_remove_timer, HistType
<1> QED
  BY <1>4, <1>5, StateTypes, Unmoved, InvParts DEF event_remove_timer

(* event_del preserves the invariant, up to its wait...                    *)
LEMMA DelInv ==
    ASSUME Inv, NEW t \in Threads, NEW e \in UserEvents, NEW m, event_del(t, e, m)
    PROVE  Inv'
<1> DEFINE s == event_del_nolock_(State, t, e)
<1>1. e \in Events /\ e \in Callbacks
  BY CallTypes
<1>2. Ok(State, s) /\ InOrder(s)
  BY <1>1, CallTypes, OkDel, OkInOrder
<1>3. \/ /\ Waits(s, t, "del", e, 0)
         /\ hist' = [hist EXCEPT !.timed = @ \ {e}, !.clean = @ \cup {t}]
      \/ /\ Becomes(s)
         /\ hist' = [hist EXCEPT !.timed = @ \ {e},
                       !.safe = IF DelPromises(t, e, m) THEN @ \cup {e} ELSE @]
         /\ UNCHANGED thr
  BY DEF event_del
<1> HIDE DEF s
<1>4. CASE /\ Waits(s, t, "del", e, 0)
           /\ hist' = [hist EXCEPT !.timed = @ \ {e}, !.clean = @ \cup {t}]
  <2>1. StateInv' /\ CallsInv'
    BY <1>1, <1>2, <1>4, StateTypes, WaitsInv, SMT
  <2>2. hist' \in HistType
    BY <1>4, StateTypes DEF HistType
  <2> QED
    BY <2>1, <2>2, StateTypes, Unmoved, InvParts DEF event_del
<1>5. CASE /\ Becomes(s)
           /\ hist' = [hist EXCEPT !.timed = @ \ {e},
                         !.safe = IF DelPromises(t, e, m) THEN @ \cup {e} ELSE @]
           /\ UNCHANGED thr
  <2>1. StateInv' /\ CallsInv'
    BY <1>2, <1>5, StateTypes, BecomesInOrder, Unmoved
  <2>2. hist' \in HistType
    <3>1. PICK x : x = IF DelPromises(t, e, m) THEN hist.safe \cup {e} ELSE hist.safe
      OBVIOUS
    <3>2. x \subseteq Events
      BY <1>1, <3>1, StateTypes DEF HistType
    <3>3. hist' = [hist EXCEPT !.timed = @ \ {e}, !.safe = x]
      BY <1>5, <3>1
    <3> QED
      BY <3>2, <3>3, StateTypes DEF HistType
  <2> QED
    BY <2>1, <2>2, StateTypes, Unmoved, InvParts DEF event_del
<1> QED
  BY <1>3, <1>4, <1>5

(* ...and after it.                                                        *)
LEMMA DelAfterWaitInv ==
    ASSUME Inv, NEW t \in Threads, DelAfterWait(t)
    PROVE  Inv'
<1>1. thr[t].e \in Events
  <2>1. CallInv(t) /\ thr[t].st = "woken"
    BY StateTypes DEF CallsInv, DelAfterWait, Wakes
  <2> QED
    BY <2>1 DEF CallInv
<1>2. hist' \in HistType
  <2>1. PICK x : x = IF t \in hist.clean THEN hist.safe \cup {thr[t].e} ELSE hist.safe
    OBVIOUS
  <2>2. x \subseteq Events
    BY <1>1, <2>1, StateTypes DEF HistType
  <2>3. hist' = [hist EXCEPT !.clean = @ \ {t}, !.safe = x]
    BY <2>1 DEF DelAfterWait
  <2> QED
    BY <2>2, <2>3, StateTypes DEF HistType
<1> QED
  BY <1>2, StateTypes, IdleCallInv, Unmoved, InvParts DEF DelAfterWait, Returns

(* event_active preserves the invariant, up to its wait...                 *)
LEMMA ActiveInv ==
    ASSUME Inv, NEW t \in Threads, NEW e \in UserEvents, NEW n \in NCalls,
           event_active(t, e, n)
    PROVE  Inv'
<1>1. e \in Events /\ e \in Callbacks /\ n \in Int
  BY CallTypes, EventBaseAssumption, SMT
<1>2. StateInv' /\ CallsInv'
  <2>1. CASE Waits(ActiveRes(State, e, {}), t, "active", e, n)
    <3>1. InOrder(ActiveRes(State, e, {}))
      BY <1>1, CallTypes, OkActiveRes, OkInOrder
    <3> QED
      BY <1>1, <2>1, <3>1, StateTypes, WaitsInv
  <2>2. CASE Becomes(event_active_nolock_(State, t, e, {}, n)) /\ UNCHANGED thr
    BY <1>1, <2>2, CallTypes, StateTypes, OkActive, BecomesOk, Unmoved
  <2> QED
    BY <2>1, <2>2 DEF event_active
<1> QED
  BY <1>2, StateTypes, TouchType, Unmoved, InvParts DEF event_active

(* ...and after it.                                                        *)
LEMMA ActiveAfterWaitInv ==
    ASSUME Inv, NEW t \in Threads, ActiveAfterWait(t)
    PROVE  Inv'
<1>1. thr[t].e \in Callbacks /\ thr[t].arg \in Int
  <2>1. CallInv(t) /\ thr[t].st = "woken" /\ thr[t] \in CallType
    BY StateTypes DEF CallsInv, ActiveAfterWait, Wakes
  <2> QED
    BY <2>1, CallTypes DEF CallInv, CallType
<1>2. StateInv'
  BY <1>1, CallTypes, StateTypes, OkActiveInsert, BecomesOk DEF ActiveAfterWait
<1> QED
  BY <1>2, StateTypes, TouchType, IdleCallInv, Unmoved, InvParts
     DEF ActiveAfterWait, Returns

(* event_active_later_ preserves the invariant.                            *)
LEMMA ActiveLaterInv ==
    ASSUME Inv, NEW t \in Threads, NEW e \in UserEvents, event_active_later_(t, e)
    PROVE  Inv'
<1> DEFINE was == q.flags[e] \cap {"ACTIVE", "ACTIVE_LATER"} # {}
           s1 == [State EXCEPT !.ev[e].res = IF was THEN @ ELSE {}]
<1>1. e \in Callbacks
  BY CallTypes
<1>2. PICK x : x = [ev EXCEPT ![e].res = IF was THEN @ ELSE {}]
  OBVIOUS
<1>3. x \in [Callbacks -> EventType] /\ \A c \in Callbacks : x[c].closure = ev[c].closure
  BY <1>1, <1>2, StateTypes, SMT DEF EventType
<1>4. s1 = [State EXCEPT !.ev = x]
  BY <1>2, CallTypes
<1>5. Becomes(event_callback_activate_later_nolock_(s1, t, e))
  BY DEF event_active_later_
<1> HIDE DEF s1
<1>6. Ok(State, s1)
  BY <1>3, <1>4, CallTypes, OkEvents
<1>7. Ok(State, event_callback_activate_later_nolock_(s1, t, e))
  BY <1>1, <1>6, OkActivateLater, OkTrans DEF Ok
<1>8. StateInv'
  BY <1>5, <1>7, StateTypes, BecomesOk
<1> QED
  BY <1>8, StateTypes, TouchType, Unmoved, InvParts DEF event_active_later_

(* Without a signal event no event_finalize waits.                         *)
LEMMA FinalizeInv ==
    ASSUME Inv, CarefulProgram, NEW t \in Threads, NEW e \in UserEvents,
           event_finalize(t, e)
    PROVE  Inv'
<1>1. e \in Callbacks
  BY CallTypes
<1>2. Becomes(event_finalize_nolock_(State, t, e)) /\ UNCHANGED thr
  BY DEF CarefulProgram, event_finalize
<1>3. StateInv'
  BY <1>1, <1>2, CallTypes, FinalizeInOrder, BecomesInOrder
<1>4. hist' \in HistType
  <2>1. PICK h \in HistType : h = Touch(hist, e)
    BY StateTypes, TouchType
  <2>2. hist' = [h EXCEPT !.timed = @ \ {e}]
    BY <2>1 DEF event_finalize
  <2> QED
    BY <2>1, <2>2 DEF HistType
<1> QED
  BY <1>2, <1>3, <1>4, StateTypes, Unmoved, InvParts DEF event_finalize

(* event_callback_finalize_many_ preserves the invariant when it starts,   *)
LEMMA FinalizeManyInv ==
    ASSUME Inv, NEW t \in Threads, event_callback_finalize_many_(t)
    PROVE  Inv'
<1> DEFINE call == [st |-> "many", op |-> "finalize_many", e |-> NoCb, arg |-> 0]
<1>1. call \in CallType /\ call.st = "many" /\ call.arg = 0
  BY SMT DEF CallType
<1>2. thr' = [thr EXCEPT ![t] = call]
  BY DEF event_callback_finalize_many_
<1> HIDE DEF call
<1>3. 0 \in 0..Len(Group) /\ Group # <<>>
  BY EventBaseAssumption, SMT DEF event_callback_finalize_many_
<1>4. CallsInv'
  <2>1. thr' \in [Threads -> CallType]
    BY <1>1, <1>2, StateTypes
  <2>2. ASSUME NEW u \in Threads
        PROVE  CallInv(u)'
    <3>1. CASE u = t
      <4>1. thr'[u] = call
        BY <1>2, <3>1, StateTypes
      <4> QED
        BY <1>1, <1>3, <4>1 DEF CallInv
    <3>2. CASE u # t
      <4>1. thr'[u] = thr[u]
        BY <1>2, <3>2, StateTypes
      <4> QED
        BY <4>1, StateTypes DEF CallsInv, CallInv
    <3> QED
      BY <3>1, <3>2
  <2> QED
    BY <2>1, <2>2 DEF CallsInv
<1>5. hist' \in HistType
  <2>1. PICK m \in SUBSET Threads :
          m = {u \in hist.clean : thr[u].e \notin Elems(Group)}
    BY StateTypes DEF HistType
  <2>2. hist' = [hist EXCEPT !.safe = @ \ Elems(Group), !.timed = @ \ Elems(Group),
                             !.group_freed = TRUE, !.clean = m]
    BY <2>1 DEF event_callback_finalize_many_
  <2> QED
    BY <2>2, StateTypes DEF HistType
<1> QED
  BY <1>4, <1>5, StateTypes, Unmoved, InvParts DEF event_callback_finalize_many_

(* for each callback of the group,                                         *)
LEMMA FinalizeNextInv ==
    ASSUME Inv, NEW t \in Threads, FinalizeNext(t)
    PROVE  Inv'
<1> DEFINE c == Group[thr[t].arg + 1]
           running == base.current_event = c
           call == [thr[t] EXCEPT !.arg = @ + 1, !.e = IF running THEN c ELSE @]
<1>1. /\ thr[t] \in CallType /\ thr[t].st = "many" /\ thr[t].arg \in 0..Len(Group)
      /\ thr[t].arg < Len(Group) /\ Group # <<>>
  <2>1. CallInv(t) /\ thr[t] \in CallType /\ thr[t].st = "many" /\ thr[t].arg < Len(Group)
    BY StateTypes DEF CallsInv, FinalizeNext
  <2> QED
    BY <2>1 DEF CallInv
<1>2. c \in Callbacks
  BY <1>1, EventBaseAssumption, SMT
<1>3. StateInv'
  <2>1. Becomes(IF running THEN event_callback_finalize_nolock_(State, t, c)
                ELSE event_callback_cancel_nolock_(State, t, c))
    BY DEF FinalizeNext
  <2> HIDE DEF c
  <2>2. InOrder(event_callback_finalize_nolock_(State, t, c))
    BY <1>2, CallTypes, CallbackFinalizeInOrder
  <2>3. InOrder(event_callback_cancel_nolock_(State, t, c))
    BY <1>2, CallTypes, OkCancel, OkInOrder
  <2> QED
    BY <2>1, <2>2, <2>3, BecomesInOrder
<1>4. CallsInv'
  <2>1. thr' = [thr EXCEPT ![t] = call]
    <3>1. thr' = [thr EXCEPT ![t].arg = @ + 1, ![t].e = IF running THEN c ELSE @]
      BY DEF FinalizeNext
    <3> HIDE DEF c
    <3> QED
      BY <1>1, <3>1, StateTypes DEF CallType
  <2>2. PICK k : k = IF running THEN c ELSE thr[t].e
    OBVIOUS
  <2>3. k \in Callbacks \cup {NoCb}
    BY <1>1, <1>2, <2>2 DEF CallType
  <2>4. PICK n \in Int : n = thr[t].arg + 1
    BY <1>1, SMT DEF CallType
  <2>9. call = [thr[t] EXCEPT !.arg = n, !.e = k]
    BY <2>2, <2>4
  <2> HIDE DEF call
  <2>5. call \in CallType /\ call.st = "many" /\ call.arg = thr[t].arg + 1
    BY <1>1, <2>3, <2>4, <2>9 DEF CallType
  <2>6. call.arg \in 0..Len(Group)
    BY <1>1, <2>5, EventBaseAssumption, SMT
  <2>7. thr' \in [Threads -> CallType]
    BY <2>1, <2>5, StateTypes
  <2>8. ASSUME NEW u \in Threads
        PROVE  CallInv(u)'
    <3>1. CASE u = t
      <4>1. thr'[u] = call
        BY <2>1, <3>1, StateTypes
      <4> QED
        BY <1>1, <2>5, <2>6, <4>1 DEF CallInv
    <3>2. CASE u # t
      <4>1. thr'[u] = thr[u]
        BY <2>1, <3>2, StateTypes
      <4> QED
        BY <4>1, StateTypes DEF CallsInv, CallInv
    <3> QED
      BY <3>1, <3>2
  <2> QED
    BY <2>7, <2>8 DEF CallsInv
<1> QED
  BY <1>3, <1>4, StateTypes, Unmoved, InvParts DEF FinalizeNext

(* and when it returns.                                                    *)
LEMMA FinalizeLastInv ==
    ASSUME Inv, NEW t \in Threads, FinalizeLast(t)
    PROVE  Inv'
<1>1. Group # <<>>
  <2>1. CallInv(t) /\ thr[t].st = "many"
    BY StateTypes DEF CallsInv, FinalizeLast
  <2> QED
    BY <2>1 DEF CallInv
<1>2. Group[1] \in Callbacks
  BY <1>1, EventBaseAssumption, SMT
<1>3. StateInv'
  <2>1. InOrder(event_callback_finalize_nolock_(State, t, Group[1]))
    BY <1>2, CallTypes, CallbackFinalizeInOrder
  <2> QED
    BY <2>1, CallTypes, BecomesInOrder DEF FinalizeLast
<1> QED
  BY <1>3, StateTypes, IdleCallInv, Unmoved, InvParts DEF FinalizeLast, Returns

(* event_base_once preserves the invariant.                                *)
LEMMA OnceInv ==
    ASSUME Inv, NEW t \in Threads, NEW e \in OnceEvents, NEW tv \in Timeouts \cup {NoTv},
           event_base_once(t, e, tv)
    PROVE  Inv'
<1> DEFINE s == IF ActivatesAtOnce(e, tv)
                THEN event_active_nolock_(State, t, e, {"EV_TIMEOUT"}, 1)
                ELSE AddBody(State, t, e, tv, FALSE)
<1>1. e \in Events /\ e \in Callbacks /\ tv \in Int /\ (tv = NoTv \/ tv \in Nat)
  BY CallTypes, EventBaseAssumption
<1>2. Ok(State, s)
  <2>1. {"EV_TIMEOUT"} \in SUBSET {"EV_TIMEOUT"} /\ 1 \in Int
    BY SMT
  <2>2. Ok(State, event_active_nolock_(State, t, e, {"EV_TIMEOUT"}, 1))
    BY <1>1, <2>1, CallTypes, OkActive
  <2>3. Ok(State, AddBody(State, t, e, tv, FALSE))
    BY <1>1, CallTypes, OkAddBody
  <2> QED
    BY <2>2, <2>3
<1>3. Becomes([s EXCEPT !.base.once_events = @ \cup {e}])
  BY DEF event_base_once
<1> HIDE DEF s
<1>4. PICK b : b = [s.base EXCEPT !.once_events = @ \cup {e}]
  OBVIOUS
<1>5. Sound(s) /\ s.base \in BaseType
  BY <1>2, SoundParts DEF Ok
<1>6. b \in BaseType
  BY <1>4, <1>5 DEF BaseType
<1>7. Ok(State, [s EXCEPT !.base = b])
  BY <1>2, <1>5, <1>6, OkBase, OkTrans
<1>8. [s EXCEPT !.base.once_events = @ \cup {e}] = [s EXCEPT !.base = b]
  BY <1>4
<1>9. StateInv'
  BY <1>3, <1>7, <1>8, StateTypes, BecomesOk
<1>10. hist' \in HistType
  <2>1. PICK h \in HistType : h = Touch(hist, e)
    BY <1>1, StateTypes, TouchType
  <2>2. PICK m : m = IF tv = NoTv THEN h.timed ELSE h.timed \cup {e}
    OBVIOUS
  <2>3. m \subseteq Events
    BY <1>1, <2>1, <2>2 DEF HistType
  <2>4. hist' = [h EXCEPT !.timed = m]
    BY <2>1, <2>2 DEF event_base_once, HistAdd
  <2> QED
    BY <2>1, <2>3, <2>4 DEF HistType
<1> QED
  BY <1>9, <1>10, StateTypes, Unmoved, InvParts DEF event_base_once

(* event_priority_set preserves the invariant in a careful program.        *)
LEMMA PriorityInv ==
    ASSUME Inv, CarefulProgram, NEW t \in Threads, NEW e \in UserEvents,
           NEW p \in Priorities, event_priority_set(t, e, p)
    PROVE  Inv'
<1>1. e \in Callbacks /\ "ACTIVE" \notin q.flags[e]
  BY CallTypes DEF event_priority_set
<1>2. q' = [q EXCEPT !.pri[e] = p] /\ UNCHANGED thr
  BY DEF event_priority_set, CarefulProgram
<1>3. QueuesOK(q') /\ q'.flags = q.flags
  BY <1>1, <1>2, StateTypes, SetPriority
<1>4. StateInv'
  BY <1>3, StateTypes DEF event_priority_set, StateInv, Finalizes
<1> QED
  BY <1>2, <1>4, StateTypes, Unmoved, InvParts DEF event_priority_set

(* The calls that change nothing but the base.                             *)
LEMMA BaseCallInv ==
    ASSUME Inv, NEW t \in Threads,
           \/ OnceFails(t) \/ event_base_update_cache_time(t)
           \/ event_base_add_virtual_(t)
    PROVE  Inv'
<1>1. base' \in BaseType
  <2>1. CASE OnceFails(t)
    BY <2>1, StateTypes DEF OnceFails, BaseType
  <2>2. CASE event_base_update_cache_time(t)
    <3>1. PICK z \in Nat : z = 0
      OBVIOUS
    <3>2. base' = [base EXCEPT !.tv_cache = z]
      BY <2>2, <3>1 DEF event_base_update_cache_time, update_time_cache
    <3> QED
      BY <3>2, StateTypes DEF BaseType
  <2>3. CASE event_base_add_virtual_(t)
    <3>1. PICK n \in Nat : n = base.virtual_event_count + 1
      BY StateTypes, SMT DEF BaseType
    <3>2. base' = [base EXCEPT !.virtual_event_count = n]
      BY <2>3, <3>1 DEF event_base_add_virtual_
    <3> QED
      BY <3>2, StateTypes DEF BaseType
  <2> QED
    BY <2>1, <2>2, <2>3
<1>2. UNCHANGED <<q, ev, loop, ready, thr, hist>>
  BY DEF OnceFails, event_base_update_cache_time, event_base_add_virtual_
<1>3. StateInv'
  BY <1>1, <1>2, StateTypes, BaseStep
<1> QED
  BY <1>2, <1>3, StateTypes, Unmoved, InvParts

(* The ones that wake the loop.                                            *)
LEMMA NotifyCallInv ==
    ASSUME Inv, NEW t \in Threads,
           \/ event_base_loopbreak(t) \/ event_base_loopcontinue(t)
           \/ event_base_del_virtual_(t)
    PROVE  Inv'
<1>1. \E b \in BaseType : \/ Becomes(evthread_notify_base([State EXCEPT !.base = b], t))
                          \/ Becomes([State EXCEPT !.base = b])
  <2>1. CASE event_base_loopbreak(t)
    <3>1. PICK b : b = [base EXCEPT !.event_break = TRUE]
      OBVIOUS
    <3>2. b \in BaseType
      BY <3>1, StateTypes DEF BaseType
    <3>3. [State EXCEPT !.base.event_break = TRUE] = [State EXCEPT !.base = b]
      BY <3>1, CallTypes
    <3> QED
      BY <2>1, <3>2, <3>3 DEF event_base_loopbreak
  <2>2. CASE event_base_loopcontinue(t)
    <3>1. PICK b : b = [base EXCEPT !.event_continue = TRUE]
      OBVIOUS
    <3>2. b \in BaseType
      BY <3>1, StateTypes DEF BaseType
    <3>3. [State EXCEPT !.base.event_continue = TRUE] = [State EXCEPT !.base = b]
      BY <3>1, CallTypes
    <3> QED
      BY <2>2, <3>2, <3>3 DEF event_base_loopcontinue
  <2>3. CASE event_base_del_virtual_(t)
    <3>1. PICK n \in Nat : n = base.virtual_event_count - 1
      BY <2>3, StateTypes, SMT DEF BaseType, event_base_del_virtual_
    <3>2. PICK b : b = [base EXCEPT !.virtual_event_count = n]
      OBVIOUS
    <3>3. b \in BaseType
      BY <3>2, StateTypes DEF BaseType
    <3>4. [State EXCEPT !.base.virtual_event_count = @ - 1] = [State EXCEPT !.base = b]
      BY <3>1, <3>2, CallTypes
    <3> QED
      BY <2>3, <3>3, <3>4 DEF event_base_del_virtual_
  <2> QED
    BY <2>1, <2>2, <2>3
<1>2. PICK b \in BaseType : \/ Becomes(evthread_notify_base([State EXCEPT !.base = b], t))
                            \/ Becomes([State EXCEPT !.base = b])
  BY <1>1
<1>3. Ok(State, [State EXCEPT !.base = b])
  BY CallTypes, OkBase
<1>4. Ok(State, evthread_notify_base([State EXCEPT !.base = b], t))
  BY <1>3, OkNotify, OkTrans DEF Ok
<1>5. StateInv'
  BY <1>2, <1>3, <1>4, StateTypes, BecomesOk
<1>6. UNCHANGED <<loop, ready, thr, hist>>
  BY DEF event_base_loopbreak, event_base_loopcontinue, event_base_del_virtual_
<1> QED
  BY <1>5, <1>6, StateTypes, Unmoved, InvParts

(* Scheduling and cancelling a deferred callback preserve the invariant.   *)
LEMMA DeferredInv ==
    ASSUME Inv, NEW t \in Threads, NEW c \in Deferreds,
           event_deferred_cb_schedule_(t, c) \/ event_deferred_cb_cancel_(t, c)
    PROVE  Inv'
<1>1. c \in Callbacks
  BY CallTypes
<1>2. StateInv'
  <2>1. CASE event_deferred_cb_cancel_(t, c)
    BY <1>1, <2>1, CallTypes, StateTypes, OkCancel, BecomesOk
       DEF event_deferred_cb_cancel_
  <2>2. CASE event_deferred_cb_schedule_(t, c)
    <3> DEFINE s == event_callback_activate_nolock_(State, t, c)
               new == q.flags[c] = {}
    <3>1. \/ Becomes(event_callback_activate_later_nolock_(State, t, c))
          \/ Becomes([s EXCEPT !.base.n_deferreds_queued = IF new THEN @ + 1 ELSE @])
      BY <2>2 DEF event_deferred_cb_schedule_
    <3>2. Ok(State, s) /\ Ok(State, event_callback_activate_later_nolock_(State, t, c))
      BY <1>1, CallTypes, OkActivate, OkActivateLater
    <3> HIDE DEF s, new
    <3>3. Sound(s) /\ s.base \in BaseType
      BY <3>2, SoundParts DEF Ok
    <3>4. PICK n : n = IF new THEN s.base.n_deferreds_queued + 1
                       ELSE s.base.n_deferreds_queued
      OBVIOUS
    <3>5. n \in Nat
      <4>1. s.base.n_deferreds_queued \in Nat
        BY <3>3 DEF BaseType
      <4> QED
        BY <3>4, <4>1, SMT
    <3>6. PICK b : b = [s.base EXCEPT !.n_deferreds_queued = n]
      OBVIOUS
    <3>7. b \in BaseType
      BY <3>3, <3>5, <3>6 DEF BaseType
    <3>8. [s EXCEPT !.base.n_deferreds_queued = IF new THEN @ + 1 ELSE @]
            = [s EXCEPT !.base = b]
      BY <3>4, <3>6
    <3>9. Ok(State, [s EXCEPT !.base = b])
      BY <3>2, <3>3, <3>7, OkBase, OkTrans
    <3> QED
      BY <3>1, <3>2, <3>8, <3>9, StateTypes, BecomesOk
  <2> QED
    BY <2>1, <2>2
<1>3. UNCHANGED <<loop, ready, thr, hist>>
  BY DEF event_deferred_cb_schedule_, event_deferred_cb_cancel_
<1> QED
  BY <1>2, <1>3, StateTypes, Unmoved, InvParts

(* The steps of one thread.  A careful program never waits in the middle   *)
(* of event_finalize or of event_priority_set.                             *)
LEMMA CallGoesOnInv ==
    ASSUME Inv, NEW t \in Threads, CallGoesOn(t)
    PROVE  Inv'
<1>1. CallInv(t)
  BY StateTypes DEF CallsInv
<1>2. ~FinalizeAfterWait(t) /\ ~PriorityStore(t)
  BY <1>1 DEF CallInv, FinalizeAfterWait, PriorityStore, Wakes
<1> QED
  BY <1>2, AddAfterWaitInv, DelAfterWaitInv, ActiveAfterWaitInv, FinalizeNextInv,
     FinalizeLastInv DEF CallGoesOn

(* Every call on an event preserves the invariant.                         *)
LEMMA EventCallInv ==
    ASSUME Inv, CarefulProgram, NEW t \in Threads, NEW e \in UserEvents,
           \/ \E tv \in Timeouts \cup {NoTv} : event_add(t, e, tv)
           \/ \E m \in DelModes : event_del(t, e, m)
           \/ \E n \in NCalls : event_active(t, e, n)
           \/ event_remove_timer(t, e) \/ event_active_later_(t, e)
           \/ event_finalize(t, e)
           \/ \E p \in Priorities : event_priority_set(t, e, p)
    PROVE  Inv'
BY AddInv, DelInv, ActiveInv, RemoveTimerInv, ActiveLaterInv, FinalizeInv, PriorityInv

(* Every call preserves the invariant.                                     *)
LEMMA CallInvariant ==
    ASSUME Inv, CarefulProgram, NEW t \in Threads, Call(t)
    PROVE  Inv'
<1>1. CASE \E e \in UserEvents :
             \/ \E tv \in Timeouts \cup {NoTv} : event_add(t, e, tv)
             \/ \E m \in DelModes : event_del(t, e, m)
             \/ \E n \in NCalls : event_active(t, e, n)
             \/ event_remove_timer(t, e) \/ event_active_later_(t, e)
             \/ event_finalize(t, e)
             \/ \E p \in Priorities : event_priority_set(t, e, p)
  BY <1>1, EventCallInv
<1>2. CASE \E e \in OnceEvents, tv \in Timeouts \cup {NoTv} : event_base_once(t, e, tv)
  BY <1>2, OnceInv
<1>3. CASE event_callback_finalize_many_(t)
  BY <1>3, FinalizeManyInv
<1>4. CASE \E c \in Deferreds :
             \/ event_deferred_cb_schedule_(t, c) \/ event_deferred_cb_cancel_(t, c)
             \/ \E p \in Priorities : event_deferred_cb_set_priority_(t, c, p)
  BY <1>4, DeferredInv DEF event_deferred_cb_set_priority_, CarefulProgram
<1>5. CASE \/ OnceFails(t) \/ event_base_update_cache_time(t)
           \/ event_base_add_virtual_(t)
  BY <1>5, BaseCallInv
<1>6. CASE \/ event_base_loopbreak(t) \/ event_base_loopcontinue(t)
           \/ event_base_del_virtual_(t)
  BY <1>6, NotifyCallInv
<1> QED
  BY <1>1, <1>2, <1>3, <1>4, <1>5, <1>6 DEF Call

(* Every step preserves the invariant.                                     *)
LEMMA NextIInv ==
    ASSUME Inv, CarefulProgram, [Next]_vars
    PROVE  Inv'
<1>1. CASE UNCHANGED vars
  BY <1>1, StateTypes, Unmoved, InvParts DEF vars
<1>2. CASE Next
  <2>1. CASE \E f \in LoopFlags : event_base_loop(f)
    BY <2>1, StartInv
  <2>2. CASE LoopStep
    BY <2>2, LoopStepInv
  <2>3. CASE \E t \in Threads : CallGoesOn(t) \/ Call(t)
    BY <2>3, CallGoesOnInv, CallInvariant
  <2>4. CASE \/ \E t \in Threads : SpuriousWakeup(t)
             \/ \E e \in IOEvents : DescriptorChanges(e)
             \/ Tick
    BY <2>4, EnvironmentInv
  <2> QED
    BY <1>2, <2>1, <2>2, <2>3, <2>4 DEF Next
<1> QED
  BY <1>1, <1>2

-----------------------------------------------------------------------------
(* Whoever holds the lock.  A step of one thread that leaves the loop where *)
(* it is preserves LockInv,                                                *)
LEMMA LockCall ==
    ASSUME Inv, LockInv, NEW t \in Threads, NEW call, UNCHANGED loop,
           thr' = [thr EXCEPT ![t] = call],
           thr[t].st # "idle" \/ CanCall(t),
           call.st = "many" => thr[t].st = "many" \/ CanCall(t)
    PROVE  LockInv'
<1>1. thr \in [Threads -> CallType] /\ L \in Threads
  BY StateTypes DEF Threads
<1>2. CanCall(t) /\ t = L => loop.pc \in {"out", "cb"}
  BY DEF CanCall, InProgram
<1>3. thr'[L].st # "idle" => loop'.pc \in {"out", "cb"}
  BY <1>1, <1>2 DEF LockInv
<1>4. ASSUME NEW u \in Threads, thr'[u].st = "many"
      PROVE  loop'.pc \notin LockedPcs /\ \A v \in Threads \ {u} : thr'[v].st # "many"
  <2>1. CASE CanCall(t)
    <3>1. \A v \in Threads \ {t} : thr[v].st # "many" /\ thr'[v] = thr[v]
      BY <1>1, <2>1 DEF CanCall, CanLock
    <3>2. loop.pc \notin LockedPcs
      BY <2>1, <1>2 DEF CanCall, CanLock, LockedPcs
    <3> QED
      BY <1>4, <3>1, <3>2
  <2>2. CASE ~CanCall(t)
    <3>1. \A v \in Threads : thr'[v].st = "many" => thr[v].st = "many"
      BY <1>1, <2>2
    <3> QED
      BY <1>4, <3>1 DEF LockInv
  <2> QED
    BY <2>1, <2>2
<1> QED
  BY <1>3, <1>4 DEF LockInv

(* so does a step of the loop that does not take the lock,                 *)
LEMMA LockLoop ==
    ASSUME Inv, LockInv, UNCHANGED thr,
           loop.pc \in LockedPcs \/ loop'.pc \notin LockedPcs,
           thr[L].st = "idle" \/ loop.pc \notin {"out", "cb"} \/ loop'.pc = loop.pc
    PROVE  LockInv'
BY DEF LockInv, LockedPcs

(* and one that takes it, when no call of the loop thread goes on.         *)
LEMMA LockTaken ==
    ASSUME Inv, LockInv, CanLock(L), thr[L].st = "idle" \/ loop.pc \notin {"out", "cb"},
           \A t \in Threads : /\ thr[t].st = "idle" => thr'[t].st = "idle"
                              /\ thr'[t].st = "many" => thr[t].st = "many"
    PROVE  LockInv'
<1>1. L \in Threads /\ thr[L].st = "idle"
  BY DEF Threads, LockInv
<1>2. \A t \in Threads : thr'[t].st # "many"
  BY <1>1 DEF CanLock
<1>3. thr'[L].st = "idle"
  BY <1>1
<1> QED
  BY <1>2, <1>3 DEF LockInv

(* Every step of the loop preserves LockInv.                               *)
LEMMA LoopStepLock ==
    ASSUME Inv, LockInv, LoopStep \/ \E f \in LoopFlags : event_base_loop(f)
    PROVE  LockInv'
<1>0. loop \in LoopType
  BY StateTypes
<1>1. CASE \/ LoopTop \/ event_queue_make_later_events_active \/ StartPoll
           \/ DispatchReturns \/ TimeoutsDone \/ QueueEmpty \/ RunCallback
           \/ (\E e \in FdEvents : evmap_io_active_(e))
           \/ (\E e \in LoopEvents : timeout_process(e))
  <2>1. loop.pc \in LockedPcs /\ loop.pc \notin {"out", "cb"}
    BY <1>1 DEF LoopTop, event_queue_make_later_events_active, StartPoll, DispatchReturns,
                TimeoutsDone, QueueEmpty, RunCallback, evmap_io_active_, timeout_process, LockedPcs
  <2>2. UNCHANGED thr
    BY <1>1 DEF LoopTop, event_queue_make_later_events_active, StartPoll, DispatchReturns,
                TimeoutsDone, QueueEmpty, RunCallback, evmap_io_active_, timeout_process
  <2> QED
    BY <2>1, <2>2, LockLoop
<1>2. CASE epoll_wait \/ DispatchFails \/ SigLoad \/ SigStore \/ SigReturn
           \/ event_once_cb \/ NotifyRead \/ NotifyReset
  <2>1. loop'.pc \in {"pollret", "out", "cbret", "sigstore", "cb", "sigload", "drained"}
    <3>1. CASE epoll_wait \/ DispatchFails
      BY <1>0, <3>1 DEF epoll_wait, DispatchFails, LoopReturns, LoopType
    <3>2. CASE SigLoad
      BY <1>0, <3>2 DEF SigLoad, LoopType
    <3>3. CASE SigStore
      BY <1>0, <3>3 DEF SigStore, LoopType
    <3>4. CASE SigReturn
      BY <1>0, <3>4 DEF SigReturn, LoopType
    <3>5. CASE event_once_cb \/ NotifyRead \/ NotifyReset
      BY <1>0, <3>5 DEF event_once_cb, NotifyRead, NotifyReset, LoopType
    <3> QED
      BY <1>2, <3>1, <3>2, <3>3, <3>4, <3>5
  <2>2. thr[L].st = "idle" \/ loop.pc \notin {"out", "cb"}
    <3>1. \/ thr[L] = IdleCall
          \/ loop.pc \in {"poll", "sigload", "sigstore", "drain", "drained"}
      BY <1>2 DEF epoll_wait, DispatchFails, SigLoad, SigStore, SigReturn,
                  event_once_cb, NotifyRead, NotifyReset
    <3> QED
      BY <3>1, SMT DEF IdleCall
  <2>3. UNCHANGED thr
    BY <1>2 DEF epoll_wait, DispatchFails, SigLoad, SigStore, SigReturn,
                event_once_cb, NotifyRead, NotifyReset
  <2>4. loop'.pc \notin LockedPcs
    BY <2>1 DEF LockedPcs
  <2> QED
    BY <2>2, <2>3, <2>4, LockLoop
<1>3. CASE DispatchLocks \/ \E f \in LoopFlags : event_base_loop(f)
  <2>1. CanLock(L) /\ UNCHANGED thr
    BY <1>3 DEF DispatchLocks, event_base_loop
  <2>2. thr[L].st = "idle" \/ loop.pc \notin {"out", "cb"}
    <3>1. thr[L] = IdleCall \/ loop.pc = "pollret"
      BY <1>3 DEF DispatchLocks, event_base_loop
    <3> QED
      BY <3>1, SMT DEF IdleCall
  <2> QED
    BY <2>1, <2>2, LockTaken
<1>4. CASE CallbackDone
  <2>1. CanLock(L)
    BY <1>4 DEF CallbackDone
  <2>3. thr[L].st = "idle" \/ loop.pc \notin {"out", "cb"}
    <3>1. loop.pc = "cbret" \/ thr[L] = IdleCall
      BY <1>4 DEF CallbackDone
    <3> QED
      BY <3>1, SMT DEF IdleCall
  <2>2. ASSUME NEW t \in Threads
        PROVE  /\ thr[t].st = "idle" => thr'[t].st = "idle"
               /\ thr'[t].st = "many" => thr[t].st = "many"
    <3>1. \/ thr'[t] = thr[t]
          \/ thr[t].st = "wait" /\ thr'[t] = [thr[t] EXCEPT !.st = "woken"]
      BY <1>4 DEF CallbackDone
    <3> QED
      BY <3>1, StateTypes DEF CallType
  <2> QED
    BY <2>1, <2>2, <2>3, LockTaken
<1> QED
  BY <1>1, <1>2, <1>3, <1>4 DEF LoopStep

(* The environment takes and gives no lock.                                *)
LEMMA EnvironmentLock ==
    ASSUME Inv, LockInv, \/ Tick \/ \E e \in IOEvents : DescriptorChanges(e)
                         \/ \E t \in Threads : SpuriousWakeup(t)
    PROVE  LockInv'
<1>0. loop \in LoopType
  BY StateTypes
<1>1. CASE Tick \/ \E e \in IOEvents : DescriptorChanges(e)
  <2>1. loop'.pc = loop.pc /\ UNCHANGED thr
    BY <1>0, <1>1 DEF Tick, DescriptorChanges, LoopType
  <2> QED
    BY <2>1, LockLoop
<1>2. ASSUME NEW t \in Threads, SpuriousWakeup(t)
      PROVE  LockInv'
  <2>1. PICK call : call = [thr[t] EXCEPT !.st = "woken"]
    OBVIOUS
  <2>2. thr[t] \in CallType /\ thr[t].st = "wait" /\ UNCHANGED loop
    BY <1>2, StateTypes DEF SpuriousWakeup
  <2>3. call.st = "woken" /\ thr' = [thr EXCEPT ![t] = call]
    BY <1>2, <2>1, <2>2 DEF SpuriousWakeup, CallType
  <2> QED
    BY <2>2, <2>3, LockCall
<1> QED
  BY <1>1, <1>2

(* A call starts, waits, goes on and returns with the lock in the right    *)
(* hands.                                                                  *)
LEMMA CallLock ==
    ASSUME Inv, CarefulProgram, LockInv, NEW t \in Threads, Call(t) \/ CallGoesOn(t)
    PROVE  LockInv'
<1>1. UNCHANGED loop
  <2>1. CASE Call(t)
    BY <2>1 DEF Call, event_add, event_del, event_active, event_remove_timer,
        event_active_later_, event_finalize, event_priority_set, event_base_once, OnceFails,
        event_callback_finalize_many_, event_base_loopbreak, event_base_loopcontinue,
        event_base_update_cache_time, event_base_add_virtual_, event_base_del_virtual_,
        event_deferred_cb_schedule_, event_deferred_cb_cancel_, event_deferred_cb_set_priority_
  <2>2. CASE CallGoesOn(t)
    BY <2>2 DEF CallGoesOn, AddAfterWait, DelAfterWait, ActiveAfterWait, FinalizeAfterWait,
        FinalizeNext, FinalizeLast, PriorityStore
  <2> QED
    BY <2>1, <2>2
<1>2. CASE UNCHANGED thr
  BY <1>1, <1>2, LockLoop
<1>3. ASSUME NEW call, thr' = [thr EXCEPT ![t] = call],
             CanCall(t) \/ thr[t].st # "idle", call.st # "many" \/ CanCall(t)
      PROVE  LockInv'
  BY <1>1, <1>3, LockCall
<1>4. ASSUME NEW s, NEW op, NEW e, NEW arg, Waits(s, t, op, e, arg), CanCall(t)
      PROVE  LockInv'
  <2>1. PICK call : call = [st |-> "wait", op |-> op, e |-> e, arg |-> arg]
    OBVIOUS
  <2> QED
    BY <1>3, <1>4, <2>1 DEF Waits
<1>5. CASE Call(t)
  <2>1. CASE event_callback_finalize_many_(t)
    BY <1>3, <2>1 DEF event_callback_finalize_many_
  <2>2. CASE \E e \in UserEvents :
                \/ \E tv \in Timeouts \cup {NoTv} : event_add(t, e, tv)
                \/ \E m \in DelModes : event_del(t, e, m)
                \/ \E n \in NCalls : event_active(t, e, n)
                \/ event_finalize(t, e)
    <3>1. CASE \E e \in UserEvents, tv \in Timeouts \cup {NoTv} : event_add(t, e, tv)
      BY <1>2, <1>4, <3>1 DEF event_add
    <3>2. CASE \E e \in UserEvents, m \in DelModes : event_del(t, e, m)
      BY <1>2, <1>4, <3>2 DEF event_del
    <3>3. CASE \E e \in UserEvents, n \in NCalls : event_active(t, e, n)
      BY <1>2, <1>4, <3>3 DEF event_active
    <3>4. CASE \E e \in UserEvents : event_finalize(t, e)
      BY <1>2, <1>4, <3>4 DEF event_finalize
    <3> QED
      BY <2>2, <3>1, <3>2, <3>3, <3>4
  <2>3. CASE \/ \E e \in UserEvents : \/ event_remove_timer(t, e) \/ event_active_later_(t, e)
                                      \/ \E p \in Priorities : event_priority_set(t, e, p)
             \/ \E e \in OnceEvents, tv \in Timeouts \cup {NoTv} : event_base_once(t, e, tv)
             \/ OnceFails(t) \/ event_base_loopbreak(t) \/ event_base_loopcontinue(t)
             \/ event_base_update_cache_time(t)
             \/ event_base_add_virtual_(t) \/ event_base_del_virtual_(t)
             \/ \E c \in Deferreds :
                   \/ event_deferred_cb_schedule_(t, c) \/ event_deferred_cb_cancel_(t, c)
                   \/ \E p \in Priorities : event_deferred_cb_set_priority_(t, c, p)
    <3>1. UNCHANGED thr
      BY <2>3 DEF event_remove_timer, event_active_later_, event_priority_set, CarefulProgram,
        event_base_once, OnceFails, event_base_loopbreak, event_base_loopcontinue,
        event_base_update_cache_time, event_base_add_virtual_, event_base_del_virtual_,
        event_deferred_cb_schedule_, event_deferred_cb_cancel_, event_deferred_cb_set_priority_
    <3> QED
      BY <1>2, <3>1
  <2> QED
    BY <1>5, <2>1, <2>2, <2>3 DEF Call
<1>6. CASE CallGoesOn(t)
  <2>0. CallInv(t) /\ thr[t] \in CallType
    BY StateTypes DEF CallsInv
  <2>1. CASE \/ AddAfterWait(t) \/ DelAfterWait(t) \/ ActiveAfterWait(t)
             \/ FinalizeAfterWait(t) \/ FinalizeLast(t) \/ PriorityStore(t)
    <3>1. thr' = [thr EXCEPT ![t] = IdleCall] /\ thr[t].st # "idle" /\ IdleCall.st = "idle"
      BY <2>1 DEF AddAfterWait, DelAfterWait, ActiveAfterWait, FinalizeAfterWait, FinalizeLast,
                  PriorityStore, Returns, Wakes, IdleCall
    <3> QED
      BY <1>3, <3>1
  <2>2. CASE FinalizeNext(t)
    <3>1. PICK n, k : thr' = [thr EXCEPT ![t].arg = n, ![t].e = k]
      BY <2>2 DEF FinalizeNext
    <3>2. PICK call : call = [thr[t] EXCEPT !.arg = n, !.e = k]
      OBVIOUS
    <3>3. thr[t].st = "many" /\ thr' = [thr EXCEPT ![t] = call]
      BY <2>2, <3>1, <3>2, StateTypes DEF FinalizeNext
    <3> QED
      BY <1>1, <3>3, LockCall
  <2> QED
    BY <1>6, <2>1, <2>2 DEF CallGoesOn
<1> QED
  BY <1>5, <1>6

(* Every step keeps the lock in the right hands.                           *)
LEMMA NextLock ==
    ASSUME Inv, CarefulProgram, LockInv, [Next]_vars
    PROVE  LockInv'
<1>1. CASE UNCHANGED vars
  BY <1>1, LockLoop DEF vars
<1>2. CASE Next
  <2>1. CASE LoopStep \/ \E f \in LoopFlags : event_base_loop(f)
    BY <2>1, LoopStepLock
  <2>2. CASE \E t \in Threads : CallGoesOn(t) \/ Call(t)
    BY <2>2, CallLock
  <2>3. CASE \/ Tick \/ \E e \in IOEvents : DescriptorChanges(e)
             \/ \E t \in Threads : SpuriousWakeup(t)
    BY <2>3, EnvironmentLock
  <2> QED
    BY <1>2, <2>1, <2>2, <2>3 DEF Next
<1> QED
  BY <1>1, <1>2

(* Nobody has the lock when event_base_new returns.                        *)
LEMMA InitLock ==
    ASSUME Init
    PROVE  LockInv
<1>1. L \in Threads
  BY DEF Threads
<1> QED
  BY <1>1 DEF Init, LockInv, IdleCall
=============================================================================
