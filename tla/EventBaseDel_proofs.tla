-------------------------- MODULE EventBaseDel_proofs -----------------------
(***************************************************************************)
(* What event_del promises, for any number of events, deferred callbacks,  *)
(* priorities and threads: every step of the base keeps DelSafeInv.        *)
(***************************************************************************)
EXTENDS EventBaseSteps_proofs

(* Zenon, unless a step cites another prover. *)
USE Zenon

-----------------------------------------------------------------------------
(* What event_del promises, while it waits too.  An event that a           *)
(* bufferevent gave up is promised to nobody.                              *)
DelSafeInv ==
    /\ DelSafe
    /\ \A t \in hist.clean :
          /\ thr[t].st \in {"wait", "woken"} /\ thr[t].op = "del"
          /\ q.flags[thr[t].e] \cap QueueFlags = {}
          /\ thr[t].st = "woken" => base.current_event # thr[t].e
    /\ hist.group_freed =>
          /\ hist.safe \cap Elems(Group) = {}
          /\ \A t \in hist.clean : thr[t].e \notin Elems(Group)
    /\ \A t \in Threads : thr[t].st = "many" => hist.group_freed

-----------------------------------------------------------------------------
(* An event is promised when its event_del has returned, or waits          *)
(* undisturbed.                                                            *)
Promised(e) == e \in hist.safe \/ \E t \in hist.clean : thr[t].e = e

(* A promised event is in no queue and in no finalized group.              *)
LEMMA PromisedIsIdle ==
    ASSUME Inv, DelSafeInv, NEW e, Promised(e)
    PROVE  /\ e \in Events /\ q.flags[e] \cap QueueFlags = {}
           /\ hist.group_freed => e \notin Elems(Group)
<1>1. CASE e \in hist.safe
  BY <1>1, StateTypes DEF DelSafeInv, DelSafe, HistType
<1>2. ASSUME NEW t \in hist.clean, thr[t].e = e
      PROVE  /\ e \in Events /\ q.flags[e] \cap QueueFlags = {}
             /\ hist.group_freed => e \notin Elems(Group)
  <2>1. t \in Threads /\ CallInv(t)
    BY <1>2, StateTypes DEF HistType, CallsInv
  <2> QED
    BY <1>2, <2>1 DEF DelSafeInv, CallInv
<1> QED
  BY <1>1, <1>2 DEF Promised

(* A step that works on e alone keeps every promise when e is promised to  *)
(* nobody, or is not queued and not run by the step.  Threads that wait in *)
(* event_del stay, or are woken when no callback runs.                     *)
LEMMA DelKept ==
    ASSUME Inv, DelSafeInv, NEW e \in Callbacks, FlagsBut(q, q', e),
           base'.current_event \in {base.current_event, NoCb, e},
           \/ e \notin hist'.safe /\ \A t \in hist'.clean : thr[t].e # e
           \/ /\ q'.flags[e] \cap QueueFlags \subseteq q.flags[e]
              /\ base'.current_event \in {base.current_event, NoCb},
           hist'.safe \subseteq hist.safe, hist'.clean \subseteq hist.clean,
           hist'.group_freed = hist.group_freed,
           \A t \in hist'.clean :
              /\ thr'[t].e = thr[t].e /\ thr'[t].op = thr[t].op
              /\ \/ thr'[t].st = thr[t].st
                 \/ thr'[t].st = "woken" /\ base'.current_event = NoCb,
           \A t \in Threads : thr'[t].st = "many" => thr[t].st = "many"
    PROVE  DelSafeInv'
<1>0. NoCb \notin Callbacks /\ Events \subseteq Callbacks
  BY EventBaseAssumption
<1>1. ASSUME NEW x, x \in hist'.safe
      PROVE  base'.current_event # x /\ q'.flags[x] \cap QueueFlags = {}
  <2>1. /\ x \in hist.safe /\ x \in Callbacks /\ x # NoCb
        /\ base.current_event # x /\ q.flags[x] \cap QueueFlags = {}
    BY <1>0, <1>1, StateTypes, ZenonT(30) DEF DelSafeInv, DelSafe, HistType
  <2>2. CASE x # e
    BY <2>1, <2>2 DEF FlagsBut
  <2>3. CASE x = e
    BY <1>1, <2>1, <2>3
  <2> QED
    BY <2>2, <2>3
<1>2. ASSUME NEW t \in hist'.clean
      PROVE  /\ thr'[t].st \in {"wait", "woken"} /\ thr'[t].op = "del"
             /\ q'.flags[thr'[t].e] \cap QueueFlags = {}
             /\ thr'[t].st = "woken" => base'.current_event # thr'[t].e
  <2>1. PICK x : x = thr[t].e
    OBVIOUS
  <2>2. /\ t \in hist.clean /\ thr[t].st \in {"wait", "woken"} /\ thr[t].op = "del"
        /\ q.flags[x] \cap QueueFlags = {}
        /\ thr[t].st = "woken" => base.current_event # x
    BY <1>2, <2>1 DEF DelSafeInv
  <2>3. x \in Callbacks /\ x # NoCb
    <3>1. Promised(x)
      BY <2>1, <2>2 DEF Promised
    <3> QED
      BY <1>0, <3>1, PromisedIsIdle
  <2>4. /\ thr'[t].e = x /\ thr'[t].op = thr[t].op
        /\ \/ thr'[t].st = thr[t].st
           \/ thr'[t].st = "woken" /\ base'.current_event = NoCb
    BY <1>2, <2>1
  <2>5. CASE x # e
    BY <2>2, <2>3, <2>4, <2>5 DEF FlagsBut
  <2>6. CASE x = e
    BY <1>2, <2>1, <2>2, <2>3, <2>4, <2>6
  <2> QED
    BY <2>5, <2>6
<1>3. hist'.group_freed =>
        /\ hist'.safe \cap Elems(Group) = {}
        /\ \A t \in hist'.clean : thr'[t].e \notin Elems(Group)
  BY DEF DelSafeInv
<1>4. \A t \in Threads : thr'[t].st = "many" => hist'.group_freed
  BY DEF DelSafeInv
<1> QED
  BY <1>1, <1>2, <1>3, <1>4 DEF DelSafeInv, DelSafe

(* A quiet step keeps every promise,                                       *)
LEMMA DelQuiet ==
    ASSUME Inv, DelSafeInv, Quiet
    PROVE  DelSafeInv'
BY DEF DelSafeInv, DelSafe, Quiet

(* so does a step that works on an event that is queued or deferred, or    *)
(* takes one out of a queue,                                               *)
LEMMA DelWorks ==
    ASSUME Inv, DelSafeInv, NEW e \in Callbacks, Works(e), UNCHANGED thr,
           hist'.safe = hist.safe, hist'.clean = hist.clean,
           hist'.group_freed = hist.group_freed,
           ~Promised(e) \/ q'.flags[e] \cap QueueFlags \subseteq q.flags[e]
    PROVE  DelSafeInv'
<1>1. FlagsBut(q, q', e) /\ base'.current_event = base.current_event
  BY DEF Works
<1>2. CASE ~Promised(e)
  <2>1. e \notin hist'.safe /\ \A t \in hist'.clean : thr[t].e # e
    BY <1>2 DEF Promised
  <2> QED
    BY <1>1, <2>1, DelKept
<1>3. CASE q'.flags[e] \cap QueueFlags \subseteq q.flags[e]
  BY <1>1, <1>3, DelKept
<1> QED
  BY <1>2, <1>3

(* and a call on e that ends the promises about it, by a thread that does  *)
(* not wait in event_del.                                                  *)
LEMMA DelTouched ==
    ASSUME Inv, DelSafeInv, NEW e \in Callbacks, FlagsBut(q, q', e),
           base'.current_event = base.current_event,
           hist'.safe = hist.safe \ {e}, hist'.clean = {t \in hist.clean : thr[t].e # e},
           hist'.group_freed = hist.group_freed,
           \/ UNCHANGED thr
           \/ \E t \in Threads : \E call :
                 /\ thr' = [thr EXCEPT ![t] = call] /\ call.st # "many"
                 /\ thr[t].st = "idle" \/ thr[t].op # "del"
    PROVE  DelSafeInv'
<1>1. hist.clean \subseteq Threads /\ thr \in [Threads -> CallType]
  BY StateTypes DEF HistType
<1>2. e \notin hist'.safe /\ \A t \in hist'.clean : thr[t].e # e
  OBVIOUS
<1>3. hist'.safe \subseteq hist.safe /\ hist'.clean \subseteq hist.clean
  OBVIOUS
<1>4. CASE UNCHANGED thr
  BY <1>2, <1>3, <1>4, DelKept
<1>5. ASSUME NEW t \in Threads, NEW call, thr' = [thr EXCEPT ![t] = call], call.st # "many",
             thr[t].st = "idle" \/ thr[t].op # "del"
      PROVE  DelSafeInv'
  <2>1. t \notin hist.clean
    BY <1>5 DEF DelSafeInv
  <2>2. \A u \in hist'.clean : thr'[u] = thr[u]
    BY <1>1, <1>3, <1>5, <2>1
  <2>3. \A u \in Threads : thr'[u].st = "many" => thr[u].st = "many"
    BY <1>1, <1>5
  <2>4. \A u \in hist'.clean :
           /\ thr'[u].e = thr[u].e /\ thr'[u].op = thr[u].op /\ thr'[u].st = thr[u].st
    BY <2>2
  <2> QED
    BY <1>2, <1>3, <2>3, <2>4, DelKept
<1> QED
  BY <1>4, <1>5

(* The loop runs and moves only callbacks that are queued, and none of     *)
(* those is promised.                                                      *)
LEMMA DelLoopStep ==
    ASSUME Inv, DelSafeInv, LoopStep
    PROVE  DelSafeInv'
<1>0. QueueFlags = {"TIMEOUT", "INSERTED", "ACTIVE", "ACTIVE_LATER"}
  BY DEF QueueFlags
<1>1. ASSUME NEW c, q.flags[c] \cap QueueFlags # {}
      PROVE  ~Promised(c)
  BY <1>1, PromisedIsIdle
<1>2. CASE event_queue_make_later_events_active
  <2>1. PICK c \in Callbacks : Works(c) /\ "ACTIVE_LATER" \in q.flags[c]
    BY <1>2, WorksMakeLater
  <2>2. ~Promised(c)
    BY <1>0, <1>1, <2>1
  <2>3. UNCHANGED <<thr, hist>>
    BY <1>2 DEF event_queue_make_later_events_active
  <2> QED
    BY <2>1, <2>2, <2>3, DelWorks
<1>3. ASSUME NEW e \in FdEvents, evmap_io_active_(e)
      PROVE  DelSafeInv'
  <2>1. e \in Callbacks /\ Works(e) /\ ("INSERTED" \in q.flags[e] \/ q' = q)
    BY <1>3, WorksIoActive
  <2>2. ~Promised(e) \/ q' = q
    BY <1>0, <1>1, <2>1
  <2>3. UNCHANGED <<thr, hist>>
    BY <1>3 DEF evmap_io_active_
  <2>4. ~Promised(e) \/ q'.flags[e] \cap QueueFlags \subseteq q.flags[e]
    BY <2>2
  <2> QED
    BY <2>1, <2>3, <2>4, DelWorks
<1>4. ASSUME NEW e \in LoopEvents, timeout_process(e)
      PROVE  DelSafeInv'
  <2>1. e \in Callbacks /\ Works(e) /\ "TIMEOUT" \in q.flags[e]
    BY <1>4, WorksTimeout
  <2>2. ~Promised(e)
    BY <1>0, <1>1, <2>1
  <2>3. UNCHANGED <<thr, hist>>
    BY <1>4 DEF timeout_process
  <2> QED
    BY <2>1, <2>2, <2>3, DelWorks
<1>5. CASE RunCallback
  <2>1. PICK c \in Callbacks :
           /\ "ACTIVE" \in q.flags[c] /\ FlagsBut(q, q', c)
           /\ Finalizes(c) => base'.current_event = NoCb
           /\ ~Finalizes(c) => base'.current_event = c
           /\ hist'.safe = hist.safe /\ hist'.clean = hist.clean
           /\ hist'.group_freed = hist.group_freed /\ UNCHANGED thr
    BY <1>5, RunsOne
  <2>2. ~Promised(c)
    BY <1>0, <1>1, <2>1
  <2>3. c \notin hist'.safe /\ \A t \in hist'.clean : thr[t].e # c
    BY <2>1, <2>2 DEF Promised
  <2> QED
    BY <2>1, <2>3, DelKept
<1>6. CASE CallbackDone
  <2>1. /\ UNCHANGED <<q, ev, hist>> /\ base'.current_event = NoCb
        /\ \A t \in Threads :
              \/ thr'[t] = thr[t]
              \/ /\ thr[t].st = "wait" /\ thr'[t].st = "woken"
                 /\ thr'[t].e = thr[t].e /\ thr'[t].op = thr[t].op
    BY <1>6, DoneWithOne
  <2>2. hist.clean \subseteq Threads /\ th_notify \in Callbacks
    BY StateTypes, EventBaseAssumption DEF HistType
  <2>3. FlagsBut(q, q', th_notify) /\ q'.flags[th_notify] \cap QueueFlags \subseteq q.flags[th_notify]
    BY <2>1 DEF FlagsBut
  <2>4. \A t \in hist'.clean :
           /\ thr'[t].e = thr[t].e /\ thr'[t].op = thr[t].op
           /\ \/ thr'[t].st = thr[t].st
              \/ thr'[t].st = "woken" /\ base'.current_event = NoCb
    BY <2>1, <2>2
  <2>5. \A t \in Threads : thr'[t].st = "many" => thr[t].st = "many"
    BY <2>1
  <2> QED
    BY <2>1, <2>2, <2>3, <2>4, <2>5, DelKept
<1>7. CASE LoopTop \/ StartPoll \/ epoll_wait \/ DispatchFails \/ DispatchLocks
           \/ DispatchReturns \/ TimeoutsDone \/ QueueEmpty
  BY <1>7, QuietLoop, DelQuiet
<1>8. CASE SigLoad \/ SigStore \/ SigReturn \/ event_once_cb \/ NotifyRead \/ NotifyReset
  BY <1>8, QuietClosure, DelQuiet
<1> QED
  BY <1>2, <1>3, <1>4, <1>5, <1>6, <1>7, <1>8 DEF LoopStep

(* The calls on an event: event_del makes a promise only when the event is *)
(* in no queue and its callback does not run, or waits for that.           *)
LEMMA DelMakesPromise ==
    ASSUME Inv, DelSafeInv, NEW t \in Threads, NEW e \in UserEvents, NEW m,
           event_del(t, e, m)
    PROVE  DelSafeInv'
<1>0. /\ e \in Events /\ e \in Callbacks /\ thr \in [Threads -> CallType] /\ hist \in HistType
      /\ hist.clean \subseteq Threads
  BY CallTypes, StateTypes DEF HistType
<1>1. /\ FlagsBut(q, q', e) /\ base'.current_event = base.current_event
      /\ q'.flags[e] \cap QueueFlags = {} /\ q'.flags[e] \subseteq q.flags[e]
  BY WorksDel DEF Works
<1>2. thr[t] = IdleCall /\ (hist.group_freed => e \notin Elems(Group))
  BY DEF event_del, CanCall, Usable
<1>3. t \notin hist.clean
  BY <1>2, SMT DEF DelSafeInv, IdleCall
<1>4. ASSUME NEW x \in hist.safe
      PROVE  base'.current_event # x /\ q'.flags[x] \cap QueueFlags = {}
  BY <1>0, <1>1, <1>4, EventBaseAssumption DEF DelSafeInv, DelSafe, HistType, FlagsBut
<1>5. ASSUME NEW u \in hist.clean
      PROVE  /\ thr[u].st \in {"wait", "woken"} /\ thr[u].op = "del"
             /\ q'.flags[thr[u].e] \cap QueueFlags = {}
             /\ thr[u].st = "woken" => base'.current_event # thr[u].e
  <2>1. PICK x : x = thr[u].e
    OBVIOUS
  <2>2. Promised(x)
    BY <2>1 DEF Promised
  <2>3. x \in Callbacks
    BY <2>2, PromisedIsIdle, EventBaseAssumption
  <2>4. q'.flags[x] \cap QueueFlags = {}
    BY <1>1, <2>1, <2>3 DEF DelSafeInv, FlagsBut
  <2> QED
    BY <1>1, <2>1, <2>4 DEF DelSafeInv
<1>6. CASE DelWaits(t, e, m)
  <2>1. /\ thr' = [thr EXCEPT ![t] = [st |-> "wait", op |-> "del", e |-> e, arg |-> 0]]
        /\ hist' = [hist EXCEPT !.timed = @ \ {e}, !.clean = @ \cup {t}]
    BY <1>6 DEF event_del, Waits
  <2>2. hist'.safe = hist.safe /\ hist'.clean = hist.clean \cup {t}
        /\ hist'.group_freed = hist.group_freed
    BY <1>0, <2>1 DEF HistType
  <2>3. \A u \in hist.clean : thr'[u] = thr[u]
    BY <1>0, <1>3, <2>1
  <2>4. thr'[t].st = "wait" /\ thr'[t].op = "del" /\ thr'[t].e = e
    BY <1>0, <2>1
  <2>5. ASSUME NEW u \in hist'.clean
        PROVE  /\ thr'[u].st \in {"wait", "woken"} /\ thr'[u].op = "del"
               /\ q'.flags[thr'[u].e] \cap QueueFlags = {}
               /\ thr'[u].st = "woken" => base'.current_event # thr'[u].e
               /\ hist'.group_freed => thr'[u].e \notin Elems(Group)
    <3>1. CASE u = t
      BY <1>1, <1>2, <2>2, <2>4, <3>1
    <3>2. CASE u \in hist.clean
      BY <1>5, <2>2, <2>3, <3>2 DEF DelSafeInv
    <3> QED
      BY <2>2, <2>5, <3>1, <3>2
  <2>6. \A u \in Threads : thr'[u].st = "many" => thr[u].st = "many"
    BY <1>0, <2>1
  <2> QED
    BY <1>4, <2>2, <2>5, <2>6 DEF DelSafeInv, DelSafe
<1>7. CASE ~DelWaits(t, e, m)
  <2>1. /\ UNCHANGED thr
        /\ hist' = [hist EXCEPT !.timed = @ \ {e},
                     !.safe = IF DelPromises(t, e, m) THEN @ \cup {e} ELSE @]
    BY <1>7 DEF event_del
  <2>2. hist'.safe \subseteq hist.safe \cup {e} /\ hist'.clean = hist.clean
        /\ hist'.group_freed = hist.group_freed
        /\ (e \in hist'.safe => e \in hist.safe \/ DelPromises(t, e, m))
    BY <1>0, <2>1 DEF HistType
  <2>3. DelPromises(t, e, m) => base'.current_event # e
    BY <1>1, <1>7 DEF DelPromises, DelWaits, RunsElsewhere
  <2>4. ASSUME NEW x \in hist'.safe
        PROVE  base'.current_event # x /\ q'.flags[x] \cap QueueFlags = {}
    BY <1>1, <1>4, <2>2, <2>3, <2>4
  <2>5. hist'.group_freed => hist'.safe \cap Elems(Group) = {}
    BY <1>2, <2>2 DEF DelSafeInv
  <2> QED
    BY <1>5, <2>1, <2>2, <2>4, <2>5 DEF DelSafeInv, DelSafe
<1> QED
  BY <1>6, <1>7

(* event_add, event_active, event_active_later_, event_finalize and        *)
(* event_base_once promise nothing about the event they queue.             *)
LEMMA DelTouchCalls ==
    ASSUME Inv, DelSafeInv, CarefulProgram, NEW t \in Threads,
           \/ \E e \in UserEvents :
                 \/ \E tv \in Timeouts \cup {NoTv} : event_add(t, e, tv)
                 \/ \E n \in NCalls : event_active(t, e, n)
                 \/ event_active_later_(t, e) \/ event_finalize(t, e)
           \/ \E e \in OnceEvents, tv \in Timeouts \cup {NoTv} : event_base_once(t, e, tv)
    PROVE  DelSafeInv'
<1>0. /\ UserEvents \subseteq Callbacks /\ OnceEvents \subseteq Callbacks
      /\ thr \in [Threads -> CallType]
  BY CallTypes, EventBaseAssumption, StateTypes
<1>1. ASSUME NEW e \in UserEvents, NEW tv \in Timeouts \cup {NoTv}, event_add(t, e, tv)
      PROVE  DelSafeInv'
  <2>1. FlagsBut(q, q', e) /\ base'.current_event = base.current_event
    BY <1>1, WorksAdd DEF Works
  <2>2. HistAdd(e, tv) /\ thr[t].st = "idle"
    <3>1. HistAdd(e, tv) /\ thr[t] = IdleCall
      BY <1>1 DEF event_add, CanCall
    <3> QED
      BY <3>1, SMT DEF IdleCall
  <2>3. \/ UNCHANGED thr
        \/ \E call : thr' = [thr EXCEPT ![t] = call] /\ call.st # "many"
    <3>1. \/ UNCHANGED thr
          \/ thr' = [thr EXCEPT ![t] = [st |-> "wait", op |-> "add", e |-> e, arg |-> tv]]
      BY <1>1 DEF event_add, Waits
    <3>2. [st |-> "wait", op |-> "add", e |-> e, arg |-> tv].st # "many"
      OBVIOUS
    <3> QED
      BY <3>1, <3>2
  <2> QED
    BY <1>0, <2>1, <2>2, <2>3, TouchEndsPromise, DelTouched, ZenonT(30)
<1>2. ASSUME NEW e \in UserEvents, NEW n \in NCalls, event_active(t, e, n)
      PROVE  DelSafeInv'
  <2>1. FlagsBut(q, q', e) /\ base'.current_event = base.current_event
    BY <1>2, WorksActive DEF Works
  <2>2. hist' = Touch(hist, e) /\ thr[t].st = "idle"
    <3>1. hist' = Touch(hist, e) /\ thr[t] = IdleCall
      BY <1>2 DEF event_active, CanCall
    <3> QED
      BY <3>1, SMT DEF IdleCall
  <2>3. \/ UNCHANGED thr
        \/ \E call : thr' = [thr EXCEPT ![t] = call] /\ call.st # "many"
    <3>1. \/ UNCHANGED thr
          \/ thr' = [thr EXCEPT ![t] = [st |-> "wait", op |-> "active", e |-> e, arg |-> n]]
      BY <1>2 DEF event_active, Waits
    <3>2. [st |-> "wait", op |-> "active", e |-> e, arg |-> n].st # "many"
      OBVIOUS
    <3> QED
      BY <3>1, <3>2
  <2> QED
    BY <1>0, <2>1, <2>2, <2>3, TouchEndsPromise, DelTouched, SMTT(20)
<1>3. ASSUME NEW e \in UserEvents, event_active_later_(t, e)
      PROVE  DelSafeInv'
  <2>1. FlagsBut(q, q', e) /\ base'.current_event = base.current_event
    BY <1>3, WorksActiveLater DEF Works
  <2>2. hist' = Touch(hist, e) /\ UNCHANGED thr
    BY <1>3 DEF event_active_later_
  <2> QED
    BY <1>0, <2>1, <2>2, TouchEndsPromise, DelTouched
<1>4. ASSUME NEW e \in UserEvents, event_finalize(t, e)
      PROVE  DelSafeInv'
  <2>1. FlagsBut(q, q', e) /\ base'.current_event = base.current_event /\ UNCHANGED thr
    BY <1>4, FinalizesOne DEF Finalizer
  <2>2. hist' = [Touch(hist, e) EXCEPT !.timed = @ \ {e}]
    BY <1>4 DEF event_finalize
  <2> QED
    BY <1>0, <2>1, <2>2, TouchEndsPromise, DelTouched, SMTT(20)
<1>5. ASSUME NEW e \in OnceEvents, NEW tv \in Timeouts \cup {NoTv}, event_base_once(t, e, tv)
      PROVE  DelSafeInv'
  <2>1. FlagsBut(q, q', e) /\ base'.current_event = base.current_event
    BY <1>5, WorksOnce DEF Works
  <2>2. HistAdd(e, tv) /\ UNCHANGED thr
    BY <1>5 DEF event_base_once
  <2> QED
    BY <1>0, <2>1, <2>2, TouchEndsPromise, DelTouched
<1> QED
  BY <1>1, <1>2, <1>3, <1>4, <1>5

(* A call that waited goes on: event_del keeps the promise it made when    *)
(* nobody interfered, event_add and event_active end one.                  *)
LEMMA DelAfterWaits ==
    ASSUME Inv, DelSafeInv, NEW t \in Threads,
           AddAfterWait(t) \/ ActiveAfterWait(t) \/ DelAfterWait(t)
    PROVE  DelSafeInv'
<1>0. thr \in [Threads -> CallType] /\ Events \subseteq Callbacks /\ hist \in HistType
  BY StateTypes, EventBaseAssumption
<1>1. CASE AddAfterWait(t)
  <2>1. /\ thr[t].e \in Callbacks
        /\ FlagsBut(q, q', thr[t].e) /\ base'.current_event = base.current_event
    BY <1>0, <1>1, WorksAddAfterWait DEF Works
  <2>2. hist' = Touch(hist, thr[t].e) /\ thr[t].op = "add"
        /\ thr' = [thr EXCEPT ![t] = IdleCall] /\ IdleCall.st # "many"
    BY <1>1 DEF AddAfterWait, Wakes, Returns, IdleCall
  <2> QED
    BY <2>1, <2>2, TouchEndsPromise, DelTouched
<1>2. CASE ActiveAfterWait(t)
  <2>1. /\ thr[t].e \in Callbacks
        /\ FlagsBut(q, q', thr[t].e) /\ base'.current_event = base.current_event
    BY <1>0, <1>2, WorksActiveAfterWait DEF Works
  <2>2. hist' = Touch(hist, thr[t].e) /\ thr[t].op = "active"
        /\ thr' = [thr EXCEPT ![t] = IdleCall] /\ IdleCall.st # "many"
    BY <1>2 DEF ActiveAfterWait, Wakes, Returns, IdleCall
  <2> QED
    BY <2>1, <2>2, TouchEndsPromise, DelTouched
<1>3. CASE DelAfterWait(t)
  <2>1. /\ thr[t].st = "woken" /\ thr' = [thr EXCEPT ![t] = IdleCall]
        /\ hist' = [hist EXCEPT !.clean = @ \ {t},
                            !.safe = IF t \in hist.clean THEN @ \cup {thr[t].e} ELSE @]
        /\ UNCHANGED <<q, base>>
    BY <1>3 DEF DelAfterWait, Wakes, Returns
  <2>2. /\ hist'.clean = hist.clean \ {t} /\ hist'.group_freed = hist.group_freed
        /\ \A x \in hist'.safe : x \in hist.safe \/ (t \in hist.clean /\ x = thr[t].e)
    BY <1>0, <2>1 DEF HistType
  <2>3. ASSUME NEW x \in hist'.safe
        PROVE  /\ base'.current_event # x /\ q'.flags[x] \cap QueueFlags = {}
               /\ hist'.group_freed => x \notin Elems(Group)
    <3>1. CASE x \in hist.safe
      BY <2>1, <2>2, <3>1 DEF DelSafeInv, DelSafe
    <3>2. CASE t \in hist.clean /\ x = thr[t].e
      BY <2>1, <2>2, <3>2 DEF DelSafeInv
    <3> QED
      BY <2>2, <2>3, <3>1, <3>2
  <2>4. \A u \in hist'.clean : u \in hist.clean /\ thr'[u] = thr[u]
    BY <1>0, <2>1, <2>2 DEF HistType
  <2>5. \A u \in Threads : thr'[u].st = "many" => thr[u].st = "many"
    BY <1>0, <2>1 DEF IdleCall
  <2>6. \A u \in hist'.clean :
           /\ thr'[u].st \in {"wait", "woken"} /\ thr'[u].op = "del"
           /\ q'.flags[thr'[u].e] \cap QueueFlags = {}
           /\ thr'[u].st = "woken" => base'.current_event # thr'[u].e
           /\ hist'.group_freed => thr'[u].e \notin Elems(Group)
    BY <2>1, <2>2, <2>4, ZenonT(30) DEF DelSafeInv
  <2> QED
    BY <2>2, <2>3, <2>5, <2>6 DEF DelSafeInv, DelSafe
<1> QED
  BY <1>1, <1>2, <1>3

(* The callbacks of a group that is finalized are promised to nobody.      *)
LEMMA DelMany ==
    ASSUME Inv, DelSafeInv, NEW t \in Threads,
           event_callback_finalize_many_(t) \/ FinalizeNext(t) \/ FinalizeLast(t)
    PROVE  DelSafeInv'
<1>0. /\ thr \in [Threads -> CallType] /\ hist \in HistType /\ hist.clean \subseteq Threads
      /\ th_notify \in Callbacks
  BY StateTypes, EventBaseAssumption DEF HistType
<1>1. CASE event_callback_finalize_many_(t)
  <2>1. /\ thr[t] = IdleCall /\ UNCHANGED <<q, base>>
        /\ thr' = [thr EXCEPT ![t] = [st |-> "many", op |-> "finalize_many",
                                      e |-> NoCb, arg |-> 0]]
    BY <1>1 DEF event_callback_finalize_many_, CanCall
  <2>2. /\ hist'.safe = hist.safe \ Elems(Group) /\ hist'.group_freed = TRUE
        /\ hist'.clean = {u \in hist.clean : thr[u].e \notin Elems(Group)}
    BY <1>0, <1>1 DEF event_callback_finalize_many_, HistType
  <2>3. t \notin hist.clean
    BY <2>1, SMT DEF DelSafeInv, IdleCall
  <2>4. \A u \in hist'.clean : u \in hist.clean /\ thr'[u] = thr[u] /\ thr[u].e \notin Elems(Group)
    BY <1>0, <2>1, <2>2, <2>3
  <2>5. \A u \in hist'.clean :
           /\ thr'[u].st \in {"wait", "woken"} /\ thr'[u].op = "del"
           /\ q'.flags[thr'[u].e] \cap QueueFlags = {}
           /\ thr'[u].st = "woken" => base'.current_event # thr'[u].e
           /\ thr'[u].e \notin Elems(Group)
    BY <2>1, <2>4 DEF DelSafeInv
  <2>6. hist'.safe \cap Elems(Group) = {} /\ DelSafe'
    BY <2>1, <2>2 DEF DelSafeInv, DelSafe
  <2> QED
    BY <2>2, <2>5, <2>6 DEF DelSafeInv
<1>2. ASSUME NEW c \in Callbacks, c \in Elems(Group), thr[t].st = "many",
             FlagsBut(q, q', c), base'.current_event = base.current_event, UNCHANGED hist,
             NEW call, thr' = [thr EXCEPT ![t] = call]
      PROVE  DelSafeInv'
  <2>1. hist.group_freed /\ t \notin hist.clean
    BY <1>2 DEF DelSafeInv
  <2>2. ~Promised(c)
    BY <1>2, <2>1, PromisedIsIdle
  <2>3. c \notin hist'.safe /\ \A u \in hist'.clean : thr[u].e # c
    BY <1>2, <2>2 DEF Promised
  <2>4. \A u \in hist'.clean : thr'[u] = thr[u]
    BY <1>0, <1>2, <2>1
  <2>5. \A u \in hist'.clean :
           thr'[u].e = thr[u].e /\ thr'[u].op = thr[u].op /\ thr'[u].st = thr[u].st
    BY <2>4
  <2>6. \A u \in Threads : thr'[u].st = "many" => thr[u].st = "many"
    BY <1>0, <1>2
  <2>7. UNCHANGED hist
    BY <1>2
  <2> QED
    BY <1>2, <2>3, <2>5, <2>6, <2>7, DelKept
<1>3. CASE FinalizeNext(t)
  <2>1. PICK c \in Callbacks, call \in CallType :
              /\ c \in Elems(Group) /\ thr[t].st = "many"
              /\ thr' = [thr EXCEPT ![t] = call] /\ UNCHANGED hist
              /\ base.current_event = c =>
                    Becomes(event_callback_finalize_nolock_(State, t, c))
              /\ base.current_event # c =>
                    Becomes(event_callback_cancel_nolock_(State, t, c))
    BY <1>3, ManyNext, ZenonT(30)
  <2>2. FlagsBut(q, q', c) /\ base'.current_event = base.current_event
    BY <2>1, FinalizesCallback, WorksCancelled DEF Finalizer, Works
  <2> QED
    BY <1>2, <2>1, <2>2
<1>4. CASE FinalizeLast(t)
  <2>1. /\ Group[1] \in Callbacks /\ Group[1] \in Elems(Group) /\ thr[t].st = "many"
        /\ thr' = [thr EXCEPT ![t] = IdleCall] /\ UNCHANGED hist
        /\ thr[t].e = NoCb => Becomes(event_callback_finalize_nolock_(State, t, Group[1]))
        /\ thr[t].e # NoCb => UNCHANGED <<q, ev, base>>
    BY <1>4, ManyLast
  <2>2. FlagsBut(q, q', Group[1]) /\ base'.current_event = base.current_event
    BY <2>1, FinalizesCallback DEF Finalizer, FlagsBut
  <2> QED
    BY <1>2, <2>1, <2>2
<1> QED
  BY <1>1, <1>3, <1>4

(* The calls on a deferred callback, which is no event and is promised to  *)
(* nobody, and event_remove_timer, which only takes a timer away.          *)
LEMMA DelOtherCalls ==
    ASSUME Inv, DelSafeInv, NEW t \in Threads,
           \/ \E e \in UserEvents : event_remove_timer(t, e)
           \/ \E c \in Deferreds : \/ event_deferred_cb_schedule_(t, c)
                                   \/ event_deferred_cb_cancel_(t, c)
    PROVE  DelSafeInv'
<1>0. /\ UserEvents \subseteq Callbacks /\ Deferreds \subseteq Callbacks
      /\ Deferreds \cap Events = {} /\ hist \in HistType
  BY CallTypes, EventBaseAssumption, StateTypes, ZenonT(30)
<1>1. ASSUME NEW e \in UserEvents, event_remove_timer(t, e)
      PROVE  DelSafeInv'
  <2>1. Works(e) /\ q'.flags[e] \subseteq q.flags[e]
    BY <1>1, WorksRemoveTimer
  <2>2. UNCHANGED thr /\ hist' = [hist EXCEPT !.timed = @ \ {e}]
    BY <1>1 DEF event_remove_timer
  <2>3. /\ hist'.safe = hist.safe /\ hist'.clean = hist.clean
        /\ hist'.group_freed = hist.group_freed
    BY <1>0, <2>2 DEF HistType
  <2>4. q'.flags[e] \cap QueueFlags \subseteq q.flags[e]
    BY <2>1
  <2> QED
    BY <1>0, <2>1, <2>2, <2>3, <2>4, DelWorks
<1>2. ASSUME NEW c \in Deferreds,
             event_deferred_cb_schedule_(t, c) \/ event_deferred_cb_cancel_(t, c)
      PROVE  DelSafeInv'
  <2>1. Works(c)
    BY <1>2, WorksSchedule, WorksCancel
  <2>2. UNCHANGED <<thr, hist>>
    BY <1>2 DEF event_deferred_cb_schedule_, event_deferred_cb_cancel_
  <2>3. ~Promised(c)
    BY <1>0, PromisedIsIdle
  <2> QED
    BY <1>0, <2>1, <2>2, <2>3, DelWorks
<1> QED
  BY <1>1, <1>2

(* Every step keeps what event_del promised, when pthread_cond_wait does   *)
(* not return before the callback has ended.                               *)
LEMMA NextDel ==
    ASSUME CarefulProgram, "spurious" \notin Faults, Inv, DelSafeInv, [Next]_vars
    PROVE  DelSafeInv'
<1>1. CASE UNCHANGED vars
  BY <1>1 DEF vars, DelSafeInv, DelSafe
<1>2. CASE \E f \in LoopFlags : event_base_loop(f)
  BY <1>2, QuietLoop, DelQuiet
<1>3. CASE LoopStep
  BY <1>3, DelLoopStep
<1>4. ASSUME NEW t \in Threads, CallGoesOn(t)
      PROVE  DelSafeInv'
  <2>1. ~PriorityStore(t) /\ ~FinalizeAfterWait(t)
    <3>1. CallInv(t)
      BY StateTypes DEF CallsInv
    <3> QED
      BY <3>1 DEF CallInv, PriorityStore, FinalizeAfterWait, Wakes
  <2> QED
    BY <1>4, <2>1, DelAfterWaits, DelMany DEF CallGoesOn
<1>5. ASSUME NEW t \in Threads, Call(t)
      PROVE  DelSafeInv'
  <2>1. CASE \E e \in UserEvents :
                \/ \E tv \in Timeouts \cup {NoTv} : event_add(t, e, tv)
                \/ \E n \in NCalls : event_active(t, e, n)
                \/ event_active_later_(t, e) \/ event_finalize(t, e)
    BY <2>1, DelTouchCalls
  <2>2. CASE \E e \in OnceEvents, tv \in Timeouts \cup {NoTv} : event_base_once(t, e, tv)
    BY <2>2, DelTouchCalls
  <2>3. CASE \E e \in UserEvents : \E m \in DelModes : event_del(t, e, m)
    BY <2>3, DelMakesPromise
  <2>4. CASE \E e \in UserEvents : event_remove_timer(t, e)
    BY <2>4, DelOtherCalls
  <2>5. CASE \E e \in UserEvents, p \in Priorities : event_priority_set(t, e, p)
    BY <2>5, QuietCall, DelQuiet
  <2>6. CASE \/ OnceFails(t) \/ event_base_update_cache_time(t)
             \/ event_base_add_virtual_(t) \/ event_base_loopbreak(t)
             \/ event_base_loopcontinue(t) \/ event_base_del_virtual_(t)
    BY <2>6, QuietCall, DelQuiet
  <2>7. CASE event_callback_finalize_many_(t)
    BY <2>7, DelMany
  <2>8. CASE \E c \in Deferreds : \/ event_deferred_cb_schedule_(t, c)
                                  \/ event_deferred_cb_cancel_(t, c)
    BY <2>8, DelOtherCalls
  <2>9. ASSUME NEW c \in Deferreds, NEW p \in Priorities
        PROVE  ~event_deferred_cb_set_priority_(t, c, p)
    BY DEF CarefulProgram, event_deferred_cb_set_priority_
  <2> QED
    BY <1>5, <2>1, <2>2, <2>3, <2>4, <2>5, <2>6, <2>7, <2>8, <2>9 DEF Call
<1>6. \A t \in Threads : ~SpuriousWakeup(t)
  BY DEF SpuriousWakeup
<1>7. CASE Tick \/ \E e \in IOEvents : DescriptorChanges(e)
  BY <1>7, QuietClosure, DelQuiet
<1> QED
  BY <1>1, <1>2, <1>3, <1>4, <1>5, <1>6, <1>7 DEF Next

(* No promise was made when event_base_new returns.                        *)
LEMMA InitDel ==
    ASSUME Init
    PROVE  DelSafeInv
BY DEF Init, DelSafeInv, DelSafe, IdleCall
=============================================================================
