----------------------- MODULE EventBaseTheorems_proofs ---------------------
(***************************************************************************)
(* The theorems about an event base, for any number of events, deferred    *)
(* callbacks, priorities and threads.  Each follows from an invariant that *)
(* every step of EventBase preserves.  The modules that this one extends   *)
(* show so, from the laws of the event_queue_* functions; here the laws    *)
(* are established and the conclusions drawn.                              *)
(***************************************************************************)
EXTENDS Parts_proofs, EventBase_proofs, EventBaseDel_proofs,
        EventBaseFinalize_proofs, EventBaseWake_proofs

(* Zenon, unless a step cites another prover. *)
USE Zenon

-----------------------------------------------------------------------------
(* The event_queue_* functions keep the queues, the flags and the counters *)
(* in step.                                                                *)
LEMMA QueueLawsHold == QueueLaws
<1>1. Cardinality({}) = 0
  BY FS_EmptySet
<1>2. ASSUME NEW qq, QueuesOK(qq), qq.event_count_active = 0
      PROVE  ActiveCallbacks(qq) = {}
  <2>1. IsFiniteSet(ActiveCallbacks(qq))
    BY CallbacksAssumption, FS_Subset DEF ActiveCallbacks
  <2> QED
    BY <1>2, <2>1, FS_EmptySet DEF QueuesOK, CountersMatchFlags
<1>3. ASSUME NEW qq, QueuesOK(qq), qq.active_later_queue # <<>>
      PROVE  LaterLaw(qq)
  BY <1>3, MakeLaterActive DEF LaterLaw
<1>4. ASSUME NEW qq, QueuesOK(qq), NEW c \in Callbacks
      PROVE  FlagLaws(qq, c)
  <2>1. qq.flags \in [Callbacks -> SUBSET Flags]
    BY <1>4 DEF QueuesOK, BookkeepingType
  <2>2. ASSUME NEW rr, QueuesOK(rr), NEW F, rr.flags = [qq.flags EXCEPT ![c] = F]
        PROVE  Writes(qq, rr, c, F)
    BY <2>1, <2>2 DEF Writes, FlagsBut
  <2>3. /\ "INSERTED" \notin qq.flags[c] =>
              Writes(qq, event_queue_insert_inserted(qq, c), c, qq.flags[c] \cup {"INSERTED"})
        /\ "INSERTED" \in qq.flags[c] =>
              Writes(qq, event_queue_remove_inserted(qq, c), c, qq.flags[c] \ {"INSERTED"})
    BY <1>4, <2>2, InsertInserted, RemoveInserted
  <2>4. /\ "TIMEOUT" \notin qq.flags[c] =>
              Writes(qq, event_queue_insert_timeout(qq, c), c, qq.flags[c] \cup {"TIMEOUT"})
        /\ "TIMEOUT" \in qq.flags[c] =>
              Writes(qq, event_queue_remove_timeout(qq, c), c, qq.flags[c] \ {"TIMEOUT"})
    BY <1>4, <2>2, InsertTimeout, RemoveTimeout
  <2>5. /\ qq.flags[c] \cap {"ACTIVE", "ACTIVE_LATER"} = {} =>
              Writes(qq, event_queue_insert_active(qq, c), c, qq.flags[c] \cup {"ACTIVE"})
        /\ "ACTIVE" \in qq.flags[c] =>
              Writes(qq, event_queue_remove_active(qq, c), c, qq.flags[c] \ {"ACTIVE"})
    BY <1>4, <2>2, InsertActive, RemoveActive
  <2>6. /\ qq.flags[c] \cap {"ACTIVE", "ACTIVE_LATER"} = {} =>
              Writes(qq, event_queue_insert_active_later(qq, c), c,
                     qq.flags[c] \cup {"ACTIVE_LATER"})
        /\ "ACTIVE_LATER" \in qq.flags[c] =>
              Writes(qq, event_queue_remove_active_later(qq, c), c,
                     qq.flags[c] \ {"ACTIVE_LATER"})
    BY <1>4, <2>2, InsertActiveLater, RemoveActiveLater
  <2> QED
    BY <2>3, <2>4, <2>5, <2>6 DEF FlagLaws
<1> QED
  BY <1>1, <1>2, <1>3, <1>4 DEF QueueLaws

(* The inductive invariant holds at all times.                             *)
LEMMA Invariant ==
    ASSUME CarefulProgram
    PROVE  Spec => []Inv
<1>1. Init => Inv
  BY QueueLawsHold, InitIInv
<1>2. Inv /\ [Next]_vars => Inv'
  BY NextIInv
<1> QED
  BY <1>1, <1>2, PTL DEF Spec

(* th_base_lock is held as LockInv says at all times.                      *)
LEMMA LockInvariant ==
    ASSUME CarefulProgram
    PROVE  Spec => []LockInv
<1>1. Init => LockInv
  BY InitLock
<1>2. Inv /\ LockInv /\ [Next]_vars => LockInv'
  BY NextLock
<1> QED
  BY <1>1, <1>2, Invariant, PTL DEF Spec

-----------------------------------------------------------------------------
(* Type correctness of the whole model, every value the loop, the calls    *)
(* and the history take included, for every instance of the constants that *)
(* is a careful program: event_priority_set is called only on events that  *)
(* no other thread makes calls on.                                         *)
THEOREM TypesHold ==
    ASSUME CarefulProgram
    PROVE  Spec => []TypeOK
<1>1. Inv => TypeOK
  BY DEF Inv, IInv, StateInv, LoopInv, CallsInv, QueuesOK, TypeOK
<1> QED
  BY <1>1, Invariant, PTL

(* The assertions of event_base_assert_ok_nolock_ hold at all times, the   *)
(* counters count what is queued and no event_queue_* function meets a     *)
(* callback in the wrong state, whatever the threads of a careful program  *)
(* call and however their calls interleave with the loop.                  *)
THEOREM BookkeepingHolds ==
    ASSUME CarefulProgram
    PROVE  Spec => []AssertOk
<1>1. Inv => AssertOk
  BY DEF Inv, IInv, StateInv, QueuesOK, AssertOk
<1> QED
  BY <1>1, Invariant, PTL

-----------------------------------------------------------------------------
(* event_del keeps its promise, for any number of threads, events and      *)
(* deferred callbacks: once it has returned, and until the program adds or *)
(* activates the event again, the callback does not run and is in no       *)
(* queue.  It is proved of careful programs and of a condition variable    *)
(* without spurious wakeups, for which event_del_nolock_ does not wait     *)
(* again.                                                                  *)
THEOREM DelIsSafe ==
    ASSUME CarefulProgram, "spurious" \notin Faults
    PROVE  Spec => []DelSafe
<1>1. Init => DelSafeInv
  BY InitDel
<1>2. Inv /\ DelSafeInv /\ [Next]_vars => DelSafeInv'
  BY NextDel
<1>3. DelSafeInv => DelSafe
  BY DEF DelSafeInv
<1> QED
  BY <1>1, <1>2, <1>3, Invariant, PTL DEF Spec

-----------------------------------------------------------------------------
(* Once the finalizer of an event, or of the callbacks that a bufferevent  *)
(* gives up together, was called, the base refers to none of them, for any *)
(* number of callbacks, priorities and threads, spurious wakeups included: *)
(* the finalizer may free their memory.                                    *)
THEOREM FinalizedStaysGone ==
    ASSUME CarefulProgram, CarefulGroup
    PROVE  Spec => []FinalizedIsGone
<1>1. Init => FinalizeInvariant
  BY InitFin
<1>2. Inv /\ LockInv /\ FinalizeInvariant /\ [Next]_vars => FinalizeInvariant'
  BY NextFin
<1>3. FinalizeInvariant => FinalizedIsGone
  BY FinIsEnough
<1> QED
  BY <1>1, <1>2, <1>3, Invariant, LockInvariant, PTL DEF Spec

-----------------------------------------------------------------------------
(* The loop is never asleep while something waits for it, for any number   *)
(* of threads, events, priorities and timeouts: whatever the program does  *)
(* while the loop is in epoll_wait leaves it nothing to do or makes the    *)
(* eventfd readable, and with nothing left to wait for it does not poll.   *)
THEOREM NoWakeupIsLost ==
    ASSUME CarefulProgram
    PROVE  Spec => []NoLostWakeup
<1>1. Init => WakeInv
  BY InitWake
<1>2. Inv /\ LockInv /\ WakeInv /\ [Next]_vars => WakeInv'
  BY NextWake
<1>3. Inv /\ WakeInv => NoLostWakeup
  BY WakeIsEnough
<1> QED
  BY <1>1, <1>2, <1>3, Invariant, LockInvariant, PTL DEF Spec

(* epoll_wait never lasts longer than the earliest timer, by more than the *)
(* age of the cached time it was computed from, unless the eventfd is      *)
(* readable: event_add and event_del of a timer by another thread wake the *)
(* loop whenever its timeout has become too long, or it has none.          *)
THEOREM PollIsInTime ==
    ASSUME CarefulProgram
    PROVE  Spec => []PollEndsInTime
<1>1. Init => WakeInv
  BY InitWake
<1>2. Inv /\ LockInv /\ WakeInv /\ [Next]_vars => WakeInv'
  BY NextWake
<1>3. Inv /\ WakeInv => PollEndsInTime
  BY WakeIsEnough
<1> QED
  BY <1>1, <1>2, <1>3, Invariant, LockInvariant, PTL DEF Spec
=============================================================================
