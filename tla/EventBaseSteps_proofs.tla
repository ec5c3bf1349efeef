----------------------- MODULE EventBaseSteps_proofs ------------------------
(***************************************************************************)
(* What the functions of event.c do to the callback they work on, and that *)
(* they leave every other one alone.  Then what each step of the base      *)
(* does: which callback it works on, and what stays as it was.             *)
(***************************************************************************)
EXTENDS EventBaseOps_proofs

(* Zenon, unless a step cites another prover. *)
USE Zenon

-----------------------------------------------------------------------------
(* A function of event.c that works on callback e leaves the flags and the *)
(* fields of every other one alone, and these fields of the base.          *)
SameBase(b, c) ==
    /\ c.current_event = b.current_event
    /\ c.running_loop = b.running_loop
    /\ c.event_break = b.event_break
    /\ c.event_running_priority = b.event_running_priority
    /\ c.virtual_event_count = b.virtual_event_count

Effect(s, r, e) ==
    /\ FlagsBut(s.q, r.q, e)
    /\ \A x \in Callbacks \ {e} : r.ev[x] = s.ev[x]
    /\ SameBase(s.base, r.base)

(* Doing nothing has no effect.                                            *)
LEMMA EffectRefl ==
    ASSUME NEW s, NEW e
    PROVE  Effect(s, s, e)
BY DEF Effect, FlagsBut, SameBase

(* Effects on the same callback compose.                                   *)
LEMMA EffectTrans ==
    ASSUME NEW s1, NEW s2, NEW s3, NEW e, Effect(s1, s2, e), Effect(s2, s3, e)
    PROVE  Effect(s1, s3, e)
BY DEF Effect, FlagsBut, SameBase

(* Writing other fields of the base has no effect.                         *)
LEMMA EffectBase ==
    ASSUME NEW s, Sound(s), NEW b \in BaseType, SameBase(s.base, b), NEW e
    PROVE  Effect(s, [s EXCEPT !.base = b], e)
BY WithBase DEF Effect, FlagsBut

(* Writing the flags of e is an effect on e,                               *)
LEMMA EffectQueues ==
    ASSUME NEW s, Sound(s), NEW qq, QueuesOK(qq), NEW e, FlagsBut(s.q, qq, e)
    PROVE  Effect(s, [s EXCEPT !.q = qq], e)
BY WithQueues DEF Effect, SameBase

(* and so is writing its fields.                                           *)
LEMMA EffectEvents ==
    ASSUME NEW s, Sound(s), NEW e \in Callbacks, NEW v \in EventType
    PROVE  LET x == [s.ev EXCEPT ![e] = v]
           IN  x \in [Callbacks -> EventType] /\ Effect(s, [s EXCEPT !.ev = x], e)
<1>1. s.ev \in [Callbacks -> EventType]
  BY SoundParts
<1>2. PICK x \in [Callbacks -> EventType] : x = [s.ev EXCEPT ![e] = v]
  BY <1>1
<1>3. \A y \in Callbacks \ {e} : x[y] = s.ev[y]
  BY <1>1, <1>2
<1>4. PICK r : r = [s EXCEPT !.ev = x]
  OBVIOUS
<1>5. r.q = s.q /\ r.ev = x /\ r.base = s.base
  BY <1>4, WithEvents
<1> QED
  BY <1>2, <1>3, <1>4, <1>5 DEF Effect, FlagsBut, SameBase

(* evthread_notify_base has no effect.                                     *)
LEMMA EffectNotify ==
    ASSUME NEW s, Sound(s), NEW t, NEW e
    PROVE  Effect(s, evthread_notify_base(s, t), e)
<1>1. PICK b : b = [s.base EXCEPT !.is_notify_pending = TRUE, !.th_notify_fd = 1]
  OBVIOUS
<1>2. b \in BaseType /\ SameBase(s.base, b)
  <2>1. s.base \in BaseType
    BY SoundParts
  <2>2. b \in BaseType
    BY <1>1, <2>1 DEF BaseType
  <2>3. SameBase(s.base, b)
    BY <1>1, <2>1 DEF BaseType, SameBase
  <2> QED
    BY <2>2, <2>3
<1>3. [s EXCEPT !.base.is_notify_pending = TRUE, !.base.th_notify_fd = 1] = [s EXCEPT !.base = b]
  BY <1>1, SoundParts DEF Sound, StateType, BaseType
<1> QED
  BY <1>2, <1>3, EffectBase, EffectRefl DEF evthread_notify_base

(* `*ev->ev_pncalls = 0' has no effect.                                    *)
LEMMA EffectAbortLoop ==
    ASSUME NEW s, Sound(s), NEW e, NEW c
    PROVE  Effect(s, AbortLoop(s, e), c)
<1>1. PICK b : b = [s.base EXCEPT !.closure_ncalls = 0]
  OBVIOUS
<1>2. b \in BaseType /\ SameBase(s.base, b)
  BY <1>1, SoundParts, SMT DEF BaseType, SameBase
<1> QED
  BY <1>1, <1>2, EffectBase, EffectRefl DEF AbortLoop

-----------------------------------------------------------------------------
(* The flags F after activating, deleting and cancelling callback c.       *)
Activated(F) == IF "FINALIZING" \in F THEN F ELSE (F \ {"ACTIVE_LATER"}) \cup {"ACTIVE"}
Deleted(F) == IF "FINALIZING" \in F THEN F ELSE F \ QueueFlags
Cancelled(c, F) ==
    IF c \in LoopEvents THEN Deleted(F)
    ELSE IF "FINALIZING" \in F THEN F ELSE F \ {"ACTIVE", "ACTIVE_LATER"}

(* event_callback_activate_nolock_ works on its callback only.             *)
LEMMA EffectActivate ==
    ASSUME NEW s, Sound(s), NEW t, NEW c \in Callbacks
    PROVE  /\ Effect(s, event_callback_activate_nolock_(s, t, c), c)
           /\ event_callback_activate_nolock_(s, t, c).q.flags[c]
                 = Activated(s.q.flags[c])
           /\ event_callback_activate_nolock_(s, t, c).ev = s.ev
<1> DEFINE q1 == IF "ACTIVE_LATER" \in s.q.flags[c]
                 THEN event_queue_remove_active_later(s.q, c) ELSE s.q
           q2 == event_queue_insert_active(q1, c)
           s1 == [s EXCEPT !.q = q2]
<1>0. QueueLaws /\ QueuesOK(s.q) /\ s.q.flags \in [Callbacks -> SUBSET Flags]
  BY SoundParts
<1>3. ~({"ACTIVE", "ACTIVE_LATER"} \subseteq s.q.flags[c])
  BY <1>0 DEF QueuesOK, QueuesMatchFlags
<1>1. CASE s.q.flags[c] \cap {"FINALIZING", "ACTIVE"} # {}
  <2>1. event_callback_activate_nolock_(s, t, c) = s
    BY <1>1 DEF event_callback_activate_nolock_
  <2>2. "FINALIZING" \notin s.q.flags[c]
          => s.q.flags[c] = (s.q.flags[c] \ {"ACTIVE_LATER"}) \cup {"ACTIVE"}
    BY <1>0, <1>1, <1>3
  <2> QED
    BY <2>1, <2>2, EffectRefl DEF Activated
<1>2. CASE s.q.flags[c] \cap {"FINALIZING", "ACTIVE"} = {}
  <2>1. Writes(s.q, q1, c, s.q.flags[c] \ {"ACTIVE_LATER"})
    BY <1>0, QueueFlagOps, SMT DEF Writes, FlagsBut
  <2>5. event_callback_activate_nolock_(s, t, c) = evthread_notify_base(s1, t)
    BY <1>2 DEF event_callback_activate_nolock_
  <2> HIDE DEF q1
  <2>2. Writes(q1, q2, c, q1.flags[c] \cup {"ACTIVE"})
    BY <1>0, <1>2, <2>1, QueueFlagOps, SMT DEF Writes
  <2> HIDE DEF q2
  <2>3. Writes(s.q, q2, c, (s.q.flags[c] \ {"ACTIVE_LATER"}) \cup {"ACTIVE"})
    BY <2>1, <2>2 DEF Writes, FlagsBut
  <2>4. Sound(s1) /\ s1.q = q2 /\ s1.ev = s.ev /\ Effect(s, s1, c)
    BY <2>3, WithQueues, EffectQueues DEF Writes
  <2> HIDE DEF s1
  <2>6. /\ Effect(s1, evthread_notify_base(s1, t), c)
        /\ evthread_notify_base(s1, t).q = s1.q /\ evthread_notify_base(s1, t).ev = s1.ev
    BY <2>4, EffectNotify, NotifyBase
  <2>7. Effect(s, evthread_notify_base(s1, t), c)
    BY <2>4, <2>6, EffectTrans
  <2> QED
    BY <1>2, <2>3, <2>4, <2>5, <2>6, <2>7 DEF Writes, Activated
<1> QED
  BY <1>1, <1>2

(* event_callback_activate_later_nolock_ works on its callback only.       *)
LEMMA EffectActivateLater ==
    ASSUME NEW s, Sound(s), NEW t, NEW c \in Callbacks
    PROVE  /\ Effect(s, event_callback_activate_later_nolock_(s, t, c), c)
           /\ event_callback_activate_later_nolock_(s, t, c).ev = s.ev
           /\ event_callback_activate_later_nolock_(s, t, c).q.flags[c]
                 = IF "ACTIVE" \in s.q.flags[c] THEN s.q.flags[c]
                   ELSE s.q.flags[c] \cup {"ACTIVE_LATER"}
<1> DEFINE q2 == event_queue_insert_active_later(s.q, c)
           s1 == [s EXCEPT !.q = q2]
<1>0. QueueLaws /\ QueuesOK(s.q) /\ s.q.flags \in [Callbacks -> SUBSET Flags]
  BY SoundParts
<1>1. CASE s.q.flags[c] \cap {"ACTIVE", "ACTIVE_LATER"} # {}
  <2>1. event_callback_activate_later_nolock_(s, t, c) = s
    BY <1>1 DEF event_callback_activate_later_nolock_
  <2> QED
    BY <1>0, <1>1, <2>1, EffectRefl
<1>2. CASE s.q.flags[c] \cap {"ACTIVE", "ACTIVE_LATER"} = {}
  <2>1. Writes(s.q, q2, c, s.q.flags[c] \cup {"ACTIVE_LATER"})
    BY <1>0, <1>2, QueueFlagOps
  <2>2. event_callback_activate_later_nolock_(s, t, c) = evthread_notify_base(s1, t)
    BY <1>2 DEF event_callback_activate_later_nolock_
  <2> HIDE DEF q2
  <2>4. Sound(s1) /\ s1.q = q2 /\ s1.ev = s.ev /\ Effect(s, s1, c)
    BY <2>1, WithQueues, EffectQueues DEF Writes
  <2> HIDE DEF s1
  <2>6. /\ Effect(s1, evthread_notify_base(s1, t), c)
        /\ evthread_notify_base(s1, t).q = s1.q /\ evthread_notify_base(s1, t).ev = s1.ev
    BY <2>4, EffectNotify, NotifyBase
  <2>7. Effect(s, evthread_notify_base(s1, t), c)
    BY <2>4, <2>6, EffectTrans
  <2> QED
    BY <1>2, <2>1, <2>2, <2>4, <2>6, <2>7 DEF Writes
<1> QED
  BY <1>1, <1>2

(* The first half of event_active_nolock_ works on its event only.         *)
LEMMA EffectActiveRes ==
    ASSUME NEW s, Sound(s), NEW e \in Callbacks, NEW res \in SUBSET {"EV_TIMEOUT"}
    PROVE  Effect(s, ActiveRes(s, e, res), e) /\ ActiveRes(s, e, res).q = s.q
<1> DEFINE was == s.q.flags[e] \cap {"ACTIVE", "ACTIVE_LATER"}
           v == [s.ev[e] EXCEPT !.res = IF was = {} THEN res ELSE @ \cup res]
           x == [s.ev EXCEPT ![e] = v]
           b == [s.base EXCEPT !.event_continue =
                      @ \/ /\ "ACTIVE" \notin was
                           /\ s.q.pri[e] < s.base.event_running_priority]
           s1 == [s EXCEPT !.ev = x]
           s2 == [s1 EXCEPT !.base = b]
<1>1. v \in EventType
  BY SoundParts, SMT DEF EventType
<1>2. b \in BaseType /\ SameBase(s.base, b)
  <2>1. PICK w \in BOOLEAN :
          w = (s.base.event_continue
               \/ /\ "ACTIVE" \notin s.q.flags[e] \cap {"ACTIVE", "ACTIVE_LATER"}
                  /\ s.q.pri[e] < s.base.event_running_priority)
    OBVIOUS
  <2>2. b = [s.base EXCEPT !.event_continue = w]
    BY <2>1
  <2> HIDE DEF b
  <2> QED
    BY <2>2, SoundParts, SMT DEF BaseType, SameBase
<1>3. ActiveRes(s, e, res) = s2
  BY SoundParts DEF ActiveRes, Sound, StateType
<1> HIDE DEF v, b
<1>4. Effect(s, s1, e) /\ Sound(s1) /\ s1.q = s.q /\ s1.base = s.base
  BY <1>1, EffectEvents, WithEvents
<1> HIDE DEF s1
<1>5. Effect(s1, s2, e) /\ s2.q = s1.q
  BY <1>2, <1>4, EffectBase, WithBase
<1> QED
  BY <1>3, <1>4, <1>5, EffectTrans

(* The second half of event_active_nolock_ works on its event only.        *)
LEMMA EffectActiveInsert ==
    ASSUME NEW s, Sound(s), NEW t, NEW e \in Callbacks, NEW ncalls \in Int
    PROVE  /\ Effect(s, ActiveInsert(s, t, e, ncalls), e)
           /\ ActiveInsert(s, t, e, ncalls).q.flags[e]
                 = Activated(s.q.flags[e])
<1> DEFINE v == [s.ev[e] EXCEPT !.ncalls = ncalls, !.pncalls = FALSE]
           x == [s.ev EXCEPT ![e].ncalls = ncalls, ![e].pncalls = FALSE]
           s1 == IF e \in SigEvents THEN [s EXCEPT !.ev = x] ELSE s
<1>1. v \in EventType
  <2>1. PICK w : w = s.ev[e]
    OBVIOUS
  <2>2. w \in EventType
    BY <2>1, SoundParts
  <2> QED
    BY <2>1, <2>2 DEF EventType
<1>2. ActiveInsert(s, t, e, ncalls) = event_callback_activate_nolock_(s1, t, e)
  <2>1. [s EXCEPT !.ev[e].ncalls = ncalls, !.ev[e].pncalls = FALSE] = [s EXCEPT !.ev = x]
    BY SoundParts DEF Sound, StateType, EventType
  <2> QED
    BY <2>1 DEF ActiveInsert
<1>5. x = [s.ev EXCEPT ![e] = v]
  BY SoundParts
<1> HIDE DEF v, x
<1>3. Effect(s, s1, e) /\ Sound(s1) /\ s1.q = s.q
  BY <1>1, <1>5, EffectEvents, EffectRefl, WithEvents, SMT
<1> HIDE DEF s1
<1>4. Effect(s1, event_callback_activate_nolock_(s1, t, e), e)
  BY <1>3, EffectActivate
<1>6. event_callback_activate_nolock_(s1, t, e).q.flags[e]
        = Activated(s.q.flags[e])
  BY <1>3, EffectActivate, SMT
<1>7. Effect(s, event_callback_activate_nolock_(s1, t, e), e)
  BY <1>3, <1>4, EffectTrans
<1> QED
  BY <1>2, <1>6, <1>7

(* event_active_nolock_ works on its event only.                           *)
LEMMA EffectActive ==
    ASSUME NEW s, Sound(s), NEW t, NEW e \in Callbacks,
           NEW res \in SUBSET {"EV_TIMEOUT"}, NEW ncalls \in Int
    PROVE  /\ Effect(s, event_active_nolock_(s, t, e, res, ncalls), e)
           /\ s.q.flags[e] \cap {"FINALIZING", "ACTIVE"} = {} =>
                 event_active_nolock_(s, t, e, res, ncalls).q.flags[e]
                    = (s.q.flags[e] \ {"ACTIVE_LATER"}) \cup {"ACTIVE"}
<1> DEFINE a == ActiveRes(s, e, res)
<1>1. Effect(s, a, e) /\ Sound(a) /\ a.q = s.q
  BY EffectActiveRes, OkActiveRes DEF Ok
<1>4. event_active_nolock_(s, t, e, res, ncalls)
        = IF "FINALIZING" \in s.q.flags[e] THEN s
          ELSE IF "ACTIVE" \in s.q.flags[e] THEN a
          ELSE ActiveInsert(a, t, e, ncalls)
  BY DEF event_active_nolock_
<1> HIDE DEF a
<1>2. Effect(s, ActiveInsert(a, t, e, ncalls), e)
  BY <1>1, EffectActiveInsert, EffectTrans
<1>3. "FINALIZING" \notin s.q.flags[e] =>
        ActiveInsert(a, t, e, ncalls).q.flags[e]
          = (s.q.flags[e] \ {"ACTIVE_LATER"}) \cup {"ACTIVE"}
  <2>1. ActiveInsert(a, t, e, ncalls).q.flags[e]
          = Activated(a.q.flags[e])
    BY <1>1, EffectActiveInsert
  <2> QED
    BY <1>1, <2>1 DEF Activated
<1>5. Effect(s, event_active_nolock_(s, t, e, res, ncalls), e)
  BY <1>1, <1>2, <1>4, EffectRefl
<1> QED
  BY <1>3, <1>4, <1>5

(* The body of event_del_nolock_ works on its event only, and leaves it    *)
(* on no queue.                                                            *)
LEMMA EffectDelBody ==
    ASSUME NEW s, Sound(s), NEW t, NEW e \in Callbacks
    PROVE  /\ Effect(s, DelBody(s, t, e), e)
           /\ DelBody(s, t, e).q.flags[e] = s.q.flags[e] \ QueueFlags
           /\ DelBody(s, t, e).ev = s.ev
<1> DEFINE a == AbortLoop(s, e)
           d == DelQueues(a.q, e)
           s1 == [a EXCEPT !.q = d]
<1>1. Effect(s, a, e) /\ Sound(a) /\ a.q = s.q /\ a.ev = s.ev
  BY EffectAbortLoop, OkAbortLoop DEF Ok
<1>2. DelBody(s, t, e) = IF "INSERTED" \in s.q.flags[e]
                         THEN evthread_notify_base(s1, t) ELSE s1
  BY DEF DelBody
<1> HIDE DEF a
<1>3. Writes(a.q, d, e, a.q.flags[e] \ QueueFlags)
  BY <1>1, DelQueuesFlags DEF Sound
<1> HIDE DEF d
<1>4. Effect(a, s1, e) /\ Sound(s1) /\ s1.q = d /\ s1.ev = a.ev
  BY <1>1, <1>3, EffectQueues, WithQueues, SMT DEF Writes
<1> HIDE DEF s1
<1>5. /\ Effect(s1, evthread_notify_base(s1, t), e)
      /\ evthread_notify_base(s1, t).q = s1.q /\ evthread_notify_base(s1, t).ev = s1.ev
  BY <1>4, EffectNotify, NotifyBase
<1>6. Effect(s, s1, e) /\ Effect(s, evthread_notify_base(s1, t), e)
  BY <1>1, <1>4, <1>5, EffectTrans
<1>7. s1.q.flags[e] = s.q.flags[e] \ QueueFlags
  BY <1>1, <1>3, <1>4 DEF Writes
<1> QED
  BY <1>1, <1>2, <1>4, <1>5, <1>6, <1>7

(* event_del_nolock_ works on its event only; unless the event is being    *)
(* finalized it is then on no queue.                                       *)
LEMMA EffectDel ==
    ASSUME NEW s, Sound(s), NEW t, NEW e \in Callbacks
    PROVE  /\ Effect(s, event_del_nolock_(s, t, e), e)
           /\ event_del_nolock_(s, t, e).ev = s.ev
           /\ event_del_nolock_(s, t, e).q.flags[e]
                 = Deleted(s.q.flags[e])
<1>1. CASE "FINALIZING" \in s.q.flags[e]
  <2>1. event_del_nolock_(s, t, e) = s
    BY <1>1 DEF event_del_nolock_
  <2> QED
    BY <1>1, <2>1, EffectRefl DEF Deleted
<1>2. CASE "FINALIZING" \notin s.q.flags[e]
  <2>1. event_del_nolock_(s, t, e) = DelBody(s, t, e)
    BY <1>2 DEF event_del_nolock_
  <2> QED
    BY <1>2, <2>1, EffectDelBody, SMT DEF Deleted
<1> QED
  BY <1>1, <1>2

(* event_callback_cancel_nolock_ works on its callback only, and takes     *)
(* flags away from it.                                                     *)
LEMMA EffectCancel ==
    ASSUME NEW s, Sound(s), NEW t, NEW c \in Callbacks
    PROVE  /\ Effect(s, event_callback_cancel_nolock_(s, t, c), c)
           /\ event_callback_cancel_nolock_(s, t, c).ev = s.ev
           /\ event_callback_cancel_nolock_(s, t, c).q.flags[c]
                 = Cancelled(c, s.q.flags[c])
<1> DEFINE r == event_callback_cancel_nolock_(s, t, c)
<1>0. QueueLaws /\ QueuesOK(s.q) /\ s.q.flags \in [Callbacks -> SUBSET Flags]
  BY SoundParts
<1>3. ~({"ACTIVE", "ACTIVE_LATER"} \subseteq s.q.flags[c])
  BY <1>0 DEF QueuesOK, QueuesMatchFlags
<1>1. CASE c \in LoopEvents
  <2>1. r = event_del_nolock_(s, t, c)
    BY <1>1 DEF event_callback_cancel_nolock_
  <2> QED
    BY <1>1, <2>1, EffectDel, SMT DEF Cancelled
<1>2. CASE c \notin LoopEvents
  <2>1. CASE "FINALIZING" \in s.q.flags[c]
    <3>1. r = s
      BY <1>2, <2>1 DEF event_callback_cancel_nolock_
    <3> QED
      BY <1>2, <2>1, <3>1, EffectRefl DEF Cancelled
  <2>2. ASSUME "FINALIZING" \notin s.q.flags[c], NEW qq, r = [s EXCEPT !.q = qq],
               Writes(s.q, qq, c, s.q.flags[c] \ {"ACTIVE", "ACTIVE_LATER"})
        PROVE  Effect(s, r, c) /\ r.ev = s.ev
               /\ r.q.flags[c] = s.q.flags[c] \ {"ACTIVE", "ACTIVE_LATER"}
    BY <2>2, EffectQueues, WithQueues, SMT DEF Writes
  <2>3. CASE "FINALIZING" \notin s.q.flags[c] /\ "ACTIVE" \in s.q.flags[c]
    <3>1. Writes(s.q, event_queue_remove_active(s.q, c), c,
                 s.q.flags[c] \ {"ACTIVE", "ACTIVE_LATER"})
      <4>1. s.q.flags[c] \ {"ACTIVE"} = s.q.flags[c] \ {"ACTIVE", "ACTIVE_LATER"}
        BY <1>3, <2>3
      <4> QED
        BY <1>0, <2>3, <4>1, QueueFlagOps
    <3>2. r = [s EXCEPT !.q = event_queue_remove_active(s.q, c)]
      BY <1>2, <2>3 DEF event_callback_cancel_nolock_
    <3> QED
      BY <1>2, <2>2, <2>3, <3>1, <3>2 DEF Cancelled
  <2>4. CASE /\ "FINALIZING" \notin s.q.flags[c] /\ "ACTIVE" \notin s.q.flags[c]
             /\ "ACTIVE_LATER" \in s.q.flags[c]
    <3>1. Writes(s.q, event_queue_remove_active_later(s.q, c), c,
                 s.q.flags[c] \ {"ACTIVE", "ACTIVE_LATER"})
      <4>1. s.q.flags[c] \ {"ACTIVE_LATER"} = s.q.flags[c] \ {"ACTIVE", "ACTIVE_LATER"}
        BY <2>4
      <4> QED
        BY <1>0, <2>4, <4>1, QueueFlagOps
    <3>2. r = [s EXCEPT !.q = event_queue_remove_active_later(s.q, c)]
      BY <1>2, <2>4 DEF event_callback_cancel_nolock_
    <3> QED
      BY <1>2, <2>2, <2>4, <3>1, <3>2 DEF Cancelled
  <2>5. CASE s.q.flags[c] \cap {"FINALIZING", "ACTIVE", "ACTIVE_LATER"} = {}
    <3>1. r = s
      BY <1>2, <2>5 DEF event_callback_cancel_nolock_
    <3>2. s.q.flags[c] = s.q.flags[c] \ {"ACTIVE", "ACTIVE_LATER"}
      BY <2>5
    <3> QED
      BY <1>2, <2>5, <3>1, <3>2, EffectRefl DEF Cancelled
  <2> QED
    BY <2>1, <2>3, <2>4, <2>5
<1> QED
  BY <1>1, <1>2

(* event_add_nolock_ works on its event only.                              *)
LEMMA EffectAddBody ==
    ASSUME NEW s, Sound(s), NEW t, NEW e \in Callbacks, NEW tv \in Int,
           NEW tv_is_absolute \in BOOLEAN,
           ~tv_is_absolute => tv = NoTv \/ tv \in Nat
    PROVE  Effect(s, AddBody(s, t, e, tv, tv_is_absolute), e)
<1> DEFINE s1 == IF tv # NoTv /\ ActiveByTimeout(s, e) THEN AbortLoop(s, e) ELSE s
           q1 == AddQueues(s, e, tv)
           io == IF e \in Persist \ SigEvents /\ tv # NoTv /\ ~tv_is_absolute
                 THEN tv ELSE s1.ev[e].io_timeout
           to == IF tv = NoTv THEN s1.ev[e].timeout
                 ELSE IF tv_is_absolute THEN tv ELSE gettime(s) + tv
           v == [s1.ev[e] EXCEPT !.io_timeout = io, !.timeout = to]
           x == [s1.ev EXCEPT ![e].io_timeout = io, ![e].timeout = to]
           s2 == [s1 EXCEPT !.q = q1]
           s3 == [s2 EXCEPT !.ev = x]
           n3 == evthread_notify_base(s3, t)
<1>1. Effect(s, s1, e) /\ Sound(s1) /\ s1.q = s.q /\ s1.ev = s.ev
  BY EffectAbortLoop, OkAbortLoop, EffectRefl DEF Ok
<1>2. s1 \in StateType /\ s1.ev[e] \in EventType
  BY <1>1 DEF Sound, StateType
<1>3. AddBody(s, t, e, tv, tv_is_absolute) \in {s3, n3}
  <2> HIDE DEF s1
  <2> DEFINE s9 == [s1 EXCEPT
                !.q = AddQueues(s, e, tv),
                !.ev[e].io_timeout =
                    IF e \in Persist \ SigEvents /\ tv # NoTv /\ ~tv_is_absolute
                    THEN tv ELSE @,
                !.ev[e].timeout =
                    IF tv = NoTv THEN @
                    ELSE IF tv_is_absolute THEN tv ELSE gettime(s) + tv]
             notify == \/ AddsToMap(s, e)
                       \/ /\ tv # NoTv
                          /\ \/ min_heap_elt_is_top_(s9, e)
                             \/ \E f \in min_heap_tops(s9) :
                                   s9.ev[f].timeout < gettime(s)
  <2>1. AddBody(s, t, e, tv, tv_is_absolute)
          = IF notify THEN evthread_notify_base(s9, t) ELSE s9
    BY DEF AddBody, s1
  <2>2. s9 = s3
    BY <1>2 DEF StateType, EventType
  <2> QED
    BY <2>1, <2>2
<1> HIDE DEF s1
<1>4. io \in Nat /\ to \in Int
  BY <1>1, <1>2, gettimeType, SMT DEF EventType, NoTv
<1> HIDE DEF io, to
<1>5. v \in EventType
  <2>1. PICK w : w = s1.ev[e]
    OBVIOUS
  <2> QED
    BY <1>2, <1>4, <2>1 DEF EventType
<1>11. x = [s1.ev EXCEPT ![e] = v]
  BY <1>2 DEF StateType
<1> HIDE DEF v, x
<1>6. Effect(s1, s2, e) /\ Sound(s2) /\ s2.ev = s1.ev
  BY <1>1, AddQueuesFlags, EffectQueues, WithQueues, SoundParts
<1> HIDE DEF s2
<1>7. Effect(s2, s3, e) /\ Sound(s3)
  BY <1>5, <1>6, <1>11, EffectEvents, WithEvents
<1> HIDE DEF s3
<1>8. Effect(s3, n3, e)
  BY <1>7, EffectNotify
<1>9. Effect(s, s3, e)
  BY <1>1, <1>6, <1>7, EffectTrans
<1>10. Effect(s, n3, e)
  BY <1>8, <1>9, EffectTrans
<1> QED
  BY <1>3, <1>9, <1>10

(* event_persist_closure works on its event only.                          *)
LEMMA EffectPersist ==
    ASSUME NEW s, Sound(s), NEW e \in Callbacks
    PROVE  Effect(s, event_persist_closure(s, e), e)
<1> DEFINE now == gettime(s)
           delay == s.ev[e].io_timeout
           from == IF s.ev[e].res # {} THEN s.ev[e].timeout ELSE now
           run_at == IF from + delay < now THEN now + delay ELSE from + delay
<1>1. s.ev[e] \in EventType /\ now \in Int
  BY SoundParts, gettimeType
<1>2. run_at \in Int
  BY <1>1, SMT DEF EventType
<1>3. event_persist_closure(s, e) = IF delay = 0 THEN s ELSE AddBody(s, L, e, run_at, TRUE)
  BY DEF event_persist_closure
<1> HIDE DEF run_at, delay
<1>4. Effect(s, AddBody(s, L, e, run_at, TRUE), e)
  BY <1>2, EffectAddBody
<1> QED
  BY <1>3, <1>4, EffectRefl

(* Setting EVLIST_FINALIZING.                                              *)
LEMMA EffectSetFinalizing ==
    ASSUME NEW s, Sound(s), NEW c \in Callbacks
    PROVE  LET r == SetFinalizing(s, c)
           IN  /\ Effect(s, r, c) /\ r.ev = s.ev
               /\ r.q.flags[c] = s.q.flags[c] \cup {"FINALIZING"}
<1>1. s.q.flags \in [Callbacks -> SUBSET Flags] /\ QueuesOK(s.q)
  BY SoundParts
<1>2. PICK qq : qq = [s.q EXCEPT !.flags[c] = @ \cup {"FINALIZING"}]
  OBVIOUS
<1>3. QueuesOK(qq) /\ qq.flags = [s.q.flags EXCEPT ![c] = @ \cup {"FINALIZING"}]
  BY <1>1, <1>2, SetFinalizingFlag
<1>4. FlagsBut(s.q, qq, c) /\ qq.flags[c] = s.q.flags[c] \cup {"FINALIZING"}
  BY <1>1, <1>3 DEF FlagsBut
<1>5. PICK r : r = [s EXCEPT !.q = qq]
  OBVIOUS
<1>6. r.q = qq /\ r.ev = s.ev /\ Effect(s, r, c)
  BY <1>3, <1>4, <1>5, WithQueues, EffectQueues, SMT
<1>7. r = SetFinalizing(s, c)
  BY <1>2, <1>5 DEF SetFinalizing
<1> QED
  BY <1>4, <1>6, <1>7

(* Giving a callback its finalizer is an effect on it.                     *)
LEMMA EffectSetClosure ==
    ASSUME NEW s, Sound(s), NEW c \in Callbacks
    PROVE  LET r == [s EXCEPT !.ev[c].closure = "finalize"]
           IN  /\ Effect(s, r, c) /\ Sound(r) /\ r.q = s.q
               /\ r.ev[c].closure = "finalize"
<1>1. s.ev \in [Callbacks -> EventType]
  BY SoundParts
<1>2. PICK v : v = [s.ev[c] EXCEPT !.closure = "finalize"]
  OBVIOUS
<1>3. v \in EventType /\ v.closure = "finalize"
  BY <1>1, <1>2 DEF EventType
<1>4. PICK x : x = [s.ev EXCEPT ![c] = v]
  OBVIOUS
<1>5. x \in [Callbacks -> EventType] /\ x[c] = v
  BY <1>1, <1>3, <1>4
<1>6. PICK r : r = [s EXCEPT !.ev = x]
  OBVIOUS
<1>7. Effect(s, r, c) /\ Sound(r) /\ r.q = s.q /\ r.ev = x
  BY <1>3, <1>4, <1>5, <1>6, EffectEvents, WithEvents, SMTT(20)
<1>8. r = [s EXCEPT !.ev[c].closure = "finalize"]
  BY <1>2, <1>4, <1>6
<1> QED
  BY <1>3, <1>5, <1>7, <1>8

(* After event_finalize_nolock_ the finalizer is what is active.           *)
LEMMA EffectFinalize ==
    ASSUME NEW s, Sound(s), NEW t, NEW e \in Callbacks
    PROVE  LET r == event_finalize_nolock_(s, t, e)
           IN  /\ Effect(s, r, e) /\ r.ev[e].closure = "finalize"
               /\ "FINALIZING" \in r.q.flags[e]
               /\ "FINALIZING" \notin s.q.flags[e] =>
                     r.q.flags[e] \cap QueueFlags = {"ACTIVE"}
<1> DEFINE s1 == event_del_nolock_(s, t, e)
           s2 == [s1 EXCEPT !.ev[e].closure = "finalize"]
           s3 == event_active_nolock_(s2, t, e, {}, 1)
           s4 == SetFinalizing(s3, e)
<1>1. event_finalize_nolock_(s, t, e) = s4
  BY DEF event_finalize_nolock_, FinalizeDel
<1>2. Effect(s, s1, e) /\ Sound(s1) /\ s1.q.flags[e] = Deleted(s.q.flags[e])
  BY EffectDel, OkDel DEF Ok
<1> HIDE DEF s1
<1>3. Effect(s1, s2, e) /\ Sound(s2) /\ s2.q = s1.q /\ s2.ev[e].closure = "finalize"
  BY <1>2, EffectSetClosure
<1> HIDE DEF s2
<1>0. {} \in SUBSET {"EV_TIMEOUT"} /\ 1 \in Int
  BY SMT
<1>4. Effect(s2, s3, e) /\ Ok(s2, s3)
  BY <1>0, <1>3, EffectActive, OkActive
<1>5. ASSUME "FINALIZING" \notin s.q.flags[e]
      PROVE  /\ s3.q.flags[e] = (s2.q.flags[e] \ {"ACTIVE_LATER"}) \cup {"ACTIVE"}
             /\ s2.q.flags[e] \cap QueueFlags = {}
  <2>1. s2.q.flags[e] = s.q.flags[e] \ QueueFlags
    BY <1>2, <1>3, <1>5 DEF Deleted
  <2>2. s2.q.flags[e] \cap {"FINALIZING", "ACTIVE"} = {}
    BY <1>5, <2>1 DEF QueueFlags
  <2> QED
    BY <1>0, <1>3, <2>1, <2>2, EffectActive, SMTT(20)
<1> HIDE DEF s3
<1>6. Effect(s3, s4, e) /\ s4.ev = s3.ev /\ s4.q.flags[e] = s3.q.flags[e] \cup {"FINALIZING"}
  BY <1>4, EffectSetFinalizing DEF Ok
<1> HIDE DEF s4
<1>7. Effect(s, s4, e)
  BY <1>2, <1>3, <1>4, <1>6, EffectTrans
<1>8. s4.ev[e].closure = "finalize"
  BY <1>3, <1>4, <1>6 DEF Ok, SameFinal
<1>9. ASSUME "FINALIZING" \notin s.q.flags[e]
      PROVE  s4.q.flags[e] \cap QueueFlags = {"ACTIVE"}
  BY <1>5, <1>6, <1>9 DEF QueueFlags
<1> QED
  BY <1>1, <1>6, <1>7, <1>8, <1>9

(* After event_callback_finalize_nolock_ the finalizer is what is active.  *)
LEMMA EffectCallbackFinalize ==
    ASSUME NEW s, Sound(s), NEW t, NEW c \in Callbacks
    PROVE  LET r == event_callback_finalize_nolock_(s, t, c)
           IN  /\ Effect(s, r, c) /\ r.ev[c].closure = "finalize"
               /\ "FINALIZING" \in r.q.flags[c]
               /\ "FINALIZING" \notin s.q.flags[c]
                  /\ (c \notin LoopEvents => s.q.flags[c] \cap {"INSERTED", "TIMEOUT"} = {})
                    => r.q.flags[c] \cap QueueFlags = {"ACTIVE"}
<1> DEFINE s1 == event_callback_cancel_nolock_(s, t, c)
           s2 == [s1 EXCEPT !.ev[c].closure = "finalize"]
           s3 == event_callback_activate_nolock_(s2, t, c)
           s4 == SetFinalizing(s3, c)
<1>1. event_callback_finalize_nolock_(s, t, c) = s4
  BY DEF event_callback_finalize_nolock_
<1>2. /\ Effect(s, s1, c) /\ Sound(s1)
      /\ s1.q.flags[c] = Cancelled(c, s.q.flags[c])
  BY EffectCancel, OkCancel DEF Ok
<1> HIDE DEF s1
<1>3. Effect(s1, s2, c) /\ Sound(s2) /\ s2.q = s1.q /\ s2.ev[c].closure = "finalize"
  BY <1>2, EffectSetClosure
<1> HIDE DEF s2
<1>4. /\ Effect(s2, s3, c) /\ Sound(s3) /\ s3.ev = s2.ev
      /\ s3.q.flags[c] = Activated(s2.q.flags[c])
  BY <1>3, EffectActivate, OkActivate DEF Ok
<1> HIDE DEF s3
<1>6. Effect(s3, s4, c) /\ s4.ev = s3.ev /\ s4.q.flags[c] = s3.q.flags[c] \cup {"FINALIZING"}
  BY <1>4, EffectSetFinalizing
<1> HIDE DEF s4
<1>7. Effect(s, s4, c)
  BY <1>2, <1>3, <1>4, <1>6, EffectTrans
<1>9. ASSUME "FINALIZING" \notin s.q.flags[c],
             c \notin LoopEvents => s.q.flags[c] \cap {"INSERTED", "TIMEOUT"} = {}
      PROVE  s4.q.flags[c] \cap QueueFlags = {"ACTIVE"}
  <2>1. CASE c \in LoopEvents
    BY <1>2, <1>3, <1>4, <1>6, <1>9, <2>1 DEF QueueFlags, Activated, Deleted, Cancelled
  <2>2. CASE c \notin LoopEvents
    BY <1>2, <1>3, <1>4, <1>6, <1>9, <2>2 DEF QueueFlags, Activated, Cancelled
  <2> QED
    BY <2>1, <2>2
<1> QED
  BY <1>1, <1>3, <1>4, <1>6, <1>7, <1>9

(* Taking the first callback off its queue works on that callback only.    *)
LEMMA EffectDequeue ==
    ASSUME NEW s, Sound(s), NEW c \in Callbacks, "ACTIVE" \in s.q.flags[c]
    PROVE  /\ Effect(s, Dequeue(s, c), c) /\ Dequeue(s, c).ev = s.ev
           /\ Dequeue(s, c).q.flags[c] =
                 IF c \in Events \ Persist THEN Deleted(s.q.flags[c]) \ {"ACTIVE"}
                 ELSE s.q.flags[c] \ {"ACTIVE"}
<1>1. CASE c \in Events \ Persist /\ "FINALIZING" \notin s.q.flags[c]
  <2>1. Dequeue(s, c) = event_del_nolock_(s, L, c)
    BY <1>1 DEF Dequeue
  <2>2. /\ Effect(s, Dequeue(s, c), c) /\ Dequeue(s, c).ev = s.ev
        /\ Dequeue(s, c).q.flags[c] = Deleted(s.q.flags[c])
    BY <2>1, EffectDel, SMT
  <2>3. Deleted(s.q.flags[c]) = Deleted(s.q.flags[c]) \ {"ACTIVE"}
    BY <1>1 DEF Deleted, QueueFlags
  <2> QED
    BY <1>1, <2>2, <2>3
<1>2. CASE ~(c \in Events \ Persist /\ "FINALIZING" \notin s.q.flags[c])
  <2>1. PICK qq : qq = event_queue_remove_active(s.q, c)
    OBVIOUS
  <2>2. Writes(s.q, qq, c, s.q.flags[c] \ {"ACTIVE"})
    BY <2>1, SoundParts, QueueFlagOps
  <2>3. Dequeue(s, c) = [s EXCEPT !.q = qq]
    BY <1>2, <2>1 DEF Dequeue
  <2>4. /\ Effect(s, Dequeue(s, c), c) /\ Dequeue(s, c).ev = s.ev
        /\ Dequeue(s, c).q.flags[c] = s.q.flags[c] \ {"ACTIVE"}
    BY <2>2, <2>3, EffectQueues, WithQueues, SMT DEF Writes
  <2>5. c \in Events \ Persist => Deleted(s.q.flags[c]) = s.q.flags[c]
    BY <1>2 DEF Deleted
  <2> QED
    BY <2>4, <2>5
<1> QED
  BY <1>1, <1>2

(* The closure of c starts: a finalizer leaves no current event, and only  *)
(* the closure of a persistent event touches a queue.                      *)
LEMMA EffectStartClosure ==
    ASSUME NEW s, InOrder(s), NEW c \in Callbacks, loop.i \in Priorities,
           Finalizes(c) => "FINALIZING" \in s.q.flags[c]
    PROVE  LET r == StartClosure(s, c)
           IN  /\ FlagsBut(s.q, r.q, c) /\ SameFinal(s, r)
               /\ Finalizes(c) => r.base.current_event = NoCb
               /\ ~Finalizes(c) => r.base.current_event = c
               /\ Finalizes(c) \/ c \notin Persist => r.q.flags = s.q.flags
<1> DEFINE b1 == [s.base EXCEPT !.current_event = c, !.current_event_waiters = 0,
                                !.event_running_priority = loop.i]
           s1 == [s EXCEPT !.base.current_event = c,
                           !.base.current_event_waiters = 0,
                           !.base.event_running_priority = loop.i]
<1>1. /\ Sound(s) /\ s \in StateType /\ s.base \in BaseType
      /\ s.ev \in [Callbacks -> EventType] /\ QueuesOK(s.q)
  BY SoundParts DEF InOrder, Sound
<1>2. b1 \in BaseType /\ b1.current_event = c
  BY <1>1 DEF BaseType
<1>3. s1 = [s EXCEPT !.base = b1]
  BY <1>1 DEF StateType, BaseType
<1> HIDE DEF b1, s1
<1>4. InOrder(s1) /\ s1.q = s.q /\ s1.ev = s.ev /\ s1.base = b1 /\ s1 \in StateType
  BY <1>1, <1>2, <1>3, OkBase, OkInOrder, WithBase DEF InOrder, Sound
<1>8. SameFinal(s, s) /\ FlagsBut(s.q, s.q, c)
  BY DEF SameFinal, FlagsBut
<1>5. CASE Finalizes(c)
  <2> DEFINE b2 == [s1.base EXCEPT !.current_event = NoCb]
             r == [s1 EXCEPT !.base.current_event = NoCb,
                             !.q.fatal = @ \/ "FINALIZING" \notin s.q.flags[c]]
             r1 == [s1 EXCEPT !.base = b2]
  <2>1. StartClosure(s, c) = r
    BY <1>5 DEF StartClosure, s1
  <2>2. (s1.q.fatal \/ "FINALIZING" \notin s.q.flags[c]) = s1.q.fatal
    BY <1>4, <1>5, <1>1 DEF QueuesOK
  <2>3. r = r1
    <3>1. s1 \in StateType /\ s1.q \in BookkeepingType
      BY <1>4, SoundParts DEF InOrder, Sound
    <3>2. [s1.q EXCEPT !.fatal = @ \/ "FINALIZING" \notin s.q.flags[c]] = s1.q
      BY <2>2, <3>1 DEF BookkeepingType
    <3> QED
      BY <3>1, <3>2 DEF StateType
  <2>4. b2 \in BaseType /\ b2.current_event = NoCb
    BY <1>2, <1>4 DEF BaseType
  <2> HIDE DEF b2, r
  <2>5. r1.q = s.q /\ r1.ev = s.ev /\ r1.base = b2
    BY <1>4, <2>4, WithBase DEF InOrder
  <2> QED
    BY <1>5, <1>8, <2>1, <2>3, <2>4, <2>5 DEF SameFinal
<1>6. CASE ~Finalizes(c) /\ c \in SigEvents
  <2> DEFINE r == [s1 EXCEPT !.base.closure_ncalls = s.ev[c].ncalls,
                             !.ev[c].pncalls = @ \/ s.ev[c].ncalls # 0]
             b2 == [s1.base EXCEPT !.closure_ncalls = s.ev[c].ncalls]
             x == [s1.ev EXCEPT ![c].pncalls = @ \/ s.ev[c].ncalls # 0]
             r1 == [s1 EXCEPT !.base = b2]
             r2 == [r1 EXCEPT !.ev = x]
  <2>1. StartClosure(s, c) = r
    BY <1>6 DEF StartClosure, s1
  <2>2. b2 \in BaseType /\ b2.current_event = c
    BY <1>1, <1>2, <1>4 DEF BaseType, EventType
  <2>3. x \in [Callbacks -> EventType] /\ \A y \in Callbacks : x[y].closure = s1.ev[y].closure
    <3>1. PICK pn \in BOOLEAN : pn = (s1.ev[c].pncalls \/ s.ev[c].ncalls # 0)
      OBVIOUS
    <3>2. x = [s1.ev EXCEPT ![c].pncalls = pn]
      BY <3>1
    <3> QED
      BY <1>1, <1>4, <3>2, SMT DEF EventType
  <2>4. r = r2
    BY <1>4 DEF StateType
  <2> HIDE DEF b2, x, r
  <2>5. InOrder(r1) /\ r1.ev = s1.ev /\ r1.q = s1.q /\ r1.base = b2
    BY <1>4, <2>2, OkBase, OkInOrder, WithBase DEF InOrder
  <2> HIDE DEF r1
  <2>6. r2.q = r1.q /\ r2.ev = x /\ r2.base = r1.base
    BY <2>3, <2>5, WithEvents DEF InOrder
  <2> QED
    BY <1>4, <1>6, <1>8, <2>1, <2>2, <2>3, <2>4, <2>5, <2>6, SMTT(20) DEF SameFinal
<1>7. CASE ~Finalizes(c) /\ c \notin SigEvents
  <2>1. StartClosure(s, c) = IF c \in Persist THEN event_persist_closure(s1, c) ELSE s1
    BY <1>7 DEF StartClosure, s1
  <2>2. Effect(s1, event_persist_closure(s1, c), c) /\ SameFinal(s1, event_persist_closure(s1, c))
    BY <1>4, EffectPersist, OkPersist DEF InOrder, Ok
  <2>3. CASE c \in Persist
    BY <1>2, <1>4, <1>7, <2>1, <2>2, <2>3, SMT DEF Effect, SameBase, SameFinal, FlagsBut
  <2>4. CASE c \notin Persist
    BY <1>2, <1>4, <1>7, <1>8, <2>1, <2>4 DEF SameFinal
  <2> QED
    BY <2>3, <2>4
<1> QED
  BY <1>5, <1>6, <1>7

-----------------------------------------------------------------------------
(* A step that works on no callback: no flag, no finalizer, no call and    *)
(* not the current event changes.                                          *)
SameClosures == \A c \in Callbacks : ev'[c].closure = ev[c].closure

Quiet ==
    /\ q'.flags = q.flags /\ SameClosures
    /\ base'.current_event = base.current_event
    /\ UNCHANGED <<thr, hist>>

(* When event_base_loop, event_process_active or the service of one queue  *)
(* returns, the current event stays.                                       *)
LEMMA QuietReturns ==
    ASSUME NEW b \in BaseType, NEW n,
           LoopReturns(b) \/ ProcessActiveReturns(b, n) \/ SingleQueueReturns(b, n)
    PROVE  base'.current_event = b.current_event
<1> DEFINE b1 == [b EXCEPT !.event_running_priority = -1]
<1>1. CASE LoopReturns(b)
  BY <1>1 DEF LoopReturns, BaseType
<1>2. ASSUME ProcessActiveReturns(b, n)
      PROVE  base'.current_event = b.current_event
  <2>1. b1.current_event = b.current_event /\ b1 \in BaseType
    BY DEF BaseType
  <2>2. \/ base' = [b1 EXCEPT !.running_loop = FALSE, !.tv_cache = NoTv]
        \/ base' = b1
    BY <1>2 DEF ProcessActiveReturns
  <2> HIDE DEF b1
  <2> QED
    BY <2>1, <2>2 DEF BaseType
<1>3. CASE SingleQueueReturns(b, n)
  BY <1>2, <1>3 DEF SingleQueueReturns
<1> QED
  BY <1>1, <1>2, <1>3

(* The steps of the loop between two callbacks are quiet,                  *)
LEMMA QuietLoop ==
    ASSUME Inv, \/ \E f \in LoopFlags : event_base_loop(f)
                \/ LoopTop \/ StartPoll \/ epoll_wait \/ DispatchFails
                \/ DispatchLocks \/ DispatchReturns \/ TimeoutsDone \/ QueueEmpty
    PROVE  Quiet
<1>1. UNCHANGED <<q, ev, thr, hist>>
  BY DEF event_base_loop, LoopTop, StartPoll, epoll_wait, DispatchFails,
         DispatchLocks, DispatchReturns, TimeoutsDone, QueueEmpty
<1>2. base'.current_event = base.current_event
  <2>0. base \in BaseType
    BY StateTypes
  <2>1. CASE \/ \E f \in LoopFlags : event_base_loop(f)
             \/ StartPoll \/ epoll_wait \/ DispatchLocks \/ DispatchReturns
    BY <2>0, <2>1 DEF event_base_loop, StartPoll, epoll_wait, DispatchLocks,
                      DispatchReturns, update_time_cache, BaseType
  <2>2. CASE LoopTop
    <3>1. PICK b : b = [base EXCEPT !.event_continue = FALSE, !.n_deferreds_queued = 0]
      OBVIOUS
    <3>2. b \in BaseType /\ b.current_event = base.current_event
      BY <2>0, <3>1 DEF BaseType
    <3>3. LoopReturns(b) \/ base' = b
      BY <2>2, <3>1 DEF LoopTop
    <3> QED
      BY <3>2, <3>3, QuietReturns
  <2>3. CASE DispatchFails
    BY <2>0, <2>3, QuietReturns DEF DispatchFails
  <2>4. CASE TimeoutsDone
    <3>1. LoopReturns(base) \/ base' = base \/ base' = [base EXCEPT !.tv_cache = 0]
      BY <2>4 DEF TimeoutsDone, update_time_cache
    <3> QED
      BY <2>0, <3>1, QuietReturns DEF BaseType
  <2>5. CASE QueueEmpty
    BY <2>0, <2>5, QuietReturns DEF QueueEmpty
  <2> QED
    BY <2>1, <2>2, <2>3, <2>4, <2>5
<1> QED
  BY <1>1, <1>2 DEF Quiet, SameClosures

(* so are those in the middle of a callback and those of the environment,  *)
LEMMA QuietClosure ==
    ASSUME Inv, \/ SigLoad \/ SigStore \/ SigReturn \/ event_once_cb
                \/ NotifyRead \/ NotifyReset \/ Tick
                \/ \E e \in IOEvents : DescriptorChanges(e)
    PROVE  Quiet
<1>0. base \in BaseType /\ ev \in [Callbacks -> EventType]
  BY StateTypes
<1>1. CASE \/ SigLoad \/ event_once_cb \/ NotifyRead \/ NotifyReset
           \/ \E e \in IOEvents : DescriptorChanges(e)
  <2>1. UNCHANGED <<q, ev, thr, hist>>
    BY <1>1 DEF SigLoad, event_once_cb, NotifyRead, NotifyReset, DescriptorChanges
  <2>2. base'.current_event = base.current_event
    BY <1>0, <1>1 DEF SigLoad, event_once_cb, NotifyRead, NotifyReset, DescriptorChanges, BaseType
  <2> QED
    BY <2>1, <2>2 DEF Quiet, SameClosures
<1>2. CASE SigStore
  <2>1. PICK n : /\ base' = [base EXCEPT !.closure_ncalls = n]
                 /\ ev' = [ev EXCEPT ![loop.running].ncalls = n,
                                     ![loop.running].pncalls = @ /\ n # 0]
    BY <1>2 DEF SigStore
  <2>2. base'.current_event = base.current_event
    BY <1>0, <2>1 DEF BaseType
  <2>3. ASSUME NEW c \in Callbacks
        PROVE  ev'[c].closure = ev[c].closure
    <3>1. ev[c] \in EventType
      BY <1>0
    <3> QED
      BY <1>0, <2>1, <3>1 DEF EventType
  <2> QED
    BY <1>2, <2>2, <2>3 DEF Quiet, SameClosures, SigStore
<1>3. CASE SigReturn
  <2>1. ASSUME NEW c \in Callbacks
        PROVE  ev'[c].closure = ev[c].closure
    <3>1. ev[c] \in EventType
      BY <1>0
    <3> QED
      BY <1>0, <1>3, <3>1 DEF EventType, SigReturn
  <2> QED
    BY <1>3, <2>1 DEF Quiet, SameClosures, SigReturn
<1>4. CASE Tick
  <2>1. ASSUME NEW c \in Callbacks
        PROVE  ev'[c].closure = ev[c].closure
    <3>1. PICK a : ev'[c] = [ev[c] EXCEPT !.timeout = a]
      BY <1>4 DEF Tick
    <3>2. ev[c] \in EventType
      BY <1>0
    <3> QED
      BY <3>1, <3>2 DEF EventType
  <2>2. base'.current_event = base.current_event
    BY <1>0, <1>4 DEF Tick, BaseType
  <2> QED
    BY <1>4, <2>1, <2>2 DEF Quiet, SameClosures, Tick
<1> QED
  BY <1>1, <1>2, <1>3, <1>4

(* and the calls that are about the whole base or a priority.              *)
LEMMA QuietCall ==
    ASSUME Inv, CarefulProgram, NEW t \in Threads,
           \/ \E e \in UserEvents, p \in Priorities : event_priority_set(t, e, p)
           \/ OnceFails(t) \/ event_base_update_cache_time(t)
           \/ event_base_add_virtual_(t) \/ event_base_loopbreak(t)
           \/ event_base_loopcontinue(t) \/ event_base_del_virtual_(t)
    PROVE  Quiet
<1>0. base \in BaseType /\ Sound(State) /\ State.base = base /\ State.q = q /\ State.ev = ev
  BY StateTypes, CallTypes
<1>1. CASE \E e \in UserEvents, p \in Priorities : event_priority_set(t, e, p)
  <2>1. PICK e \in UserEvents, p \in Priorities : event_priority_set(t, e, p)
    BY <1>1
  <2>2. q' = [q EXCEPT !.pri[e] = p] /\ UNCHANGED <<thr, ev, base, hist>>
    BY <2>1 DEF event_priority_set, CarefulProgram
  <2>3. q'.flags = q.flags
    BY <2>2, StateTypes DEF BookkeepingType
  <2> QED
    BY <2>2, <2>3 DEF Quiet, SameClosures
<1>2. CASE OnceFails(t) \/ event_base_update_cache_time(t) \/ event_base_add_virtual_(t)
  <2>1. UNCHANGED <<q, ev, thr, hist>>
    BY <1>2 DEF OnceFails, event_base_update_cache_time, event_base_add_virtual_
  <2>2. base'.current_event = base.current_event
    BY <1>0, <1>2 DEF OnceFails, event_base_update_cache_time, event_base_add_virtual_,
                      update_time_cache, BaseType
  <2> QED
    BY <2>1, <2>2 DEF Quiet, SameClosures
<1>3. CASE \/ event_base_loopbreak(t) \/ event_base_loopcontinue(t)
           \/ event_base_del_virtual_(t)
  <2>1. PICK b : /\ b \in BaseType /\ b.current_event = base.current_event
                 /\ \/ Becomes(evthread_notify_base([State EXCEPT !.base = b], t))
                    \/ Becomes([State EXCEPT !.base = b])
    <3>1. CASE event_base_loopbreak(t)
      <4>1. PICK b : b = [base EXCEPT !.event_break = TRUE]
        OBVIOUS
      <4>2. b \in BaseType /\ b.current_event = base.current_event
        BY <1>0, <4>1 DEF BaseType
      <4>3. [State EXCEPT !.base.event_break = TRUE] = [State EXCEPT !.base = b]
        BY <1>0, <4>1
      <4> QED
        BY <3>1, <4>2, <4>3 DEF event_base_loopbreak
    <3>2. CASE event_base_loopcontinue(t)
      <4>1. PICK b : b = [base EXCEPT !.event_continue = TRUE]
        OBVIOUS
      <4>2. b \in BaseType /\ b.current_event = base.current_event
        BY <1>0, <4>1 DEF BaseType
      <4>3. [State EXCEPT !.base.event_continue = TRUE] = [State EXCEPT !.base = b]
        BY <1>0, <4>1
      <4> QED
        BY <3>2, <4>2, <4>3 DEF event_base_loopcontinue
    <3>3. CASE event_base_del_virtual_(t)
      <4>1. PICK n \in Nat : n = base.virtual_event_count - 1
        BY <1>0, <3>3, SMT DEF BaseType, event_base_del_virtual_
      <4>2. PICK b : b = [base EXCEPT !.virtual_event_count = n]
        OBVIOUS
      <4>3. b \in BaseType /\ b.current_event = base.current_event
        BY <1>0, <4>2 DEF BaseType
      <4>4. [State EXCEPT !.base.virtual_event_count = @ - 1] = [State EXCEPT !.base = b]
        BY <1>0, <4>1, <4>2
      <4> QED
        BY <3>3, <4>3, <4>4 DEF event_base_del_virtual_
    <3> QED
      BY <1>3, <3>1, <3>2, <3>3
  <2>2. PICK s : s = [State EXCEPT !.base = b]
    OBVIOUS
  <2>3. Sound(s) /\ s.q = q /\ s.ev = ev /\ s.base = b
    BY <1>0, <2>1, <2>2, WithBase
  <2>4. PICK r : r = evthread_notify_base(s, t)
    OBVIOUS
  <2>5. r.q = q /\ r.ev = ev /\ r.base.current_event = b.current_event
    BY <2>3, <2>4, NotifyBase, EffectNotify DEF Effect, SameBase
  <2>6. UNCHANGED <<thr, hist>>
    BY <1>3 DEF event_base_loopbreak, event_base_loopcontinue, event_base_del_virtual_
  <2> QED
    BY <2>1, <2>2, <2>3, <2>4, <2>5, <2>6 DEF Becomes, Quiet, SameClosures
<1> QED
  BY <1>1, <1>2, <1>3

-----------------------------------------------------------------------------
(* A step that works on callback e: no other flags change, and neither the *)
(* finalizers, their marks nor the current event.                          *)
Works(e) ==
    /\ FlagsBut(q, q', e) /\ SameClosures
    /\ "FINALIZING" \in q'.flags[e] <=> "FINALIZING" \in q.flags[e]
    /\ base'.current_event = base.current_event

(* A step by a sound operation on e works on e,                            *)
LEMMA WorksBecomes ==
    ASSUME StateInv, NEW e \in Callbacks, NEW r, Ok(State, r), Effect(State, r, e), Becomes(r)
    PROVE  Works(e)
<1>1. State.q = q /\ State.ev = ev /\ State.base = base
  BY DEF State
<1> QED
  BY <1>1 DEF Works, SameClosures, Becomes, Ok, SameFinal, Effect, SameBase

(* and the wait that may follow it changes no more than that.              *)
LEMMA WorksWaits ==
    ASSUME StateInv, NEW e \in Callbacks, NEW r, Ok(State, r), Effect(State, r, e),
           NEW t, NEW op, NEW arg, Waits(r, t, op, e, arg)
    PROVE  Works(e) /\ q' = r.q
<1>1. PICK b : b = [r.base EXCEPT !.current_event_waiters = @ + 1]
  OBVIOUS
<1>2. b \in BaseType /\ SameBase(r.base, b) /\ Sound(r)
  BY <1>1, SoundParts, SMT DEF Ok, BaseType, SameBase
<1>3. PICK z : z = [r EXCEPT !.base = b]
  OBVIOUS
<1>4. Ok(State, z) /\ Effect(State, z, e) /\ z.q = r.q
  BY <1>2, <1>3, OkBase, OkTrans, EffectBase, EffectTrans, WithBase
<1>5. z = [r EXCEPT !.base.current_event_waiters = @ + 1]
  BY <1>1, <1>3
<1>6. Becomes(z)
  BY <1>5 DEF Waits
<1> QED
  BY <1>4, <1>6, WorksBecomes DEF Becomes

(* event_add works on its event, up to its wait.                           *)
LEMMA WorksAdd ==
    ASSUME Inv, NEW t \in Threads, NEW e \in UserEvents, NEW tv \in Timeouts \cup {NoTv},
           event_add(t, e, tv)
    PROVE  Works(e)
<1>1. /\ e \in Events /\ e \in Callbacks /\ tv \in Int /\ (tv = NoTv \/ tv \in Nat)
      /\ Sound(State) /\ StateInv /\ FALSE \in BOOLEAN
  BY CallTypes, StateTypes
<1>2. CASE Waits(State, t, "add", e, tv)
  BY <1>1, <1>2, OkRefl, EffectRefl, WorksWaits
<1>3. CASE Becomes(AddBody(State, t, e, tv, FALSE))
  <2>1. Ok(State, AddBody(State, t, e, tv, FALSE)) /\ Effect(State, AddBody(State, t, e, tv, FALSE), e)
    BY <1>1, OkAddBody, EffectAddBody
  <2> QED
    BY <1>1, <1>3, <2>1, WorksBecomes
<1> QED
  BY <1>2, <1>3 DEF event_add

(* The second half of event_add, after its wait for the callback, works on *)
(* the event that the call was made with.                                  *)
LEMMA WorksAddAfterWait ==
    ASSUME Inv, NEW t \in Threads, AddAfterWait(t)
    PROVE  thr[t].e \in Events /\ Works(thr[t].e)
<1>1. CallInv(t) /\ thr[t].st = "woken" /\ thr[t].op = "add"
  BY StateTypes DEF CallsInv, AddAfterWait, Wakes
<1>2. PICK e, tv : e = thr[t].e /\ tv = thr[t].arg
  OBVIOUS
<1>3. e \in Events /\ tv \in Timeouts \cup {NoTv}
  BY <1>1, <1>2 DEF CallInv
<1>4. /\ e \in Callbacks /\ tv \in Int /\ (tv = NoTv \/ tv \in Nat)
      /\ Sound(State) /\ StateInv /\ FALSE \in BOOLEAN
  BY <1>3, CallTypes, StateTypes
<1>5. Ok(State, AddBody(State, t, e, tv, FALSE)) /\ Effect(State, AddBody(State, t, e, tv, FALSE), e)
  BY <1>4, OkAddBody, EffectAddBody
<1>6. Becomes(AddBody(State, t, e, tv, FALSE))
  BY <1>2 DEF AddAfterWait
<1> QED
  BY <1>2, <1>3, <1>4, <1>5, <1>6, WorksBecomes

(* So does event_remove_timer, which only takes flags away,                *)
LEMMA WorksRemoveTimer ==
    ASSUME Inv, NEW t \in Threads, NEW e \in UserEvents, event_remove_timer(t, e)
    PROVE  Works(e) /\ q'.flags[e] \subseteq q.flags[e]
<1>1. e \in Callbacks
  BY CallTypes
<1>2. Keeps(q, q') /\ Writes(q, q', e, q.flags[e] \ {"TIMEOUT"})
  BY <1>1, StateTypes, QueueOps, QueueFlagOps DEF event_remove_timer
<1>3. ASSUME NEW c \in Callbacks
      PROVE  ev'[c].closure = ev[c].closure
  <2>1. ev[c] \in EventType
    BY StateTypes
  <2>2. CASE c # e
    BY <2>2, StateTypes DEF event_remove_timer
  <2>3. CASE c = e
    <3>1. \/ ev'[c] = [ev[c] EXCEPT !.ncalls = 0, !.pncalls = FALSE]
          \/ ev'[c] = [ev[c] EXCEPT !.io_timeout = 0]
      BY <1>1, <2>3, StateTypes DEF event_remove_timer
    <3> QED
      BY <2>1, <3>1 DEF EventType
  <2> QED
    BY <2>2, <2>3
<1> QED
  BY <1>1, <1>2, <1>3 DEF Works, SameClosures, Keeps, Writes, event_remove_timer

(* and event_del, which leaves no queue flag.                              *)
LEMMA WorksDel ==
    ASSUME Inv, NEW t \in Threads, NEW e \in UserEvents, NEW m, event_del(t, e, m)
    PROVE  Works(e) /\ q'.flags[e] \cap QueueFlags = {} /\ q'.flags[e] \subseteq q.flags[e]
<1> DEFINE s == event_del_nolock_(State, t, e)
<1>1. e \in Callbacks /\ Sound(State) /\ State.q = q /\ StateInv
  BY CallTypes, StateTypes
<1>2. Ok(State, s) /\ Effect(State, s, e) /\ s.q.flags[e] = Deleted(q.flags[e])
  BY <1>1, OkDel, EffectDel
<1>3. Waits(s, t, "del", e, 0) \/ Becomes(s)
  BY DEF event_del
<1> HIDE DEF s
<1>4. Works(e) /\ q' = s.q
  BY <1>1, <1>2, <1>3, WorksWaits, WorksBecomes DEF Becomes
<1>5. "FINALIZING" \notin q.flags[e]
  BY DEF event_del
<1> QED
  BY <1>2, <1>4, <1>5 DEF Deleted

(* event_active works on its event, up to its wait and after it, and so    *)
(* does event_active_later_.                                               *)
LEMMA WorksActive ==
    ASSUME Inv, NEW t \in Threads, NEW e \in UserEvents, NEW n \in NCalls,
           event_active(t, e, n)
    PROVE  Works(e)
<1>1. /\ e \in Callbacks /\ n \in Int /\ Sound(State) /\ StateInv
      /\ {} \in SUBSET {"EV_TIMEOUT"}
  BY CallTypes, StateTypes, EventBaseAssumption, SMT
<1>2. CASE Waits(ActiveRes(State, e, {}), t, "active", e, n)
  <2>1. Ok(State, ActiveRes(State, e, {})) /\ Effect(State, ActiveRes(State, e, {}), e)
    BY <1>1, OkActiveRes, EffectActiveRes
  <2> QED
    BY <1>1, <1>2, <2>1, WorksWaits
<1>3. CASE Becomes(event_active_nolock_(State, t, e, {}, n))
  <2>1. /\ Ok(State, event_active_nolock_(State, t, e, {}, n))
        /\ Effect(State, event_active_nolock_(State, t, e, {}, n), e)
    BY <1>1, OkActive, EffectActive
  <2> QED
    BY <1>1, <1>3, <2>1, WorksBecomes
<1> QED
  BY <1>2, <1>3 DEF event_active

(* The second half of event_active, after its wait for the callback.       *)
LEMMA WorksActiveAfterWait ==
    ASSUME Inv, NEW t \in Threads, ActiveAfterWait(t)
    PROVE  thr[t].e \in Events /\ Works(thr[t].e)
<1>1. CallInv(t) /\ thr[t].st = "woken" /\ thr[t] \in CallType
  BY StateTypes DEF CallsInv, ActiveAfterWait, Wakes
<1>2. PICK e, n : e = thr[t].e /\ n = thr[t].arg
  OBVIOUS
<1>3. e \in Events /\ n \in Int
  BY <1>1, <1>2 DEF CallInv, CallType
<1>4. e \in Callbacks /\ Sound(State) /\ StateInv
  BY <1>3, CallTypes, StateTypes
<1>5. Ok(State, ActiveInsert(State, t, e, n)) /\ Effect(State, ActiveInsert(State, t, e, n), e)
  BY <1>3, <1>4, OkActiveInsert, EffectActiveInsert
<1>6. Becomes(ActiveInsert(State, t, e, n))
  BY <1>2 DEF ActiveAfterWait
<1> QED
  BY <1>2, <1>3, <1>4, <1>5, <1>6, WorksBecomes

(* event_active_later_ works on its event, and leaves an active one as it  *)
(* is.                                                                     *)
LEMMA WorksActiveLater ==
    ASSUME Inv, NEW t \in Threads, NEW e \in UserEvents, event_active_later_(t, e)
    PROVE  Works(e) /\ ("ACTIVE" \in q.flags[e] => q'.flags[e] = q.flags[e])
<1> DEFINE was == q.flags[e] \cap {"ACTIVE", "ACTIVE_LATER"} # {}
           s1 == [State EXCEPT !.ev[e].res = IF was THEN @ ELSE {}]
           r == event_callback_activate_later_nolock_(s1, t, e)
<1>1. e \in Callbacks /\ Sound(State) /\ State.ev = ev /\ State.q = q
  BY CallTypes
<1>2. PICK v : v = [ev[e] EXCEPT !.res = IF was THEN @ ELSE {}]
  OBVIOUS
<1>3. v \in EventType /\ v.closure = ev[e].closure
  <2>1. ev[e] \in EventType
    BY <1>1, StateTypes
  <2>2. PICK x \in SUBSET {"EV_TIMEOUT"} : x = IF was THEN ev[e].res ELSE {}
    BY <2>1 DEF EventType
  <2> QED
    BY <1>2, <2>1, <2>2 DEF EventType
<1>4. PICK x : x = [ev EXCEPT ![e] = v]
  OBVIOUS
<1>5. s1 = [State EXCEPT !.ev = x]
  BY <1>1, <1>2, <1>4
<1>6. Becomes(r)
  BY DEF event_active_later_
<1> HIDE DEF s1
<1>7. x \in [Callbacks -> EventType] /\ \A c \in Callbacks : x[c].closure = ev[c].closure
  BY <1>1, <1>3, <1>4, StateTypes
<1>8. Ok(State, s1) /\ Effect(State, s1, e) /\ s1.q = q
  BY <1>1, <1>3, <1>4, <1>5, <1>7, OkEvents, EffectEvents, WithEvents
<1>9. /\ Ok(State, r) /\ Effect(State, r, e)
      /\ "ACTIVE" \in q.flags[e] => r.q.flags[e] = q.flags[e]
  <2>1. Sound(s1)
    BY <1>8 DEF Ok
  <2>2. Ok(s1, r) /\ Effect(s1, r, e)
    BY <1>1, <2>1, OkActivateLater, EffectActivateLater
  <2>3. r.q.flags[e] = IF "ACTIVE" \in s1.q.flags[e] THEN s1.q.flags[e]
                       ELSE s1.q.flags[e] \cup {"ACTIVE_LATER"}
    BY <1>1, <2>1, EffectActivateLater, SMT
  <2>4. Ok(State, r) /\ Effect(State, r, e)
    BY <1>8, <2>2, OkTrans, EffectTrans
  <2> QED
    BY <1>8, <2>3, <2>4
<1> QED
  BY <1>1, <1>6, <1>9, StateTypes, WorksBecomes DEF Becomes

(* event_base_once works on its event,                                     *)
LEMMA WorksOnce ==
    ASSUME Inv, NEW t \in Threads, NEW e \in OnceEvents, NEW tv \in Timeouts \cup {NoTv},
           event_base_once(t, e, tv)
    PROVE  Works(e)
<1> DEFINE s == IF ActivatesAtOnce(e, tv)
                THEN event_active_nolock_(State, t, e, {"EV_TIMEOUT"}, 1)
                ELSE AddBody(State, t, e, tv, FALSE)
<1>1. /\ e \in Callbacks /\ tv \in Int /\ (tv = NoTv \/ tv \in Nat)
      /\ Sound(State) /\ {"EV_TIMEOUT"} \in SUBSET {"EV_TIMEOUT"} /\ 1 \in Int
      /\ FALSE \in BOOLEAN
  BY CallTypes, EventBaseAssumption, SMT
<1>2. Ok(State, s) /\ Effect(State, s, e)
  <2>1. /\ Ok(State, event_active_nolock_(State, t, e, {"EV_TIMEOUT"}, 1))
        /\ Effect(State, event_active_nolock_(State, t, e, {"EV_TIMEOUT"}, 1), e)
    BY <1>1, OkActive, EffectActive
  <2>2. Ok(State, AddBody(State, t, e, tv, FALSE)) /\ Effect(State, AddBody(State, t, e, tv, FALSE), e)
    BY <1>1, OkAddBody, EffectAddBody
  <2> QED
    BY <2>1, <2>2
<1>3. Becomes([s EXCEPT !.base.once_events = @ \cup {e}])
  BY DEF event_base_once
<1> HIDE DEF s
<1>4. PICK b : b = [s.base EXCEPT !.once_events = @ \cup {e}]
  OBVIOUS
<1>5. Sound(s) /\ s.base \in BaseType
  BY <1>2, SoundParts DEF Ok
<1>6. b \in BaseType /\ SameBase(s.base, b)
  BY <1>4, <1>5 DEF BaseType, SameBase
<1>7. Ok(State, [s EXCEPT !.base = b]) /\ Effect(State, [s EXCEPT !.base = b], e)
  BY <1>2, <1>5, <1>6, OkBase, OkTrans, EffectBase, EffectTrans
<1>8. [s EXCEPT !.base.once_events = @ \cup {e}] = [s EXCEPT !.base = b]
  BY <1>4
<1> QED
  BY <1>1, <1>3, <1>7, <1>8, StateTypes, WorksBecomes

(* the calls on a deferred callback work on it.  One that is active is not *)
(* activated again, and a marked one is not cancelled.                     *)
LEMMA WorksSchedule ==
    ASSUME Inv, NEW t \in Threads, NEW c \in Deferreds, event_deferred_cb_schedule_(t, c)
    PROVE  /\ Works(c) /\ q'.flags[c] \cap {"INSERTED", "TIMEOUT"} \subseteq q.flags[c]
           /\ "ACTIVE" \in q.flags[c] => q'.flags[c] = q.flags[c]
<1> DEFINE s == event_callback_activate_nolock_(State, t, c)
           r == event_callback_activate_later_nolock_(State, t, c)
           new == q.flags[c] = {}
<1>1. c \in Callbacks /\ Sound(State) /\ State.q = q /\ StateInv
  BY CallTypes, StateTypes
<1>2. \/ Becomes(r)
      \/ Becomes([s EXCEPT !.base.n_deferreds_queued = IF new THEN @ + 1 ELSE @])
  BY DEF event_deferred_cb_schedule_
<1>3. Ok(State, s) /\ Effect(State, s, c) /\ s.q.flags[c] = Activated(q.flags[c])
  BY <1>1, OkActivate, EffectActivate
<1>4. /\ Ok(State, r) /\ Effect(State, r, c)
      /\ r.q.flags[c] = IF "ACTIVE" \in q.flags[c] THEN q.flags[c]
                        ELSE q.flags[c] \cup {"ACTIVE_LATER"}
  BY <1>1, OkActivateLater, EffectActivateLater, SMT
<1> HIDE DEF s, r, new
<1>5. PICK n : n = IF new THEN s.base.n_deferreds_queued + 1 ELSE s.base.n_deferreds_queued
  OBVIOUS
<1>6. Sound(s) /\ s.base \in BaseType
  BY <1>3, SoundParts DEF Ok
<1>7. n \in Nat
  BY <1>5, <1>6, SMT DEF BaseType
<1>8. PICK b : b = [s.base EXCEPT !.n_deferreds_queued = n]
  OBVIOUS
<1>9. b \in BaseType /\ SameBase(s.base, b)
  BY <1>6, <1>7, <1>8 DEF BaseType, SameBase
<1>10. PICK z : z = [s EXCEPT !.base = b]
  OBVIOUS
<1>11. Ok(State, z) /\ Effect(State, z, c) /\ z.q = s.q
  BY <1>3, <1>6, <1>9, <1>10, OkBase, OkTrans, EffectBase, EffectTrans, WithBase
<1>12. [s EXCEPT !.base.n_deferreds_queued = IF new THEN @ + 1 ELSE @] = z
  BY <1>5, <1>8, <1>10
<1>13. CASE Becomes(r)
  BY <1>1, <1>4, <1>13, WorksBecomes DEF Becomes
<1>14. CASE Becomes(z)
  <2>1. Works(c) /\ q'.flags[c] = Activated(q.flags[c])
    BY <1>1, <1>3, <1>11, <1>14, WorksBecomes DEF Becomes
  <2>2. ~({"ACTIVE", "ACTIVE_LATER"} \subseteq q.flags[c])
    BY <1>1, StateTypes DEF QueuesOK, QueuesMatchFlags
  <2> QED
    BY <2>1, <2>2 DEF Activated
<1> QED
  BY <1>2, <1>12, <1>13, <1>14

(* event_deferred_cb_cancel_ takes its callback out of the queues, unless  *)
(* the callback has the finalizer.                                         *)
LEMMA WorksCancel ==
    ASSUME Inv, NEW t \in Threads, NEW c \in Deferreds, event_deferred_cb_cancel_(t, c)
    PROVE  /\ Works(c) /\ q'.flags[c] \subseteq q.flags[c]
           /\ "FINALIZING" \in q.flags[c] => q'.flags[c] = q.flags[c]
<1>1. c \in Callbacks /\ Sound(State) /\ State.q = q /\ StateInv
  BY CallTypes, StateTypes
<1>2. PICK r : r = event_callback_cancel_nolock_(State, t, c)
  OBVIOUS
<1>3. Ok(State, r) /\ Effect(State, r, c) /\ r.q.flags[c] = Cancelled(c, q.flags[c])
  BY <1>1, <1>2, OkCancel, EffectCancel
<1>4. Becomes(r)
  BY <1>2 DEF event_deferred_cb_cancel_
<1> QED
  BY <1>1, <1>3, <1>4, WorksBecomes DEF Becomes, Cancelled, Deleted

(* One turn of event_queue_make_later_events_active works on a callback    *)
(* that was to be active later,                                            *)
LEMMA WorksMakeLater ==
    ASSUME Inv, event_queue_make_later_events_active
    PROVE  \E c \in Callbacks :
              /\ Works(c) /\ "ACTIVE_LATER" \in q.flags[c]
              /\ q'.flags[c] = (q.flags[c] \ {"ACTIVE_LATER"}) \cup {"ACTIVE"}
<1>1. QueueLaws /\ QueuesOK(q) /\ q.active_later_queue # <<>> /\ q' = make_later_event_active(q)
  BY StateTypes DEF event_queue_make_later_events_active
<1>2. PICK s \in Seq(Callbacks) : s = q.active_later_queue
  BY <1>1 DEF QueuesOK, BookkeepingType
<1>3. PICK c : c = Head(s)
  OBVIOUS
<1>4. c \in Callbacks /\ q'.flags = [q.flags EXCEPT ![c] = (@ \ {"ACTIVE_LATER"}) \cup {"ACTIVE"}]
  BY <1>1, <1>2, <1>3, LaterActive
<1>5. 1 \in 1..Len(s) /\ Head(s) = s[1]
  BY <1>1, <1>2, SMT
<1>6. c \in Elems(s)
  BY <1>3, <1>5 DEF Elems
<1>7. "ACTIVE_LATER" \in q.flags[c]
  BY <1>1, <1>2, <1>6 DEF QueuesOK, QueuesMatchFlags
<1>8. UNCHANGED ev /\ base'.current_event = base.current_event
  BY StateTypes DEF event_queue_make_later_events_active, BaseType
<1>9. Works(c) /\ q'.flags[c] = (q.flags[c] \ {"ACTIVE_LATER"}) \cup {"ACTIVE"}
  BY <1>4, <1>8, StateTypes, SMT DEF Works, FlagsBut, SameClosures
<1> QED
  BY <1>4, <1>7, <1>9

(* evmap_io_active_ works on an event that is still inserted, if at all,   *)
LEMMA WorksIoActive ==
    ASSUME Inv, NEW e \in FdEvents, evmap_io_active_(e)
    PROVE  e \in Callbacks /\ e \notin Deferreds /\ Works(e)
           /\ ("INSERTED" \in q.flags[e] \/ q' = q)
<1>1. /\ e \in Callbacks /\ e \notin Deferreds /\ {} \in SUBSET {"EV_TIMEOUT"} /\ 1 \in Int
      /\ Sound(State) /\ StateInv /\ State.q = q
  BY StateTypes, CallTypes, EventBaseAssumption, SMT DEF FdEvents
<1>2. PICK r : r = event_active_nolock_(State, L, e, {}, 1)
  OBVIOUS
<1>3. Ok(State, r) /\ Effect(State, r, e) /\ Ok(State, State) /\ Effect(State, State, e)
  BY <1>1, <1>2, OkActive, EffectActive, OkRefl, EffectRefl
<1>4. ("INSERTED" \in q.flags[e] /\ Becomes(r)) \/ Becomes(State)
  BY <1>2 DEF evmap_io_active_
<1> QED
  BY <1>1, <1>3, <1>4, WorksBecomes DEF Becomes

(* and timeout_process on an event with a timeout.                         *)
LEMMA WorksTimeout ==
    ASSUME Inv, NEW e \in LoopEvents, timeout_process(e)
    PROVE  e \in Callbacks /\ e \notin Deferreds /\ Works(e) /\ "TIMEOUT" \in q.flags[e]
<1>1. /\ e \in Callbacks /\ e \notin Deferreds /\ 1 \in Int
      /\ {"EV_TIMEOUT"} \in SUBSET {"EV_TIMEOUT"}
      /\ Sound(State) /\ StateInv /\ State.q = q
  BY StateTypes, CallTypes, EventBaseAssumption, SMT DEF LoopEvents
<1>2. "TIMEOUT" \in q.flags[e]
  BY <1>1 DEF timeout_process, min_heap_tops, Timers
<1>3. PICK s : s = event_del_nolock_(State, L, e)
  OBVIOUS
<1>4. PICK r : r = event_active_nolock_(s, L, e, {"EV_TIMEOUT"}, 1)
  OBVIOUS
<1>5. Ok(State, s) /\ Effect(State, s, e)
  BY <1>1, <1>3, OkDel, EffectDel
<1>6. Ok(s, r) /\ Effect(s, r, e)
  BY <1>1, <1>4, <1>5, OkActive, EffectActive DEF Ok
<1>7. Becomes(r)
  BY <1>3, <1>4 DEF timeout_process
<1>8. Works(e)
  BY <1>1, <1>5, <1>6, <1>7, OkTrans, EffectTrans, WorksBecomes
<1> QED
  BY <1>1, <1>2, <1>8

(* The loop runs an active callback.  A finalizer leaves no queue behind   *)
(* and no current event, another callback becomes the current event.       *)
LEMMA RunsOne ==
    ASSUME Inv, RunCallback
    PROVE  \E c \in Callbacks :
              /\ "ACTIVE" \in q.flags[c] /\ FlagsBut(q, q', c) /\ SameClosures
              /\ "FINALIZING" \in q'.flags[c] <=> "FINALIZING" \in q.flags[c]
              /\ Finalizes(c) => /\ base'.current_event = NoCb
                                 /\ q'.flags[c] = q.flags[c] \ {"ACTIVE"}
                                 /\ hist'.dead = hist.dead \cup {c}
              /\ ~Finalizes(c) => base'.current_event = c /\ hist'.dead = hist.dead
              /\ c \in Deferreds => q'.flags[c] = q.flags[c] \ {"ACTIVE"}
              /\ hist'.safe = hist.safe /\ hist'.clean = hist.clean
              /\ hist'.group_freed = hist.group_freed /\ UNCHANGED thr
              /\ loop.pc = "queue" /\ loop'.pc \in {"cb", "sigload", "drain"}
<1>0. PICK c : c = Head(q.activequeues[loop.i])
  OBVIOUS
<1>1. loop \in LoopType /\ loop.i \in Priorities
  BY StateTypes DEF LoopType
<1>2. c \in Callbacks /\ "ACTIVE" \in q.flags[c]
  BY <1>0, <1>1, StateTypes, HeadActive DEF RunCallback
<1>3. PICK s1 : s1 = Dequeue(State, c)
  OBVIOUS
<1>4. PICK r : r = StartClosure(s1, c)
  OBVIOUS
<1>5. /\ Becomes(r)
      /\ loop' = [loop EXCEPT !.pc = ClosurePc(c), !.running = c,
                              !.count = IF c \in Internal THEN @ ELSE Counted(@)]
      /\ hist' = [hist EXCEPT !.dead = IF Finalizes(c) THEN @ \cup {c} ELSE @,
                              !.timed = IF c \in Persist THEN @ ELSE @ \ {c}]
      /\ UNCHANGED thr /\ loop.pc = "queue"
  BY <1>0, <1>3, <1>4 DEF RunCallback
<1>6. InOrder(State) /\ Sound(State) /\ State.q = q /\ State.ev = ev
  BY StateTypes, StateInOrder
<1>7. Ok(State, s1) /\ Effect(State, s1, c)
  BY <1>2, <1>3, <1>6, OkDequeue, EffectDequeue
<1>8. s1.q.flags[c] = IF c \in Events \ Persist THEN Deleted(q.flags[c]) \ {"ACTIVE"}
                      ELSE q.flags[c] \ {"ACTIVE"}
  BY <1>2, <1>3, <1>6, EffectDequeue
<1>9. /\ Finalizes(c) => "FINALIZING" \in q.flags[c]
      /\ "FINALIZING" \in s1.q.flags[c] <=> "FINALIZING" \in q.flags[c]
  BY <1>2, <1>6, <1>7, StateTypes DEF Ok, SameFinal, StateInv
<1>10. /\ FlagsBut(s1.q, r.q, c) /\ SameFinal(s1, r)
       /\ Finalizes(c) => r.base.current_event = NoCb
       /\ ~Finalizes(c) => r.base.current_event = c
       /\ Finalizes(c) \/ c \notin Persist => r.q.flags = s1.q.flags
  BY <1>1, <1>2, <1>4, <1>6, <1>7, <1>9, OkInOrder, EffectStartClosure
<1>11. FlagsBut(q, q', c) /\ SameClosures
       /\ ("FINALIZING" \in q'.flags[c] <=> "FINALIZING" \in q.flags[c])
  BY <1>2, <1>5, <1>6, <1>7, <1>10
     DEF Becomes, FlagsBut, SameClosures, SameFinal, Ok, Effect
<1>12. Finalizes(c) => q'.flags[c] = q.flags[c] \ {"ACTIVE"}
  BY <1>5, <1>8, <1>9, <1>10 DEF Becomes, Deleted
<1>13. c \in Deferreds => q'.flags[c] = q.flags[c] \ {"ACTIVE"}
  <2>1. c \in Deferreds => c \notin Events /\ c \notin Persist
    BY EventBaseAssumption
  <2> QED
    BY <1>5, <1>8, <1>10, <2>1 DEF Becomes
<1>14. loop'.pc \in {"cb", "sigload", "drain"}
  BY <1>1, <1>5 DEF LoopType, ClosurePc
<1>15. /\ Finalizes(c) => hist'.dead = hist.dead \cup {c}
       /\ ~Finalizes(c) => hist'.dead = hist.dead
       /\ hist'.safe = hist.safe /\ hist'.clean = hist.clean
       /\ hist'.group_freed = hist.group_freed
  BY <1>5, StateTypes DEF HistType
<1> QED
  BY <1>2, <1>5, <1>10, <1>11, <1>12, <1>13, <1>14, <1>15 DEF Becomes

(* The callback has returned.                                              *)
LEMMA DoneWithOne ==
    ASSUME Inv, CallbackDone
    PROVE  /\ UNCHANGED <<q, ev, hist>> /\ base'.current_event = NoCb
           /\ \A t \in Threads :
                 \/ thr'[t] = thr[t]
                 \/ /\ thr[t].st = "wait" /\ thr'[t].st = "woken"
                    /\ thr'[t].e = thr[t].e /\ thr'[t].op = thr[t].op
<1> DEFINE b == [base EXCEPT !.current_event = NoCb, !.current_event_waiters = 0]
           limited == loop.i >= limit_callbacks_after_prio
           b1 == IF limited /\ DispatchTimeLimit /\ loop.count > 0
                 THEN update_time_cache(b) ELSE b
<1>1. b \in BaseType /\ b.current_event = NoCb
  BY StateTypes DEF BaseType
<1>2. \/ ProcessActiveReturns(b, -1)
      \/ SingleQueueReturns(b, loop.count)
      \/ SingleQueueReturns(update_time_cache(b), loop.count)
      \/ SingleQueueReturns(b1, loop.count)
      \/ base' = b1
  BY DEF CallbackDone
<1> HIDE DEF b
<1>3. update_time_cache(b) \in BaseType /\ update_time_cache(b).current_event = NoCb
  BY <1>1 DEF BaseType, update_time_cache
<1>4. b1 \in BaseType /\ b1.current_event = NoCb
  BY <1>1, <1>3
<1> HIDE DEF b1
<1>5. base'.current_event = NoCb
  BY <1>1, <1>2, <1>3, <1>4, QuietReturns
<1>6. ASSUME NEW t \in Threads
      PROVE  \/ thr'[t] = thr[t]
             \/ /\ thr[t].st = "wait" /\ thr'[t].st = "woken"
                /\ thr'[t].e = thr[t].e /\ thr'[t].op = thr[t].op
  <2>1. thr[t] \in CallType
    BY StateTypes
  <2>2. \/ thr'[t] = thr[t]
        \/ thr[t].st = "wait" /\ thr'[t] = [thr[t] EXCEPT !.st = "woken"]
    BY DEF CallbackDone
  <2> QED
    BY <2>1, <2>2 DEF CallType
<1> QED
  BY <1>5, <1>6 DEF CallbackDone

(* A step that puts the finalizer of c in its place.                       *)
Finalizer(c) ==
    /\ FlagsBut(q, q', c) /\ base'.current_event = base.current_event
    /\ \A x \in Callbacks \ {c} : ev'[x].closure = ev[x].closure
    /\ ev'[c].closure = "finalize" /\ "FINALIZING" \in q'.flags[c]

(* event_finalize of a careful program does that and makes it active,      *)
LEMMA FinalizesOne ==
    ASSUME Inv, CarefulProgram, NEW t \in Threads, NEW e \in UserEvents,
           event_finalize(t, e)
    PROVE  /\ Finalizer(e) /\ UNCHANGED thr
           /\ "FINALIZING" \notin q.flags[e] => q'.flags[e] \cap QueueFlags = {"ACTIVE"}
<1>1. e \in Callbacks /\ Sound(State) /\ State.q = q /\ State.ev = ev /\ State.base = base
  BY CallTypes
<1>2. PICK r : r = event_finalize_nolock_(State, t, e)
  OBVIOUS
<1>3. Becomes(r) /\ UNCHANGED thr
  BY <1>2 DEF CarefulProgram, event_finalize
<1>4. /\ Effect(State, r, e) /\ r.ev[e].closure = "finalize" /\ "FINALIZING" \in r.q.flags[e]
      /\ "FINALIZING" \notin q.flags[e] => r.q.flags[e] \cap QueueFlags = {"ACTIVE"}
  BY <1>1, <1>2, EffectFinalize
<1> QED
  BY <1>1, <1>3, <1>4 DEF Finalizer, Becomes, Effect, SameBase

(* and event_callback_finalize_nolock_, for one callback of the group.     *)
LEMMA FinalizesCallback ==
    ASSUME Inv, NEW t, NEW c \in Callbacks,
           Becomes(event_callback_finalize_nolock_(State, t, c))
    PROVE  /\ Finalizer(c)
           /\ "FINALIZING" \notin q.flags[c]
              /\ (c \notin LoopEvents => q.flags[c] \cap {"INSERTED", "TIMEOUT"} = {})
                => q'.flags[c] \cap QueueFlags = {"ACTIVE"}
<1>1. Sound(State) /\ State.q = q /\ State.ev = ev /\ State.base = base
  BY CallTypes
<1>2. PICK r : r = event_callback_finalize_nolock_(State, t, c)
  OBVIOUS
<1>3. Effect(State, r, c) /\ r.ev[c].closure = "finalize" /\ "FINALIZING" \in r.q.flags[c]
  BY <1>1, <1>2, EffectCallbackFinalize
<1>4. "FINALIZING" \notin q.flags[c]
      /\ (c \notin LoopEvents => q.flags[c] \cap {"INSERTED", "TIMEOUT"} = {})
        => r.q.flags[c] \cap QueueFlags = {"ACTIVE"}
  BY <1>1, <1>2, EffectCallbackFinalize
<1>5. Finalizer(c) /\ q' = r.q
  BY <1>1, <1>2, <1>3 DEF Finalizer, Becomes, Effect, SameBase
<1> QED
  BY <1>4, <1>5

(* The other callbacks of the group are cancelled.                         *)
LEMMA WorksCancelled ==
    ASSUME Inv, NEW t, NEW c \in Callbacks,
           Becomes(event_callback_cancel_nolock_(State, t, c))
    PROVE  Works(c) /\ q'.flags[c] = Cancelled(c, q.flags[c])
<1>1. Sound(State) /\ State.q = q /\ StateInv
  BY CallTypes, StateTypes
<1>2. PICK r : r = event_callback_cancel_nolock_(State, t, c)
  OBVIOUS
<1>3. Ok(State, r) /\ Effect(State, r, c) /\ r.q.flags[c] = Cancelled(c, q.flags[c])
  BY <1>1, <1>2, OkCancel, EffectCancel
<1> QED
  BY <1>1, <1>2, <1>3, WorksBecomes DEF Becomes

-----------------------------------------------------------------------------
(* The calls that queue an event end what was promised about it.           *)
LEMMA TouchEndsPromise ==
    ASSUME Inv, NEW e, \/ hist' = Touch(hist, e)
                       \/ \E tv : HistAdd(e, tv)
                       \/ hist' = [Touch(hist, e) EXCEPT !.timed = @ \ {e}]
    PROVE  /\ hist'.safe = hist.safe \ {e} /\ hist'.clean = {t \in hist.clean : thr[t].e # e}
           /\ hist'.group_freed = hist.group_freed /\ hist'.dead = hist.dead
<1>1. hist \in HistType
  BY StateTypes
<1>2. PICK h : h = Touch(hist, e)
  OBVIOUS
<1>3. /\ h = [h EXCEPT !.timed = h.timed]
      /\ h.safe = hist.safe \ {e} /\ h.clean = {t \in hist.clean : thr[t].e # e}
      /\ h.group_freed = hist.group_freed /\ h.dead = hist.dead
      /\ h.timed = hist.timed
  BY <1>1, <1>2 DEF HistType, Touch
<1>4. PICK x : hist' = [h EXCEPT !.timed = x]
  BY <1>2, <1>3 DEF HistAdd
<1>5. /\ hist'.safe = h.safe /\ hist'.clean = h.clean
      /\ hist'.group_freed = h.group_freed /\ hist'.dead = h.dead
  BY <1>1, <1>2, <1>4 DEF HistType, Touch
<1> QED
  BY <1>3, <1>5

(* One turn of the loop of event_callback_finalize_many_: the callback     *)
(* that runs gets the finalizer, any other is cancelled.                   *)
LEMMA ManyNext ==
    ASSUME Inv, NEW t \in Threads, FinalizeNext(t)
    PROVE  \E c \in Callbacks, call \in CallType :
              /\ c = Group[thr[t].arg + 1] /\ c \in Elems(Group)
              /\ thr[t].st = "many" /\ thr[t].arg \in 0..(Len(Group) - 1)
              /\ thr' = [thr EXCEPT ![t] = call] /\ call.st = "many"
              /\ call.op = thr[t].op /\ call.arg = thr[t].arg + 1 /\ UNCHANGED hist
              /\ base.current_event = c =>
                    call.e = c /\ Becomes(event_callback_finalize_nolock_(State, t, c))
              /\ base.current_event # c =>
                    call.e = thr[t].e /\ Becomes(event_callback_cancel_nolock_(State, t, c))
<1>1. /\ thr \in [Threads -> CallType] /\ thr[t] \in CallType /\ thr[t].st = "many"
      /\ thr[t].arg \in 0..Len(Group) /\ thr[t].arg < Len(Group)
  <2>1. CallInv(t) /\ thr[t] \in CallType /\ thr[t].st = "many" /\ thr[t].arg < Len(Group)
    BY StateTypes DEF CallsInv, FinalizeNext
  <2> QED
    BY <2>1, StateTypes DEF CallInv
<1>2. PICK c : c = Group[thr[t].arg + 1]
  OBVIOUS
<1>3. Len(Group) \in Nat /\ thr[t].arg \in 0..(Len(Group) - 1) /\ c \in Callbacks /\ c \in Elems(Group)
  <2>1. Group \in Seq(Callbacks) /\ Len(Group) \in Nat
    BY EventBaseAssumption, SMT
  <2>2. thr[t].arg \in 0..(Len(Group) - 1) /\ thr[t].arg + 1 \in 1..Len(Group)
    BY <1>1, <2>1, SMT
  <2> QED
    BY <1>2, <2>1, <2>2, SMT DEF Elems
<1>4. PICK k : k = IF base.current_event = c THEN c ELSE thr[t].e
  OBVIOUS
<1>5. PICK n : n = thr[t].arg + 1
  OBVIOUS
<1>6. PICK call : call = [thr[t] EXCEPT !.arg = n, !.e = k]
  OBVIOUS
<1>7. thr' = [thr EXCEPT ![t].arg = @ + 1, ![t].e = IF base.current_event = c THEN c ELSE @]
  BY <1>2 DEF FinalizeNext
<1>8. k \in Callbacks \cup {NoCb} /\ n \in Int
  BY <1>1, <1>3, <1>4, <1>5, SMT DEF CallType
<1>9. /\ call \in CallType /\ call.st = "many" /\ call.op = thr[t].op /\ call.arg = n /\ call.e = k
      /\ thr' = [thr EXCEPT ![t] = call]
  BY <1>1, <1>4, <1>5, <1>6, <1>7, <1>8 DEF CallType
<1>10. /\ base.current_event = c => Becomes(event_callback_finalize_nolock_(State, t, c))
       /\ base.current_event # c => Becomes(event_callback_cancel_nolock_(State, t, c))
       /\ UNCHANGED hist
  BY <1>2 DEF FinalizeNext
<1>11. /\ c = Group[thr[t].arg + 1] /\ c \in Elems(Group)
       /\ thr[t].st = "many" /\ thr[t].arg \in 0..(Len(Group) - 1)
       /\ thr' = [thr EXCEPT ![t] = call] /\ call.st = "many"
       /\ call.op = thr[t].op /\ call.arg = thr[t].arg + 1 /\ UNCHANGED hist
  BY <1>1, <1>2, <1>3, <1>5, <1>9, <1>10
<1>12. /\ base.current_event = c =>
             call.e = c /\ Becomes(event_callback_finalize_nolock_(State, t, c))
       /\ base.current_event # c =>
             call.e = thr[t].e /\ Becomes(event_callback_cancel_nolock_(State, t, c))
  BY <1>4, <1>9, <1>10
<1> QED
  BY <1>3, <1>9, <1>11, <1>12

(* When it found none running, the first of the group gets the finalizer.  *)
LEMMA ManyLast ==
    ASSUME Inv, NEW t \in Threads, FinalizeLast(t)
    PROVE  /\ Group # <<>> /\ Group[1] \in Callbacks /\ Group[1] \in Elems(Group)
           /\ thr[t].st = "many" /\ thr[t].arg = Len(Group)
           /\ thr' = [thr EXCEPT ![t] = IdleCall] /\ UNCHANGED hist
           /\ thr[t].e = NoCb => Becomes(event_callback_finalize_nolock_(State, t, Group[1]))
           /\ thr[t].e # NoCb => UNCHANGED <<q, ev, base>>
<1>1. Group # <<>> /\ thr[t].st = "many" /\ thr[t].arg = Len(Group)
  <2>1. CallInv(t) /\ thr[t].st = "many" /\ thr[t].arg = Len(Group)
    BY StateTypes DEF CallsInv, FinalizeLast
  <2> QED
    BY <2>1 DEF CallInv
<1>2. Len(Group) \in Nat /\ Len(Group) > 0 /\ Group[1] \in Callbacks
  BY <1>1, EventBaseAssumption, SMT
<1>3. Group[1] \in Elems(Group)
  BY <1>2, SMT DEF Elems
<1>4. /\ thr' = [thr EXCEPT ![t] = IdleCall] /\ UNCHANGED hist
      /\ thr[t].e = NoCb => Becomes(event_callback_finalize_nolock_(State, t, Group[1]))
  BY DEF FinalizeLast, Returns
<1>5. thr[t].e # NoCb => Becomes(State)
  BY DEF FinalizeLast
<1>6. thr[t].e # NoCb => UNCHANGED <<q, ev, base>>
  BY <1>5, CallTypes DEF Becomes
<1> QED
  BY <1>1, <1>2, <1>3, <1>4, <1>6
=============================================================================
