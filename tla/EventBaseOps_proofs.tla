------------------------ MODULE EventBaseOps_proofs -------------------------
(***************************************************************************)
(* What the event_queue_* functions and the functions of EventBase that    *)
(* run under th_base_lock preserve, for any number of events, deferred     *)
(* callbacks, priorities and threads: the queues, the flags and the        *)
(* counters agree.  Also that the initial state satisfies the inductive    *)
(* invariant, and what the invariant says of the parts of the state.       *)
(***************************************************************************)
EXTENDS EventBase, TLAPS

(* Zenon, unless a step cites another prover. *)
USE Zenon

-----------------------------------------------------------------------------
(* A queue operation leaves the flags of the other callbacks alone.        *)
FlagsBut(qq, rr, e) == \A x \in Callbacks \ {e} : rr.flags[x] = qq.flags[x]

(* A queue operation leaves F in the flags of c.                           *)
Writes(qq, rr, c, F) == QueuesOK(rr) /\ FlagsBut(qq, rr, c) /\ rr.flags[c] = F

(* A queue operation keeps the bookkeeping in order and leaves the marks.  *)
Keeps(qq, rr) ==
    /\ QueuesOK(rr)
    /\ \A c \in Callbacks : "FINALIZING" \in rr.flags[c] <=> "FINALIZING" \in qq.flags[c]

(* Each event_queue_* function, where its check passes, writes one flag of *)
(* its callback and keeps the queues and the counters in step with it.     *)
FlagLaws(qq, c) ==
    /\ "INSERTED" \notin qq.flags[c] =>
          Writes(qq, event_queue_insert_inserted(qq, c), c, qq.flags[c] \cup {"INSERTED"})
    /\ "INSERTED" \in qq.flags[c] =>
          Writes(qq, event_queue_remove_inserted(qq, c), c, qq.flags[c] \ {"INSERTED"})
    /\ "TIMEOUT" \notin qq.flags[c] =>
          Writes(qq, event_queue_insert_timeout(qq, c), c, qq.flags[c] \cup {"TIMEOUT"})
    /\ "TIMEOUT" \in qq.flags[c] =>
          Writes(qq, event_queue_remove_timeout(qq, c), c, qq.flags[c] \ {"TIMEOUT"})
    /\ qq.flags[c] \cap {"ACTIVE", "ACTIVE_LATER"} = {} =>
          Writes(qq, event_queue_insert_active(qq, c), c, qq.flags[c] \cup {"ACTIVE"})
    /\ qq.flags[c] \cap {"ACTIVE", "ACTIVE_LATER"} = {} =>
          Writes(qq, event_queue_insert_active_later(qq, c), c, qq.flags[c] \cup {"ACTIVE_LATER"})
    /\ "ACTIVE" \in qq.flags[c] =>
          Writes(qq, event_queue_remove_active(qq, c), c, qq.flags[c] \ {"ACTIVE"})
    /\ "ACTIVE_LATER" \in qq.flags[c] =>
          Writes(qq, event_queue_remove_active_later(qq, c), c, qq.flags[c] \ {"ACTIVE_LATER"})

(* A turn of event_queue_make_later_events_active moves the head of the    *)
(* queue for later.                                                        *)
LaterLaw(qq) ==
    LET c == Head(qq.active_later_queue)
        rr == make_later_event_active(qq)
    IN  /\ c \in Callbacks /\ QueuesOK(rr) /\ rr.pri = qq.pri
        /\ rr.flags = [qq.flags EXCEPT ![c] = (@ \ {"ACTIVE_LATER"}) \cup {"ACTIVE"}]

(* What Parts_proofs shows of consistent bookkeeping, in the form that     *)
(* the proofs about the base use.  The theorems about the base discharge   *)
(* it with QueueLawsHold.                                                  *)
QueueLaws ==
    /\ Cardinality({}) = 0
    /\ \A qq : QueuesOK(qq) =>
          /\ qq.event_count_active = 0 => ActiveCallbacks(qq) = {}
          /\ qq.active_later_queue # <<>> => LaterLaw(qq)
          /\ \A c \in Callbacks : FlagLaws(qq, c)

(* The queue operations, each where its check passes, write one flag.      *)
LEMMA QueueFlagOps ==
    ASSUME QueueLaws, NEW qq, QueuesOK(qq), NEW c \in Callbacks
    PROVE  /\ "INSERTED" \notin qq.flags[c] =>
                 Writes(qq, event_queue_insert_inserted(qq, c), c, qq.flags[c] \cup {"INSERTED"})
           /\ "INSERTED" \in qq.flags[c] =>
                 Writes(qq, event_queue_remove_inserted(qq, c), c, qq.flags[c] \ {"INSERTED"})
           /\ "TIMEOUT" \notin qq.flags[c] =>
                 Writes(qq, event_queue_insert_timeout(qq, c), c, qq.flags[c] \cup {"TIMEOUT"})
           /\ "TIMEOUT" \in qq.flags[c] =>
                 Writes(qq, event_queue_remove_timeout(qq, c), c, qq.flags[c] \ {"TIMEOUT"})
           /\ qq.flags[c] \cap {"ACTIVE", "ACTIVE_LATER"} = {} =>
                 Writes(qq, event_queue_insert_active(qq, c), c, qq.flags[c] \cup {"ACTIVE"})
           /\ qq.flags[c] \cap {"ACTIVE", "ACTIVE_LATER"} = {} =>
                 Writes(qq, event_queue_insert_active_later(qq, c), c, qq.flags[c] \cup {"ACTIVE_LATER"})
           /\ "ACTIVE" \in qq.flags[c] =>
                 Writes(qq, event_queue_remove_active(qq, c), c, qq.flags[c] \ {"ACTIVE"})
           /\ "ACTIVE_LATER" \in qq.flags[c] =>
                 Writes(qq, event_queue_remove_active_later(qq, c), c, qq.flags[c] \ {"ACTIVE_LATER"})
<1>1. FlagLaws(qq, c)
  BY DEF QueueLaws
<1> QED
  BY <1>1 DEF FlagLaws

(* The queue operations leave the marks.                                   *)
LEMMA QueueOps ==
    ASSUME QueueLaws, NEW qq, QueuesOK(qq), NEW c \in Callbacks
    PROVE  /\ "INSERTED" \notin qq.flags[c] => Keeps(qq, event_queue_insert_inserted(qq, c))
           /\ "INSERTED" \in qq.flags[c] => Keeps(qq, event_queue_remove_inserted(qq, c))
           /\ "TIMEOUT" \notin qq.flags[c] => Keeps(qq, event_queue_insert_timeout(qq, c))
           /\ "TIMEOUT" \in qq.flags[c] => Keeps(qq, event_queue_remove_timeout(qq, c))
           /\ qq.flags[c] \cap {"ACTIVE", "ACTIVE_LATER"} = {} =>
                 /\ Keeps(qq, event_queue_insert_active(qq, c))
                 /\ Keeps(qq, event_queue_insert_active_later(qq, c))
           /\ "ACTIVE" \in qq.flags[c] => Keeps(qq, event_queue_remove_active(qq, c))
           /\ "ACTIVE_LATER" \in qq.flags[c] =>
                 Keeps(qq, event_queue_remove_active_later(qq, c))
<1>1. ASSUME NEW rr, NEW F, Writes(qq, rr, c, F),
             "FINALIZING" \in F <=> "FINALIZING" \in qq.flags[c]
      PROVE  Keeps(qq, rr)
  BY <1>1 DEF Writes, FlagsBut, Keeps
<1>2. \A f \in QueueFlags :
         /\ "FINALIZING" \in qq.flags[c] \cup {f} <=> "FINALIZING" \in qq.flags[c]
         /\ "FINALIZING" \in qq.flags[c] \ {f} <=> "FINALIZING" \in qq.flags[c]
  BY DEF QueueFlags
<1>3. {"INSERTED", "TIMEOUT", "ACTIVE", "ACTIVE_LATER"} = QueueFlags
  BY DEF QueueFlags
<1> QED
  BY <1>1, <1>2, <1>3, QueueFlagOps

(* Queue operations compose.                                               *)
LEMMA KeepsTrans ==
    ASSUME NEW q1, NEW q2, NEW q3, Keeps(q1, q2), Keeps(q2, q3)
    PROVE  Keeps(q1, q3)
BY DEF Keeps

(* A turn of event_queue_make_later_events_active keeps the bookkeeping.   *)
LEMMA LaterActive ==
    ASSUME QueueLaws, NEW qq, QueuesOK(qq), qq.active_later_queue # <<>>
    PROVE  LET rr == make_later_event_active(qq)
           IN  /\ Head(qq.active_later_queue) \in Callbacks
               /\ QueuesOK(rr) /\ rr.pri = qq.pri
               /\ rr.flags = [qq.flags EXCEPT ![Head(qq.active_later_queue)] =
                                  (@ \ {"ACTIVE_LATER"}) \cup {"ACTIVE"}]
<1>1. LaterLaw(qq)
  BY DEF QueueLaws
<1> QED
  BY <1>1 DEF LaterLaw

-----------------------------------------------------------------------------
(* EVLIST_FINALIZING puts a callback on no structure.                      *)
LEMMA SetFinalizingFlag ==
    ASSUME NEW qq, QueuesOK(qq), NEW c \in Callbacks
    PROVE  LET rr == [qq EXCEPT !.flags[c] = @ \cup {"FINALIZING"}]
           IN  /\ QueuesOK(rr) /\ rr.pri = qq.pri
               /\ rr.flags = [qq.flags EXCEPT ![c] = @ \cup {"FINALIZING"}]
<1>1. /\ qq \in BookkeepingType /\ QueuesMatchFlags(qq) /\ qq.fatal = FALSE
      /\ qq.flags \in [Callbacks -> SUBSET Flags] /\ CountersMatchFlags(qq)
  BY DEF QueuesOK, BookkeepingType
<1>2. PICK rr : rr = [qq EXCEPT !.flags[c] = @ \cup {"FINALIZING"}]
  OBVIOUS
<1>3. /\ rr.flags = [qq.flags EXCEPT ![c] = @ \cup {"FINALIZING"}]
      /\ rr \in BookkeepingType /\ rr.pri = qq.pri
      /\ rr.activequeues = qq.activequeues /\ rr.event_count = qq.event_count
      /\ rr.active_later_queue = qq.active_later_queue
      /\ rr.event_count_active = qq.event_count_active /\ rr.fatal = qq.fatal
  <2>1. [qq.flags EXCEPT ![c] = @ \cup {"FINALIZING"}] \in [Callbacks -> SUBSET Flags]
    BY <1>1 DEF Flags
  <2> QED
    BY <2>1, <1>1, <1>2 DEF BookkeepingType
<1>4. \A x \in Callbacks, f \in QueueFlags : f \in rr.flags[x] <=> f \in qq.flags[x]
  BY <1>1, <1>3 DEF QueueFlags
<1>5. /\ \A x \in Callbacks : "ACTIVE" \in rr.flags[x] <=> "ACTIVE" \in qq.flags[x]
      /\ \A x \in Callbacks : "ACTIVE_LATER" \in rr.flags[x] <=> "ACTIVE_LATER" \in qq.flags[x]
  BY <1>4 DEF QueueFlags
<1>6. QueuesMatchFlags(rr)
  BY <1>1, <1>3, <1>5, SMT DEF QueuesMatchFlags
<1>7. ActiveCallbacks(rr) = ActiveCallbacks(qq) /\ CountedFlags(rr) = CountedFlags(qq)
  BY <1>4, <1>5 DEF ActiveCallbacks, CountedFlags
<1> QED
  BY <1>1, <1>2, <1>3, <1>6, <1>7 DEF QueuesOK, CountersMatchFlags

(* A priority may change while the callback is on no active queue.         *)
LEMMA SetPriority ==
    ASSUME NEW qq, QueuesOK(qq), NEW c \in Callbacks, NEW p \in Priorities,
           "ACTIVE" \notin qq.flags[c]
    PROVE  LET rr == [qq EXCEPT !.pri[c] = p]
           IN  QueuesOK(rr) /\ rr.flags = qq.flags
<1>1. /\ qq \in BookkeepingType /\ QueuesMatchFlags(qq) /\ qq.fatal = FALSE
      /\ qq.flags \in [Callbacks -> SUBSET Flags] /\ CountersMatchFlags(qq)
  BY DEF QueuesOK, BookkeepingType
<1>2. PICK rr : rr = [qq EXCEPT !.pri[c] = p]
  OBVIOUS
<1>3. /\ rr.flags = qq.flags /\ rr.pri = [qq.pri EXCEPT ![c] = p]
      /\ rr \in BookkeepingType
      /\ rr.activequeues = qq.activequeues /\ rr.event_count = qq.event_count
      /\ rr.active_later_queue = qq.active_later_queue
      /\ rr.event_count_active = qq.event_count_active /\ rr.fatal = qq.fatal
  BY <1>1, <1>2 DEF BookkeepingType
<1>4. ASSUME NEW r \in Priorities
      PROVE  {x \in Callbacks : "ACTIVE" \in rr.flags[x] /\ rr.pri[x] = r}
               = {x \in Callbacks : "ACTIVE" \in qq.flags[x] /\ qq.pri[x] = r}
  <2>1. \A x \in Callbacks : "ACTIVE" \in qq.flags[x] => rr.pri[x] = qq.pri[x]
    BY <1>1, <1>3 DEF BookkeepingType
  <2> QED
    BY <2>1, <1>3
<1>5. QueuesMatchFlags(rr)
  BY <1>1, <1>3, <1>4 DEF QueuesMatchFlags
<1>6. ActiveCallbacks(rr) = ActiveCallbacks(qq) /\ CountedFlags(rr) = CountedFlags(qq)
  BY <1>3 DEF ActiveCallbacks, CountedFlags
<1> QED
  BY <1>1, <1>2, <1>3, <1>5, <1>6 DEF QueuesOK, CountersMatchFlags

-----------------------------------------------------------------------------
(* The head of an active queue is active.                                  *)
LEMMA HeadActive ==
    ASSUME NEW qq, QueuesOK(qq), NEW p \in Priorities, qq.activequeues[p] # <<>>
    PROVE  /\ Head(qq.activequeues[p]) \in Callbacks
           /\ "ACTIVE" \in qq.flags[Head(qq.activequeues[p])]
<1>1. qq.activequeues[p] \in Seq(Callbacks)
  BY DEF QueuesOK, BookkeepingType
<1>2. PICK s \in Seq(Callbacks) : s = qq.activequeues[p]
  BY <1>1
<1>3. 1 \in 1..Len(s) /\ Head(s) = s[1]
  BY <1>2, SMT
<1>4. Head(s) \in Elems(s)
  BY <1>3 DEF Elems
<1> QED
  BY <1>2, <1>4 DEF QueuesOK, QueuesMatchFlags

-----------------------------------------------------------------------------
(* What the functions that hold th_base_lock work on.                      *)
StateType == [q : BookkeepingType, ev : [Callbacks -> EventType], base : BaseType]

Sound(s) == QueueLaws /\ s \in StateType /\ QueuesOK(s.q)

(* r has the finalizers, and the marks for them, that s has.               *)
SameFinal(s, r) ==
    \A c \in Callbacks :
        /\ r.ev[c].closure = s.ev[c].closure
        /\ "FINALIZING" \in r.q.flags[c] <=> "FINALIZING" \in s.q.flags[c]

(* No closure is a finalizer unless the callback is marked.                *)
FinalizersMarked(s) ==
    \A c \in Callbacks :
        s.ev[c].closure = "finalize" => "FINALIZING" \in s.q.flags[c]

-----------------------------------------------------------------------------
(* Replacing the fields of the base leaves queues and events alone.        *)
LEMMA WithBase ==
    ASSUME NEW s, Sound(s), NEW b \in BaseType
    PROVE  LET r == [s EXCEPT !.base = b]
           IN  Sound(r) /\ SameFinal(s, r) /\ r.q = s.q /\ r.ev = s.ev /\ r.base = b
BY DEF Sound, StateType, SameFinal

(* Replacing the queues by consistent ones keeps a sound state sound.      *)
LEMMA WithQueues ==
    ASSUME NEW s, Sound(s), NEW qq, QueuesOK(qq)
    PROVE  LET r == [s EXCEPT !.q = qq]
           IN  Sound(r) /\ r.q = qq /\ r.ev = s.ev /\ r.base = s.base
BY DEF Sound, StateType, QueuesOK

(* Replacing the fields of the events leaves queues and base alone.        *)
LEMMA WithEvents ==
    ASSUME NEW s, Sound(s), NEW x \in [Callbacks -> EventType]
    PROVE  LET r == [s EXCEPT !.ev = x]
           IN  Sound(r) /\ r.q = s.q /\ r.ev = x /\ r.base = s.base
BY DEF Sound, StateType

(* The types of the parts of a sound state.                                *)
LEMMA SoundParts ==
    ASSUME NEW s, Sound(s)
    PROVE  /\ QueueLaws /\ s.q \in BookkeepingType /\ QueuesOK(s.q)
           /\ s.ev \in [Callbacks -> EventType] /\ s.base \in BaseType
           /\ s.q.flags \in [Callbacks -> SUBSET Flags]
BY DEF Sound, StateType, QueuesOK, BookkeepingType

-----------------------------------------------------------------------------
(* evthread_notify_base writes the two notification fields only.           *)
LEMMA NotifyBase ==
    ASSUME NEW s, Sound(s), NEW t
    PROVE  LET r == evthread_notify_base(s, t)
           IN  Sound(r) /\ SameFinal(s, r) /\ r.q = s.q /\ r.ev = s.ev
<1>1. [s.base EXCEPT !.is_notify_pending = TRUE, !.th_notify_fd = 1] \in BaseType
  BY SoundParts, ZenonT(30) DEF BaseType
<1>2. SameFinal(s, s)
  BY DEF SameFinal
<1>3. PICK b \in BaseType : b = [s.base EXCEPT !.is_notify_pending = TRUE, !.th_notify_fd = 1]
  BY <1>1
<1>4. [s EXCEPT !.base.is_notify_pending = TRUE, !.base.th_notify_fd = 1] = [s EXCEPT !.base = b]
  BY <1>3, SoundParts DEF Sound, StateType, BaseType
<1> QED
  BY <1>2, <1>3, <1>4, WithBase, SMT DEF evthread_notify_base

(* event_del_nolock_ takes the callback off every queue.                   *)
LEMMA DelQueuesFlags ==
    ASSUME QueueLaws, NEW qq, QueuesOK(qq), NEW e \in Callbacks
    PROVE  Writes(qq, DelQueues(qq, e), e, qq.flags[e] \ QueueFlags)
<1> DEFINE q1 == IF "TIMEOUT" \in qq.flags[e]
                 THEN event_queue_remove_timeout(qq, e) ELSE qq
           q2 == IF "ACTIVE" \in q1.flags[e]
                 THEN event_queue_remove_active(q1, e)
                 ELSE IF "ACTIVE_LATER" \in q1.flags[e]
                 THEN event_queue_remove_active_later(q1, e) ELSE q1
           q3 == IF "INSERTED" \in q2.flags[e]
                 THEN event_queue_remove_inserted(q2, e) ELSE q2
<1>0. ~({"ACTIVE", "ACTIVE_LATER"} \subseteq qq.flags[e])
  BY DEF QueuesOK, QueuesMatchFlags
<1>1. Writes(qq, q1, e, qq.flags[e] \ {"TIMEOUT"})
  BY QueueFlagOps, SMT DEF Writes, FlagsBut
<1> HIDE DEF q1
<1>2. Writes(q1, q2, e, q1.flags[e] \ {"ACTIVE", "ACTIVE_LATER"})
  BY <1>0, <1>1, QueueFlagOps, SMT DEF Writes, FlagsBut
<1> HIDE DEF q2
<1>3. Writes(q2, q3, e, q2.flags[e] \ {"INSERTED"})
  BY <1>2, QueueFlagOps, SMT DEF Writes, FlagsBut
<1>4. DelQueues(qq, e) = q3
  BY DEF DelQueues, q1, q2
<1> HIDE DEF q3
<1> QED
  BY <1>1, <1>2, <1>3, <1>4 DEF Writes, FlagsBut, QueueFlags

(* event_add_nolock_ works on its event only.                              *)
LEMMA AddQueuesFlags ==
    ASSUME QueueLaws, NEW s, QueuesOK(s.q), NEW e \in Callbacks, NEW tv
    PROVE  /\ QueuesOK(AddQueues(s, e, tv)) /\ FlagsBut(s.q, AddQueues(s, e, tv), e)
           /\ "FINALIZING" \in AddQueues(s, e, tv).flags[e] <=> "FINALIZING" \in s.q.flags[e]
<1> DEFINE q1 == IF AddsToMap(s, e) THEN event_queue_insert_inserted(s.q, e) ELSE s.q
           q2 == IF "TIMEOUT" \in q1.flags[e]
                 THEN event_queue_remove_timeout(q1, e) ELSE q1
           q3 == IF ActiveByTimeout(s, e) THEN event_queue_remove_active(q2, e) ELSE q2
           q4 == event_queue_insert_timeout(q3, e)
<1>1. Writes(s.q, q1, e, s.q.flags[e] \cup (IF AddsToMap(s, e) THEN {"INSERTED"} ELSE {}))
  BY QueueFlagOps, SMT DEF Writes, FlagsBut, AddsToMap
<1>5. AddQueues(s, e, tv) = IF tv = NoTv THEN q1 ELSE q4
  BY DEF AddQueues
<1> HIDE DEF q1
<1>2. Writes(q1, q2, e, q1.flags[e] \ {"TIMEOUT"})
  BY <1>1, QueueFlagOps, SMT DEF Writes, FlagsBut
<1> HIDE DEF q2
<1>3. Writes(q2, q3, e, q2.flags[e] \ (IF ActiveByTimeout(s, e) THEN {"ACTIVE"} ELSE {}))
  <2>1. ActiveByTimeout(s, e) => "ACTIVE" \in q2.flags[e]
    BY <1>1, <1>2 DEF Writes, ActiveByTimeout
  <2> QED
    BY <1>2, <2>1, QueueFlagOps, SMT DEF Writes, FlagsBut
<1> HIDE DEF q3
<1>4. Writes(q3, q4, e, q3.flags[e] \cup {"TIMEOUT"})
  BY <1>2, <1>3, QueueFlagOps, SMT DEF Writes, FlagsBut
<1> HIDE DEF q4
<1> QED
  BY <1>1, <1>2, <1>3, <1>4, <1>5, ZenonT(30) DEF Writes, FlagsBut

(* Taking an event off its queues leaves its marks alone.                  *)
LEMMA DelQueuesKeeps ==
    ASSUME QueueLaws, NEW qq, QueuesOK(qq), NEW e \in Callbacks
    PROVE  Keeps(qq, DelQueues(qq, e))
BY DelQueuesFlags, SMT DEF Writes, FlagsBut, Keeps, QueueFlags

(* event_add_nolock_ leaves the marks too.                                 *)
LEMMA AddQueuesKeeps ==
    ASSUME QueueLaws, NEW s, QueuesOK(s.q), NEW e \in Callbacks, NEW tv
    PROVE  Keeps(s.q, AddQueues(s, e, tv))
BY AddQueuesFlags, SMT DEF FlagsBut, Keeps

-----------------------------------------------------------------------------
(* A function of event.c took s to r: the bookkeeping is still in order,   *)
(* and no finalizer came or went.                                          *)
Ok(s, r) == Sound(r) /\ SameFinal(s, r)

(* Doing nothing is a sound operation.                                     *)
LEMMA OkRefl ==
    ASSUME NEW s, Sound(s)
    PROVE  Ok(s, s)
BY DEF Ok, SameFinal

(* Sound operations compose.                                               *)
LEMMA OkTrans ==
    ASSUME NEW s1, NEW s2, NEW s3, Ok(s1, s2), Ok(s2, s3)
    PROVE  Ok(s1, s3)
BY DEF Ok, SameFinal

(* An operation on the queues that keeps them consistent is sound.         *)
LEMMA OkQueues ==
    ASSUME NEW s, Sound(s), NEW qq, Keeps(s.q, qq)
    PROVE  Ok(s, [s EXCEPT !.q = qq])
<1>1. PICK r : r = [s EXCEPT !.q = qq]
  OBVIOUS
<1>2. Sound(r) /\ r.q = qq /\ r.ev = s.ev
  BY <1>1, WithQueues DEF Keeps
<1> QED
  BY <1>1, <1>2 DEF Ok, SameFinal, Keeps

(* Writing fields of the base is sound.                                    *)
LEMMA OkBase ==
    ASSUME NEW s, Sound(s), NEW b \in BaseType
    PROVE  Ok(s, [s EXCEPT !.base = b])
BY WithBase DEF Ok

(* Writing fields of events other than the closure is sound.               *)
LEMMA OkEvents ==
    ASSUME NEW s, Sound(s), NEW x \in [Callbacks -> EventType],
           \A c \in Callbacks : x[c].closure = s.ev[c].closure
    PROVE  Ok(s, [s EXCEPT !.ev = x])
<1>1. PICK r : r = [s EXCEPT !.ev = x]
  OBVIOUS
<1>2. Sound(r) /\ r.q = s.q /\ r.ev = x
  BY <1>1, WithEvents
<1> QED
  BY <1>1, <1>2 DEF Ok, SameFinal

(* evthread_notify_base is sound.                                          *)
LEMMA OkNotify ==
    ASSUME NEW s, Sound(s), NEW t
    PROVE  Ok(s, evthread_notify_base(s, t))
BY NotifyBase DEF Ok

(* The cached time is a number of ticks.                                   *)
LEMMA gettimeType ==
    ASSUME NEW s, Sound(s)
    PROVE  gettime(s) \in Int
BY SoundParts, SMT DEF gettime, BaseType, NoTv

-----------------------------------------------------------------------------
(* event_callback_activate_nolock_ is sound.                               *)
LEMMA OkActivate ==
    ASSUME NEW s, Sound(s), NEW t, NEW c \in Callbacks
    PROVE  Ok(s, event_callback_activate_nolock_(s, t, c))
<1> DEFINE q1 == IF "ACTIVE_LATER" \in s.q.flags[c]
                 THEN event_queue_remove_active_later(s.q, c) ELSE s.q
           s1 == [s EXCEPT !.q = event_queue_insert_active(q1, c)]
<1>1. CASE s.q.flags[c] \cap {"FINALIZING", "ACTIVE"} # {}
  BY <1>1, OkRefl DEF event_callback_activate_nolock_
<1>2. CASE s.q.flags[c] \cap {"FINALIZING", "ACTIVE"} = {}
  <2>1. QueueLaws /\ QueuesOK(s.q) /\ s.q.flags \in [Callbacks -> SUBSET Flags]
    BY SoundParts
  <2>2. Keeps(s.q, q1) /\ q1.flags[c] \cap {"ACTIVE", "ACTIVE_LATER"} = {}
    <3>1. CASE "ACTIVE_LATER" \in s.q.flags[c]
      <4>1. PICK rr : rr = event_queue_remove_active_later(s.q, c)
        OBVIOUS
      <4>2. rr.flags[c] = s.q.flags[c] \ {"ACTIVE_LATER"}
        BY <2>1, <3>1, <4>1, QueueFlagOps, ZenonT(30) DEF Writes
      <4>3. Keeps(s.q, rr)
        BY <2>1, <3>1, <4>1, QueueOps
      <4> QED
        BY <1>2, <2>1, <3>1, <4>1, <4>2, <4>3
    <3>2. CASE "ACTIVE_LATER" \notin s.q.flags[c]
      BY <1>2, <2>1, <3>2 DEF Keeps
    <3> QED
      BY <3>1, <3>2
  <2> HIDE DEF q1
  <2>3. Keeps(q1, event_queue_insert_active(q1, c))
    BY <2>1, <2>2, QueueOps DEF Keeps
  <2>4. Ok(s, s1)
    BY <2>2, <2>3, KeepsTrans, OkQueues
  <2>5. event_callback_activate_nolock_(s, t, c) = evthread_notify_base(s1, t)
    BY <1>2 DEF event_callback_activate_nolock_, q1
  <2> HIDE DEF s1
  <2>6. Ok(s1, evthread_notify_base(s1, t))
    BY <2>4, OkNotify DEF Ok
  <2> QED
    BY <2>4, <2>5, <2>6, OkTrans
<1> QED
  BY <1>1, <1>2

(* event_callback_activate_later_nolock_ is sound.                         *)
LEMMA OkActivateLater ==
    ASSUME NEW s, Sound(s), NEW t, NEW c \in Callbacks
    PROVE  Ok(s, event_callback_activate_later_nolock_(s, t, c))
<1> DEFINE s1 == [s EXCEPT !.q = event_queue_insert_active_later(s.q, c)]
<1>1. CASE s.q.flags[c] \cap {"ACTIVE", "ACTIVE_LATER"} # {}
  BY <1>1, OkRefl DEF event_callback_activate_later_nolock_
<1>2. CASE s.q.flags[c] \cap {"ACTIVE", "ACTIVE_LATER"} = {}
  <2>1. Keeps(s.q, event_queue_insert_active_later(s.q, c))
    BY <1>2, SoundParts, QueueOps
  <2>2. Ok(s, s1)
    BY <2>1, OkQueues
  <2>3. event_callback_activate_later_nolock_(s, t, c) = evthread_notify_base(s1, t)
    BY <1>2 DEF event_callback_activate_later_nolock_
  <2> HIDE DEF s1
  <2>4. Ok(s1, evthread_notify_base(s1, t))
    BY <2>2, OkNotify DEF Ok
  <2> QED
    BY <2>2, <2>3, <2>4, OkTrans
<1> QED
  BY <1>1, <1>2

(* Storing zero through ev_pncalls is sound.                               *)
LEMMA OkAbortLoop ==
    ASSUME NEW s, Sound(s), NEW e
    PROVE  Ok(s, AbortLoop(s, e)) /\ AbortLoop(s, e).q = s.q
           /\ AbortLoop(s, e).ev = s.ev
<1>1. [s.base EXCEPT !.closure_ncalls = 0] \in BaseType
  BY SoundParts, SMT DEF BaseType
<1> QED
  BY <1>1, WithBase, OkRefl DEF AbortLoop, Ok

(* The first half of event_active_nolock_ is sound.                        *)
LEMMA OkActiveRes ==
    ASSUME NEW s, Sound(s), NEW e \in Callbacks, NEW res \in SUBSET {"EV_TIMEOUT"}
    PROVE  Ok(s, ActiveRes(s, e, res)) /\ ActiveRes(s, e, res).q = s.q
<1> DEFINE was == s.q.flags[e] \cap {"ACTIVE", "ACTIVE_LATER"}
           x == [s.ev EXCEPT ![e].res = IF was = {} THEN res ELSE @ \cup res]
           b == [s.base EXCEPT !.event_continue =
                      @ \/ /\ "ACTIVE" \notin was
                           /\ s.q.pri[e] < s.base.event_running_priority]
           s1 == [s EXCEPT !.ev = x]
           s2 == [s1 EXCEPT !.base = b]
<1>1. x \in [Callbacks -> EventType] /\ \A c \in Callbacks : x[c].closure = s.ev[c].closure
  BY SoundParts, SMT DEF EventType
<1>2. b \in BaseType
  <2>1. PICK v \in BOOLEAN :
          v = (s.base.event_continue
               \/ /\ "ACTIVE" \notin s.q.flags[e] \cap {"ACTIVE", "ACTIVE_LATER"}
                  /\ s.q.pri[e] < s.base.event_running_priority)
    OBVIOUS
  <2>2. b = [s.base EXCEPT !.event_continue = v]
    BY <2>1
  <2> HIDE DEF b
  <2> QED
    BY <2>2, SoundParts, SMT DEF BaseType
<1>3. ActiveRes(s, e, res) = s2
  BY SoundParts DEF ActiveRes, Sound, StateType
<1> HIDE DEF x, b
<1>4. Ok(s, s1) /\ s1.q = s.q
  BY <1>1, OkEvents, WithEvents
<1> HIDE DEF s1
<1>5. Ok(s1, s2) /\ s2.q = s1.q
  BY <1>2, <1>4, OkBase, WithBase DEF Ok
<1> QED
  BY <1>3, <1>4, <1>5, OkTrans

(* The second half of event_active_nolock_ is sound.                       *)
LEMMA OkActiveInsert ==
    ASSUME NEW s, Sound(s), NEW t, NEW e \in Callbacks, NEW ncalls \in Int
    PROVE  Ok(s, ActiveInsert(s, t, e, ncalls))
<1> DEFINE x == [s.ev EXCEPT ![e].ncalls = ncalls, ![e].pncalls = FALSE]
           s1 == IF e \in SigEvents THEN [s EXCEPT !.ev = x] ELSE s
<1>1. x \in [Callbacks -> EventType] /\ \A c \in Callbacks : x[c].closure = s.ev[c].closure
  <2>1. s.ev \in [Callbacks -> EventType]
    BY SoundParts
  <2>2. PICK r : r = [s.ev[e] EXCEPT !.ncalls = ncalls, !.pncalls = FALSE]
    OBVIOUS
  <2>3. r \in EventType /\ r.closure = s.ev[e].closure
    BY <2>1, <2>2 DEF EventType
  <2>4. x = [s.ev EXCEPT ![e] = r]
    BY <2>1, <2>2
  <2> QED
    BY <2>1, <2>3, <2>4
<1>2. ActiveInsert(s, t, e, ncalls) = event_callback_activate_nolock_(s1, t, e)
  <2>1. [s EXCEPT !.ev[e].ncalls = ncalls, !.ev[e].pncalls = FALSE] = [s EXCEPT !.ev = x]
    BY SoundParts DEF Sound, StateType, EventType
  <2> QED
    BY <2>1 DEF ActiveInsert
<1> HIDE DEF x
<1>3. Ok(s, s1)
  BY <1>1, OkEvents, OkRefl
<1> HIDE DEF s1
<1>4. Ok(s1, event_callback_activate_nolock_(s1, t, e))
  BY <1>3, OkActivate DEF Ok
<1> QED
  BY <1>2, <1>3, <1>4, OkTrans

(* event_active_nolock_ is sound.                                          *)
LEMMA OkActive ==
    ASSUME NEW s, Sound(s), NEW t, NEW e \in Callbacks,
           NEW res \in SUBSET {"EV_TIMEOUT"}, NEW ncalls \in Int
    PROVE  Ok(s, event_active_nolock_(s, t, e, res, ncalls))
<1>1. Ok(s, ActiveRes(s, e, res))
  BY OkActiveRes
<1>2. Ok(s, ActiveInsert(ActiveRes(s, e, res), t, e, ncalls))
  BY <1>1, OkActiveInsert, OkTrans, SMT DEF Ok
<1> QED
  BY <1>1, <1>2, OkRefl DEF event_active_nolock_

(* The body of event_del_nolock_ is sound.                                 *)
LEMMA OkDelBody ==
    ASSUME NEW s, Sound(s), NEW t, NEW e \in Callbacks
    PROVE  Ok(s, DelBody(s, t, e))
<1> DEFINE a == AbortLoop(s, e)
           s1 == [a EXCEPT !.q = DelQueues(a.q, e)]
<1>1. Ok(s, a)
  BY OkAbortLoop
<1>2. DelBody(s, t, e) = IF "INSERTED" \in s.q.flags[e]
                         THEN evthread_notify_base(s1, t) ELSE s1
  BY DEF DelBody
<1> HIDE DEF a
<1>3. Ok(a, s1)
  <2>1. Keeps(a.q, DelQueues(a.q, e))
    BY <1>1, DelQueuesKeeps DEF Ok, Sound
  <2> QED
    BY <1>1, <2>1, OkQueues DEF Ok
<1> HIDE DEF s1
<1>4. Ok(s1, evthread_notify_base(s1, t))
  BY <1>3, OkNotify DEF Ok
<1>5. Ok(s, s1)
  BY <1>1, <1>3, OkTrans
<1>6. Ok(s, evthread_notify_base(s1, t))
  BY <1>4, <1>5, OkTrans
<1> QED
  BY <1>2, <1>5, <1>6

(* event_del_nolock_ is sound.                                             *)
LEMMA OkDel ==
    ASSUME NEW s, Sound(s), NEW t, NEW e \in Callbacks
    PROVE  Ok(s, event_del_nolock_(s, t, e))
BY OkDelBody, OkRefl DEF event_del_nolock_

(* event_callback_cancel_nolock_ is sound.                                 *)
LEMMA OkCancel ==
    ASSUME NEW s, Sound(s), NEW t, NEW c \in Callbacks
    PROVE  Ok(s, event_callback_cancel_nolock_(s, t, c))
<1>1. "ACTIVE" \in s.q.flags[c] => Ok(s, [s EXCEPT !.q = event_queue_remove_active(s.q, c)])
  BY SoundParts, QueueOps, OkQueues
<1>2. "ACTIVE_LATER" \in s.q.flags[c]
        => Ok(s, [s EXCEPT !.q = event_queue_remove_active_later(s.q, c)])
  BY SoundParts, QueueOps, OkQueues
<1> QED
  BY <1>1, <1>2, OkDel, OkRefl DEF event_callback_cancel_nolock_

(* An interval passed to event_add is not negative.                        *)
LEMMA OkAddBody ==
    ASSUME NEW s, Sound(s), NEW t, NEW e \in Callbacks, NEW tv \in Int,
           NEW tv_is_absolute \in BOOLEAN,
           ~tv_is_absolute => tv = NoTv \/ tv \in Nat
    PROVE  Ok(s, AddBody(s, t, e, tv, tv_is_absolute))
<1> DEFINE s1 == IF tv # NoTv /\ ActiveByTimeout(s, e) THEN AbortLoop(s, e) ELSE s
           q1 == AddQueues(s, e, tv)
           io == IF e \in Persist \ SigEvents /\ tv # NoTv /\ ~tv_is_absolute
                 THEN tv ELSE s1.ev[e].io_timeout
           to == IF tv = NoTv THEN s1.ev[e].timeout
                 ELSE IF tv_is_absolute THEN tv ELSE gettime(s) + tv
           x == [s1.ev EXCEPT ![e].io_timeout = io, ![e].timeout = to]
           s2 == [s1 EXCEPT !.q = q1]
           s3 == [s2 EXCEPT !.ev = x]
           n3 == evthread_notify_base(s3, t)
<1>1. Ok(s, s1) /\ s1.q = s.q /\ s1.ev = s.ev
  BY OkAbortLoop, OkRefl
<1>2. s1 \in StateType
  BY <1>1 DEF Ok, Sound
<1>3. AddBody(s, t, e, tv, tv_is_absolute) \in {s3, n3}
  <2> HIDE DEF s1
  <2> DEFINE s9 == [s1 EXCEPT
                !.q = AddQueues(s, e, tv),
                !.ev[e].io_timeout =
                    IF e \in Persist \ SigEvents /\ tv # NoTv /\ ~tv_is_absolute
                    THEN tv ELSE @,
                !.ev[e].timeout =
                    IF tv = NoTv THEN @
                    ELSE IF tv_is_absolute THEN tv ELSE gettime(s) + tv]
             notify == \/ AddsToMap(s, e)
                       \/ /\ tv # NoTv
                          /\ \/ min_heap_elt_is_top_(s9, e)
                             \/ \E f \in min_heap_tops(s9) :
                                   s9.ev[f].timeout < gettime(s)
  <2>1. AddBody(s, t, e, tv, tv_is_absolute)
          = IF notify THEN evthread_notify_base(s9, t) ELSE s9
    BY DEF AddBody, s1
  <2>2. s9 = s3
    <3>1. s1.ev[e] \in EventType
      BY <1>2 DEF StateType
    <3> QED
      BY <1>2, <3>1 DEF StateType, EventType
  <2> QED
    BY <2>1, <2>2
<1> HIDE DEF s1
<1>4. io \in Nat /\ to \in Int
  BY <1>1, SoundParts, gettimeType, SMT DEF EventType, NoTv, Ok
<1> HIDE DEF io, to
<1>5. x \in [Callbacks -> EventType] /\ \A c \in Callbacks : x[c].closure = s1.ev[c].closure
  <2>1. s1.ev \in [Callbacks -> EventType]
    BY <1>1, SoundParts DEF Ok
  <2>2. PICK r : r = [s1.ev[e] EXCEPT !.io_timeout = io, !.timeout = to]
    OBVIOUS
  <2>3. r \in EventType /\ r.closure = s1.ev[e].closure
    BY <1>4, <2>1, <2>2 DEF EventType
  <2>4. x = [s1.ev EXCEPT ![e] = r]
    BY <2>1, <2>2
  <2> QED
    BY <2>1, <2>3, <2>4
<1> HIDE DEF x
<1>6. Ok(s1, s2) /\ s2.ev = s1.ev
  BY <1>1, SoundParts, AddQueuesKeeps, OkQueues, WithQueues DEF Ok, Keeps
<1> HIDE DEF s2
<1>7. Ok(s2, s3)
  BY <1>5, <1>6, OkEvents DEF Ok
<1> HIDE DEF s3
<1>8. Ok(s3, n3)
  BY <1>7, OkNotify DEF Ok
<1>9. Ok(s, s3)
  BY <1>1, <1>6, <1>7, OkTrans
<1>10. Ok(s, n3)
  BY <1>8, <1>9, OkTrans
<1> QED
  BY <1>3, <1>9, <1>10

(* event_persist_closure is sound.                                         *)
LEMMA OkPersist ==
    ASSUME NEW s, Sound(s), NEW e \in Callbacks
    PROVE  Ok(s, event_persist_closure(s, e))
<1> DEFINE now == gettime(s)
           delay == s.ev[e].io_timeout
           from == IF s.ev[e].res # {} THEN s.ev[e].timeout ELSE now
           run_at == IF from + delay < now THEN now + delay ELSE from + delay
<1>1. now \in Int /\ delay \in Int /\ from \in Int
  BY gettimeType, SoundParts, SMT DEF EventType
<1>2. run_at \in Int
  BY <1>1, SMT
<1>3. event_persist_closure(s, e) = IF delay = 0 THEN s ELSE AddBody(s, L, e, run_at, TRUE)
  BY DEF event_persist_closure
<1> HIDE DEF run_at
<1> QED
  BY <1>2, <1>3, OkAddBody, OkRefl

-----------------------------------------------------------------------------
InOrder(s) == Sound(s) /\ FinalizersMarked(s)

(* A sound operation keeps a state in order.                               *)
LEMMA OkInOrder ==
    ASSUME NEW s, InOrder(s), NEW r, Ok(s, r)
    PROVE  InOrder(r)
BY DEF InOrder, Ok, SameFinal, FinalizersMarked

-----------------------------------------------------------------------------
(* The inductive invariant of EventBase, with the laws of its queues.      *)
Inv == QueueLaws /\ IInv

(* From the variables to the record the functions work on, and back.       *)
LEMMA StateInOrder ==
    ASSUME QueueLaws, StateInv
    PROVE  InOrder(State) /\ Sound(State) /\ State.q = q /\ State.ev = ev /\ State.base = base
<1>1. State.q = q /\ State.ev = ev /\ State.base = base
  BY DEF State
<1>2. State \in StateType
  BY DEF State, StateType, StateInv, QueuesOK
<1> QED
  BY <1>1, <1>2 DEF InOrder, Sound, FinalizersMarked, StateInv, Finalizes

(* What the invariant says of each variable.                               *)
LEMMA StateTypes ==
    ASSUME Inv
    PROVE  /\ QueueLaws /\ StateInv /\ LoopInv /\ CallsInv
           /\ q \in BookkeepingType /\ QueuesOK(q) /\ q.flags \in [Callbacks -> SUBSET Flags]
           /\ ev \in [Callbacks -> EventType] /\ base \in BaseType
           /\ loop \in LoopType /\ thr \in [Threads -> CallType] /\ hist \in HistType
BY DEF Inv, IInv, StateInv, LoopInv, CallsInv, QueuesOK, BookkeepingType

(* Taking the first callback off its queue is sound.                       *)
LEMMA OkDequeue ==
    ASSUME NEW s, Sound(s), NEW c \in Callbacks, "ACTIVE" \in s.q.flags[c]
    PROVE  Ok(s, Dequeue(s, c))
<1>1. Ok(s, [s EXCEPT !.q = event_queue_remove_active(s.q, c)])
  BY SoundParts, QueueOps, OkQueues
<1> QED
  BY <1>1, OkDel DEF Dequeue

(* What the calls may rely on.                                             *)
LEMMA CallTypes ==
    ASSUME Inv
    PROVE  /\ Events \subseteq Callbacks /\ Deferreds \subseteq Callbacks
           /\ UserEvents \subseteq Events
           /\ \A tv \in Timeouts \cup {NoTv} : tv \in Int /\ (tv = NoTv \/ tv \in Nat)
           /\ InOrder(State) /\ Sound(State) /\ State.q = q /\ State.ev = ev
           /\ State.base = base
BY EventBaseAssumption, StateTypes, StateInOrder, SMT DEF UserEvents, NoTv

-----------------------------------------------------------------------------
(* While event_callback_finalize_many_ goes on it alone has the lock, and  *)
(* the loop thread is in a call only between two turns of the loop or in a *)
(* callback.                                                               *)
LockInv ==
    /\ thr[L].st # "idle" => loop.pc \in {"out", "cb"}
    /\ \A t \in Threads : thr[t].st = "many" =>
          loop.pc \notin LockedPcs /\ \A u \in Threads \ {t} : thr[u].st # "many"
=============================================================================
