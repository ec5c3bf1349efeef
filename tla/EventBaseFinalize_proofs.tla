------------------------ MODULE EventBaseFinalize_proofs --------------------
(***************************************************************************)
(* What the finalizers promise, for any number of events, deferred         *)
(* callbacks, priorities and threads: every step of the base keeps         *)
(* FinalizeInvariant, which says that once a finalizer was called nothing  *)
(* refers to what it finalizes.                                            *)
(***************************************************************************)
EXTENDS EventBaseSteps_proofs

(* Zenon, unless a step cites another prover. *)
USE Zenon

-----------------------------------------------------------------------------
(* Nothing of the base refers to c.                                        *)
Gone(c) == q.flags[c] \cap QueueFlags = {} /\ base.current_event # c

(* The callbacks that bufferevent_decref_and_unlock_ passes are distinct,  *)
(* and none is a signal event or an event of event_base_once.              *)
CarefulGroup ==
    /\ Elems(Group) \cap (SigEvents \cup OnceEvents) = {}
    /\ \A i, j \in 1..Len(Group) : Group[i] = Group[j] => i = j

(* The mark EVLIST_FINALIZING, the finalizer and the queues agree.  A      *)
(* callback with the mark has the finalizer and is active until it ran;    *)
(* then nothing refers to it.                                              *)
MarkInv ==
    \A c \in Callbacks : "FINALIZING" \in q.flags[c] =>
        /\ Finalizes(c) /\ c \notin SigEvents \cup OnceEvents
        /\ c \notin hist.dead => q.flags[c] \cap QueueFlags = {"ACTIVE"}

DeadInv == \A c \in hist.dead : Finalizes(c) /\ Gone(c)

(* A deferred callback has no timer and is in no map, and only a call on a *)
(* signal event waits, other than event_del.                               *)
DeferredFlags == \A c \in Deferreds : q.flags[c] \cap {"INSERTED", "TIMEOUT"} = {}

WaitInv ==
    \A t \in Threads : thr[t].st \in {"wait", "woken"} /\ thr[t].op # "del" =>
        thr[t].e \in SigEvents

(* Of a group one callback at most has the finalizer, and once the call    *)
(* returned nothing refers to the others.                                  *)
GroupInv ==
    /\ ~hist.group_freed => \A x \in Elems(Group) : ~Finalizes(x)
    /\ \A x, y \in Elems(Group) : Finalizes(x) /\ Finalizes(y) => x = y
    /\ hist.group_freed /\ (\A t \in Threads : thr[t].st # "many") =>
          \A x \in Elems(Group) : Finalizes(x) \/ Gone(x)

(* While event_callback_finalize_many_ goes on, that holds of the          *)
(* callbacks it is done with, and the one with the finalizer, if any, is   *)
(* the one that runs.                                                      *)
ManyInv ==
    \A t \in Threads : thr[t].st = "many" =>
        /\ hist.group_freed /\ hist.dead \cap Elems(Group) = {}
        /\ \A x \in Elems(Group) : Finalizes(x) <=> x = thr[t].e
        /\ thr[t].e # NoCb => /\ base.current_event = thr[t].e
                              /\ \E i \in 1..thr[t].arg : Group[i] = thr[t].e
        /\ \A i \in 1..thr[t].arg : Finalizes(Group[i]) \/ Gone(Group[i])

FinalizeInvariant ==
    MarkInv /\ DeadInv /\ DeferredFlags /\ WaitInv /\ GroupInv /\ ManyInv

(* What a bufferevent gives up together are callbacks.                     *)
LEMMA GroupTypes ==
    /\ NoCb \notin Callbacks /\ Deferreds \subseteq Callbacks /\ Elems(Group) \subseteq Callbacks
    /\ Callbacks = LoopEvents \cup Deferreds
    /\ Len(Group) \in Nat /\ \A i \in 1..Len(Group) : Group[i] \in Elems(Group)
BY EventBaseAssumption, SMT DEF Elems, LoopEvents

(* A callback whose finalizer was called has the mark.                     *)
LEMMA DeadIsMarked ==
    ASSUME Inv, FinalizeInvariant, NEW c \in hist.dead
    PROVE  c \in Callbacks /\ "FINALIZING" \in q.flags[c] /\ Gone(c)
BY StateTypes DEF FinalizeInvariant, DeadInv, Inv, IInv, StateInv, HistType

(* A step that works on e alone, and that neither queues nor runs a        *)
(* callback with the mark or one of a group that is finalized.             *)
LEMMA FinKept ==
    ASSUME Inv, FinalizeInvariant, NEW e \in Callbacks, FlagsBut(q, q', e), SameClosures,
           "FINALIZING" \in q'.flags[e] <=> "FINALIZING" \in q.flags[e],
           "FINALIZING" \in q.flags[e] => q'.flags[e] = q.flags[e],
           base'.current_event \in {base.current_event, NoCb, e},
           \/ /\ q'.flags[e] \cap QueueFlags \subseteq q.flags[e]
              /\ base'.current_event \in {base.current_event, NoCb}
           \/ /\ "FINALIZING" \notin q.flags[e]
              /\ hist.group_freed => e \notin Elems(Group),
           e \in Deferreds => q'.flags[e] \cap {"INSERTED", "TIMEOUT"} \subseteq q.flags[e],
           hist'.dead = hist.dead, hist'.group_freed = hist.group_freed,
           \A t \in Threads : thr'[t].st = "many" \/ thr[t].st = "many" =>
              thr'[t] = thr[t] /\ base'.current_event = base.current_event,
           WaitInv'
    PROVE  FinalizeInvariant'
<1>0. /\ NoCb \notin Callbacks /\ Deferreds \subseteq Callbacks /\ Elems(Group) \subseteq Callbacks
      /\ \A i \in 1..Len(Group) : Group[i] \in Elems(Group)
  BY GroupTypes
<1>1. \A c \in Callbacks : Finalizes(c)' <=> Finalizes(c)
  BY DEF SameClosures, Finalizes
<1>2. MarkInv'
  BY <1>1 DEF FinalizeInvariant, MarkInv, FlagsBut
<1>3. ASSUME NEW x \in Callbacks, Gone(x),
             \/ hist.group_freed /\ x \in Elems(Group)
             \/ "FINALIZING" \in q.flags[x]
      PROVE  Gone(x)'
  <2>1. CASE x # e
    BY <1>0, <1>3, <2>1 DEF Gone, FlagsBut
  <2>2. CASE x = e
    <3>1. /\ q'.flags[e] \cap QueueFlags \subseteq q.flags[e]
          /\ base'.current_event \in {base.current_event, NoCb}
      BY <1>3, <2>2
    <3> QED
      BY <1>0, <1>3, <2>2, <3>1 DEF Gone
  <2> QED
    BY <2>1, <2>2
<1>4. DeadInv'
  <2>1. ASSUME NEW c \in hist.dead
        PROVE  Finalizes(c)' /\ Gone(c)'
    <3>1. c \in Callbacks /\ "FINALIZING" \in q.flags[c] /\ Gone(c) /\ Finalizes(c)
      BY <2>1, DeadIsMarked DEF FinalizeInvariant, DeadInv
    <3> QED
      BY <1>1, <1>3, <3>1
  <2> QED
    BY <2>1 DEF DeadInv
<1>5. DeferredFlags'
  BY <1>0 DEF FinalizeInvariant, DeferredFlags, FlagsBut
<1>6. ASSUME NEW x \in Elems(Group), hist.group_freed, Finalizes(x) \/ Gone(x)
      PROVE  Finalizes(x)' \/ Gone(x)'
  BY <1>0, <1>1, <1>3, <1>6
<1>7. GroupInv'
  <2>1. GroupInv
    BY DEF FinalizeInvariant
  <2>2. (\A t \in Threads : thr'[t].st # "many") => \A t \in Threads : thr[t].st # "many"
    OBVIOUS
  <2>3. hist'.group_freed /\ (\A t \in Threads : thr'[t].st # "many") =>
          \A x \in Elems(Group) : Finalizes(x)' \/ Gone(x)'
    BY <1>6, <2>1, <2>2 DEF GroupInv
  <2>4. /\ ~hist'.group_freed => \A x \in Elems(Group) : ~Finalizes(x)'
        /\ \A x, y \in Elems(Group) : Finalizes(x)' /\ Finalizes(y)' => x = y
    BY <1>0, <1>1, <2>1 DEF GroupInv
  <2> QED
    BY <2>3, <2>4 DEF GroupInv
<1>8. ManyInv'
  <2>1. ASSUME NEW t \in Threads, thr'[t].st = "many"
        PROVE  /\ hist'.group_freed /\ hist'.dead \cap Elems(Group) = {}
               /\ \A x \in Elems(Group) : Finalizes(x)' <=> x = thr'[t].e
               /\ thr'[t].e # NoCb => /\ base'.current_event = thr'[t].e
                                      /\ \E i \in 1..thr'[t].arg : Group[i] = thr'[t].e
               /\ \A i \in 1..thr'[t].arg : Finalizes(Group[i])' \/ Gone(Group[i])'
    <3>1. thr'[t] = thr[t] /\ base'.current_event = base.current_event /\ thr[t].st = "many"
      BY <2>1
    <3>2. /\ hist.group_freed /\ hist.dead \cap Elems(Group) = {}
          /\ \A x \in Elems(Group) : Finalizes(x) <=> x = thr[t].e
          /\ thr[t].e # NoCb => /\ base.current_event = thr[t].e
                                /\ \E i \in 1..thr[t].arg : Group[i] = thr[t].e
          /\ \A i \in 1..thr[t].arg : Finalizes(Group[i]) \/ Gone(Group[i])
      BY <3>1 DEF FinalizeInvariant, ManyInv
    <3>3. \A i \in 1..thr[t].arg : Group[i] \in Elems(Group)
      <4>1. CallInv(t)
        BY StateTypes DEF CallsInv
      <4> QED
        BY <1>0, <3>1, <4>1, EventBaseAssumption, SMT DEF CallInv
    <3>4. \A i \in 1..thr[t].arg : Finalizes(Group[i])' \/ Gone(Group[i])'
      BY <1>6, <3>2, <3>3
    <3> QED
      BY <1>0, <1>1, <3>1, <3>2, <3>4
  <2> QED
    BY <2>1 DEF ManyInv
<1> QED
  BY <1>2, <1>4, <1>5, <1>7, <1>8 DEF FinalizeInvariant

(* A quiet step.                                                           *)
LEMMA FinQuiet ==
    ASSUME Inv, FinalizeInvariant, Quiet
    PROVE  FinalizeInvariant'
<1>1. th_notify \in Callbacks
  BY EventBaseAssumption
<1>2. /\ FlagsBut(q, q', th_notify) /\ SameClosures /\ q'.flags = q.flags
      /\ base'.current_event = base.current_event /\ UNCHANGED <<thr, hist>>
  BY DEF Quiet, FlagsBut
<1>3. WaitInv'
  BY <1>2 DEF FinalizeInvariant, WaitInv
<1>4. UNCHANGED thr /\ UNCHANGED hist
  BY <1>2
<1> QED
  BY <1>1, <1>2, <1>3, <1>4, FinKept

(* A step that works on e, in a call of its own or in the loop: a callback *)
(* with the mark stays as it is, and one of a finalized group is at most   *)
(* taken out of a queue.                                                   *)
LEMMA FinWorks ==
    ASSUME Inv, FinalizeInvariant, NEW e \in Callbacks, Works(e),
           "FINALIZING" \in q.flags[e] => q'.flags[e] = q.flags[e],
           \/ q'.flags[e] \cap QueueFlags \subseteq q.flags[e]
           \/ hist.group_freed => e \notin Elems(Group),
           e \in Deferreds => q'.flags[e] \cap {"INSERTED", "TIMEOUT"} \subseteq q.flags[e],
           hist'.dead = hist.dead, hist'.group_freed = hist.group_freed,
           \A t \in Threads : thr'[t].st = "many" \/ thr[t].st = "many" => thr'[t] = thr[t],
           WaitInv'
    PROVE  FinalizeInvariant'
<1>1. /\ FlagsBut(q, q', e) /\ SameClosures /\ base'.current_event = base.current_event
      /\ "FINALIZING" \in q'.flags[e] <=> "FINALIZING" \in q.flags[e]
  BY DEF Works
<1>2. \/ q'.flags[e] \cap QueueFlags \subseteq q.flags[e]
      \/ /\ "FINALIZING" \notin q.flags[e]
         /\ hist.group_freed => e \notin Elems(Group)
  OBVIOUS
<1> QED
  BY <1>1, <1>2, FinKept

(* In the loop nothing is finalized halfway: a callback that is queued for *)
(* anything but its finalizer has no mark and is in no finalized group.    *)
LEMMA QueuedIsPlain ==
    ASSUME Inv, LockInv, FinalizeInvariant, NEW c \in Callbacks, loop.pc \in LockedPcs,
           \/ q.flags[c] \cap {"INSERTED", "TIMEOUT", "ACTIVE_LATER"} # {}
           \/ "ACTIVE" \in q.flags[c] /\ ~Finalizes(c)
    PROVE  /\ "FINALIZING" \notin q.flags[c] /\ (hist.group_freed => c \notin Elems(Group))
           /\ c \notin hist.dead
<1>1. ~Gone(c)
  BY DEF Gone, QueueFlags
<1>2. c \notin hist.dead
  BY <1>1 DEF FinalizeInvariant, DeadInv
<1>3. "FINALIZING" \notin q.flags[c]
  BY <1>2 DEF FinalizeInvariant, MarkInv, QueueFlags
<1>4. ~Finalizes(c)
  BY <1>3 DEF Inv, IInv, StateInv
<1>5. \A t \in Threads : thr[t].st # "many"
  BY DEF LockInv
<1> QED
  BY <1>1, <1>2, <1>3, <1>4, <1>5 DEF FinalizeInvariant, GroupInv

(* The loop calls the finalizer of a callback that is in no other queue,   *)
(* and then nothing refers to it.                                          *)
LEMMA FinRun ==
    ASSUME Inv, LockInv, FinalizeInvariant, RunCallback
    PROVE  FinalizeInvariant'
<1>0. NoCb \notin Callbacks /\ Elems(Group) \subseteq Callbacks /\ Deferreds \subseteq Callbacks
  BY GroupTypes
<1>1. PICK c \in Callbacks :
              /\ "ACTIVE" \in q.flags[c] /\ FlagsBut(q, q', c) /\ SameClosures
              /\ "FINALIZING" \in q'.flags[c] <=> "FINALIZING" \in q.flags[c]
              /\ Finalizes(c) => /\ base'.current_event = NoCb
                                 /\ q'.flags[c] = q.flags[c] \ {"ACTIVE"}
                                 /\ hist'.dead = hist.dead \cup {c}
              /\ ~Finalizes(c) => base'.current_event = c /\ hist'.dead = hist.dead
              /\ c \in Deferreds => q'.flags[c] = q.flags[c] \ {"ACTIVE"}
              /\ hist'.safe = hist.safe /\ hist'.clean = hist.clean
              /\ hist'.group_freed = hist.group_freed /\ UNCHANGED thr
              /\ loop.pc = "queue" /\ loop'.pc \in {"cb", "sigload", "drain"}
  BY RunsOne
<1>2. loop.pc \in LockedPcs
  BY <1>1 DEF LockedPcs
<1>3. \A t \in Threads : thr[t].st # "many" /\ thr'[t] = thr[t]
  BY <1>1, <1>2 DEF LockInv
<1>4. WaitInv'
  BY <1>1 DEF FinalizeInvariant, WaitInv
<1>5. \A x \in Callbacks : Finalizes(x)' <=> Finalizes(x)
  BY <1>1 DEF SameClosures, Finalizes
<1>6. CASE ~Finalizes(c)
  <2>1. "FINALIZING" \notin q.flags[c] /\ (hist.group_freed => c \notin Elems(Group))
    BY <1>1, <1>2, <1>6, QueuedIsPlain
  <2>2. c \in Deferreds => q'.flags[c] \cap {"INSERTED", "TIMEOUT"} \subseteq q.flags[c]
    BY <1>1
  <2> QED
    BY <1>1, <1>3, <1>4, <1>6, <2>1, <2>2, FinKept
<1>7. CASE Finalizes(c)
  <2>1. "FINALIZING" \in q.flags[c] /\ c \notin hist.dead
    <3>1. ~Gone(c)
      BY <1>1 DEF Gone, QueueFlags
    <3> QED
      BY <1>7, <3>1 DEF FinalizeInvariant, DeadInv, Inv, IInv, StateInv
  <2>2. q.flags[c] \cap QueueFlags = {"ACTIVE"}
    BY <2>1 DEF FinalizeInvariant, MarkInv
  <2>3. Gone(c)'
    BY <1>0, <1>1, <1>7, <2>2 DEF Gone
  <2>4. \A x \in Callbacks : Gone(x) => Gone(x)'
    BY <1>0, <1>1, <1>7, <2>3 DEF Gone, FlagsBut
  <2>5. MarkInv'
    BY <1>1, <1>5, <1>7 DEF FinalizeInvariant, MarkInv, FlagsBut
  <2>6. DeadInv'
    <3>1. \A x \in hist.dead : x \in Callbacks
      BY StateTypes DEF HistType
    <3> QED
      BY <1>1, <1>5, <1>7, <2>3, <2>4, <3>1 DEF FinalizeInvariant, DeadInv
  <2>7. DeferredFlags'
    BY <1>0, <1>1, <1>7 DEF FinalizeInvariant, DeferredFlags, FlagsBut
  <2>8. GroupInv'
    <3>1. \A x \in Elems(Group) : Finalizes(x)' <=> Finalizes(x)
      BY <1>0, <1>5
    <3>2. \A x \in Elems(Group) : Gone(x) => Gone(x)'
      BY <1>0, <2>4
    <3>3. GroupInv
      BY DEF FinalizeInvariant
    <3> QED
      BY <1>1, <1>3, <3>1, <3>2, <3>3 DEF GroupInv
  <2>9. ManyInv'
    BY <1>3 DEF ManyInv
  <2> QED
    BY <1>4, <2>5, <2>6, <2>7, <2>8, <2>9 DEF FinalizeInvariant
<1> QED
  BY <1>6, <1>7

(* The loop keeps the invariant.                                           *)
LEMMA FinLoopStep ==
    ASSUME Inv, LockInv, FinalizeInvariant, LoopStep
    PROVE  FinalizeInvariant'
<1>1. ASSUME NEW e \in Callbacks, Works(e), UNCHANGED <<thr, hist>>, loop.pc \in LockedPcs,
             e \in Deferreds => q'.flags[e] \cap {"INSERTED", "TIMEOUT"} \subseteq q.flags[e],
             q.flags[e] \cap {"INSERTED", "TIMEOUT", "ACTIVE_LATER"} # {}
      PROVE  FinalizeInvariant'
  <2>1. "FINALIZING" \notin q.flags[e] /\ (hist.group_freed => e \notin Elems(Group))
    BY <1>1, QueuedIsPlain
  <2>2. WaitInv'
    BY <1>1 DEF FinalizeInvariant, WaitInv
  <2>3. hist' = hist /\ thr' = thr
    BY <1>1
  <2> QED
    BY <1>1, <2>1, <2>2, <2>3, FinWorks
<1>2. CASE event_queue_make_later_events_active
  <2>1. PICK c \in Callbacks :
           /\ Works(c) /\ "ACTIVE_LATER" \in q.flags[c]
           /\ q'.flags[c] = (q.flags[c] \ {"ACTIVE_LATER"}) \cup {"ACTIVE"}
    BY <1>2, WorksMakeLater
  <2>2. UNCHANGED <<thr, hist>> /\ loop.pc \in LockedPcs
    BY <1>2 DEF event_queue_make_later_events_active, LockedPcs
  <2>3. q'.flags[c] \cap {"INSERTED", "TIMEOUT"} \subseteq q.flags[c]
    BY <2>1
  <2> QED
    BY <1>1, <2>1, <2>2, <2>3
<1>3. ASSUME NEW e \in FdEvents, evmap_io_active_(e)
      PROVE  FinalizeInvariant'
  <2>1. /\ e \in Callbacks /\ e \notin Deferreds /\ Works(e)
        /\ "INSERTED" \in q.flags[e] \/ q' = q
    BY <1>3, WorksIoActive
  <2>2. UNCHANGED <<thr, hist>> /\ loop.pc \in LockedPcs
    BY <1>3 DEF evmap_io_active_, LockedPcs
  <2>3. CASE q' = q
    BY <2>1, <2>2, <2>3, FinQuiet DEF Quiet, Works
  <2>4. CASE "INSERTED" \in q.flags[e]
    BY <1>1, <2>1, <2>2, <2>4
  <2> QED
    BY <2>1, <2>3, <2>4
<1>4. ASSUME NEW e \in LoopEvents, timeout_process(e)
      PROVE  FinalizeInvariant'
  <2>1. e \in Callbacks /\ e \notin Deferreds /\ Works(e) /\ "TIMEOUT" \in q.flags[e]
    BY <1>4, WorksTimeout
  <2>2. UNCHANGED <<thr, hist>> /\ loop.pc \in LockedPcs
    BY <1>4 DEF timeout_process, LockedPcs
  <2> QED
    BY <1>1, <2>1, <2>2
<1>5. CASE CallbackDone
  <2>1. /\ UNCHANGED <<q, ev, hist>> /\ base'.current_event = NoCb
        /\ \A t \in Threads :
              \/ thr'[t] = thr[t]
              \/ /\ thr[t].st = "wait" /\ thr'[t].st = "woken"
                 /\ thr'[t].e = thr[t].e /\ thr'[t].op = thr[t].op
    BY <1>5, DoneWithOne
  <2>2. \A t \in Threads : thr[t].st # "many"
    <3>1. \A t \in Threads \ {L} : thr[t].st # "many"
      BY <1>5 DEF CallbackDone, CanLock
    <3>2. thr[L] = IdleCall \/ loop.pc = "cbret"
      BY <1>5 DEF CallbackDone
    <3>3. thr[L].st # "many"
      BY <3>2, SMT DEF LockInv, IdleCall
    <3> QED
      BY <3>1, <3>3
  <2>3. \A t \in Threads : thr'[t].st # "many"
    BY <2>1, <2>2
  <2>4. WaitInv'
    <3>1. ASSUME NEW t \in Threads, thr'[t].st \in {"wait", "woken"}, thr'[t].op # "del"
          PROVE  thr'[t].e \in SigEvents
      BY <2>1, <3>1 DEF FinalizeInvariant, WaitInv
    <3> QED
      BY <3>1 DEF WaitInv
  <2>5. th_notify \in Callbacks /\ FlagsBut(q, q', th_notify) /\ SameClosures
    BY <2>1, EventBaseAssumption DEF FlagsBut, SameClosures
  <2>6. q' = q /\ hist' = hist
    BY <2>1
  <2> QED
    BY <2>1, <2>2, <2>3, <2>4, <2>5, <2>6, FinKept
<1>6. CASE LoopTop \/ StartPoll \/ epoll_wait \/ DispatchFails \/ DispatchLocks
           \/ DispatchReturns \/ TimeoutsDone \/ QueueEmpty
  BY <1>6, QuietLoop, FinQuiet
<1>7. CASE SigLoad \/ SigStore \/ SigReturn \/ event_once_cb \/ NotifyRead \/ NotifyReset
  BY <1>7, QuietClosure, FinQuiet
<1> QED
  BY <1>2, <1>3, <1>4, <1>5, <1>6, <1>7, FinRun DEF LoopStep

(* A call on e that a thread starts or goes on with leaves every thread    *)
(* that finalizes a group alone.                                           *)
LEMMA FinCall ==
    ASSUME Inv, FinalizeInvariant, NEW t \in Threads, thr[t].st # "many",
           \/ UNCHANGED thr
           \/ thr' = [thr EXCEPT ![t] = IdleCall]
           \/ \E op, e, arg :
                 /\ thr' = [thr EXCEPT ![t] = [st |-> "wait", op |-> op, e |-> e, arg |-> arg]]
                 /\ op = "del" \/ e \in SigEvents
    PROVE  /\ \A u \in Threads : thr'[u].st = "many" \/ thr[u].st = "many" => thr'[u] = thr[u]
           /\ WaitInv'
<1>0. thr \in [Threads -> CallType]
  BY StateTypes
<1>1. CASE UNCHANGED thr
  BY <1>1 DEF FinalizeInvariant, WaitInv
<1>2. CASE thr' = [thr EXCEPT ![t] = IdleCall]
  BY <1>0, <1>2 DEF FinalizeInvariant, WaitInv, IdleCall
<1>3. ASSUME NEW op, NEW e, NEW arg, op = "del" \/ e \in SigEvents,
             thr' = [thr EXCEPT ![t] = [st |-> "wait", op |-> op, e |-> e, arg |-> arg]]
      PROVE  /\ \A u \in Threads : thr'[u].st = "many" \/ thr[u].st = "many" => thr'[u] = thr[u]
             /\ WaitInv'
  <2>1. thr'[t].st = "wait" /\ thr'[t].op = op /\ thr'[t].e = e
    BY <1>0, <1>3
  <2>2. \A u \in Threads \ {t} : thr'[u] = thr[u]
    BY <1>0, <1>3
  <2> QED
    BY <1>3, <2>1, <2>2, SMT DEF FinalizeInvariant, WaitInv
<1> QED
  BY <1>1, <1>2, <1>3

(* The calls on an event keep off what is finalized.                       *)
LEMMA FinEventCalls ==
    ASSUME Inv, FinalizeInvariant, NEW t \in Threads, NEW e \in UserEvents,
           \/ \E tv \in Timeouts \cup {NoTv} : event_add(t, e, tv)
           \/ \E m \in DelModes : event_del(t, e, m)
           \/ \E n \in NCalls : event_active(t, e, n)
           \/ event_remove_timer(t, e) \/ event_active_later_(t, e)
    PROVE  FinalizeInvariant'
<1>0. /\ e \in Callbacks /\ e \notin Deferreds /\ hist \in HistType
      /\ thr \in [Threads -> CallType]
  BY CallTypes, EventBaseAssumption, StateTypes DEF UserEvents
<1>1. thr[t] = IdleCall /\ Usable(t, e)
  BY DEF event_add, event_del, event_active, event_remove_timer, event_active_later_, CanCall
<1>2. thr[t].st # "many" /\ e \notin hist.dead /\ (hist.group_freed => e \notin Elems(Group))
  <2>1. thr[t].st # "many"
    BY <1>1, SMT DEF IdleCall
  <2>2. e \notin hist.dead /\ (hist.group_freed => e \notin Elems(Group))
    BY <1>1 DEF Usable
  <2> QED
    BY <2>1, <2>2
<1>3. "FINALIZING" \in q.flags[e] => q.flags[e] \cap QueueFlags = {"ACTIVE"}
  BY <1>0, <1>2 DEF FinalizeInvariant, MarkInv
<1>4. ASSUME NEW tv \in Timeouts \cup {NoTv}, event_add(t, e, tv)
      PROVE  FinalizeInvariant'
  <2>1. Works(e) /\ "FINALIZING" \notin q.flags[e] /\ HistAdd(e, tv)
    BY <1>4, WorksAdd DEF event_add
  <2>2. \/ UNCHANGED thr
        \/ /\ thr' = [thr EXCEPT ![t] = [st |-> "wait", op |-> "add", e |-> e, arg |-> tv]]
           /\ e \in SigEvents
    BY <1>4 DEF event_add, Waits
  <2>3. hist'.dead = hist.dead /\ hist'.group_freed = hist.group_freed
    BY <2>1, TouchEndsPromise
  <2> QED
    BY <1>0, <1>2, <2>1, <2>2, <2>3, FinCall, FinWorks
<1>5. ASSUME NEW m \in DelModes, event_del(t, e, m)
      PROVE  FinalizeInvariant'
  <2>1. Works(e) /\ "FINALIZING" \notin q.flags[e]
    BY <1>5, WorksDel DEF event_del
  <2>2. \/ UNCHANGED thr
        \/ thr' = [thr EXCEPT ![t] = [st |-> "wait", op |-> "del", e |-> e, arg |-> 0]]
    BY <1>5 DEF event_del, Waits
  <2>3. hist'.dead = hist.dead /\ hist'.group_freed = hist.group_freed
    BY <1>0, <1>5 DEF event_del, HistType
  <2>4. "del" = "del"
    OBVIOUS
  <2> QED
    BY <1>0, <1>2, <2>1, <2>2, <2>3, <2>4, FinCall, FinWorks
<1>6. ASSUME NEW n \in NCalls, event_active(t, e, n)
      PROVE  FinalizeInvariant'
  <2>1. Works(e) /\ "FINALIZING" \notin q.flags[e] /\ hist' = Touch(hist, e)
    BY <1>6, WorksActive DEF event_active
  <2>2. \/ UNCHANGED thr
        \/ /\ thr' = [thr EXCEPT ![t] = [st |-> "wait", op |-> "active", e |-> e, arg |-> n]]
           /\ e \in SigEvents
    BY <1>6 DEF event_active, Waits
  <2>3. hist'.dead = hist.dead /\ hist'.group_freed = hist.group_freed
    BY <2>1, TouchEndsPromise
  <2> QED
    BY <1>0, <1>2, <2>1, <2>2, <2>3, FinCall, FinWorks
<1>7. CASE event_remove_timer(t, e)
  <2>1. Works(e) /\ "TIMEOUT" \in q.flags[e] /\ UNCHANGED thr
    BY <1>7, WorksRemoveTimer DEF event_remove_timer
  <2>2. "FINALIZING" \notin q.flags[e]
    <3>1. "TIMEOUT" \in QueueFlags /\ "TIMEOUT" \notin {"ACTIVE"}
      BY DEF QueueFlags
    <3>2. "TIMEOUT" \in q.flags[e] \cap QueueFlags
      BY <2>1, <3>1
    <3> QED
      BY <1>3, <3>1, <3>2
  <2>3. hist'.dead = hist.dead /\ hist'.group_freed = hist.group_freed
    BY <1>0, <1>7 DEF event_remove_timer, HistType
  <2> QED
    BY <1>0, <1>2, <2>1, <2>2, <2>3, FinCall, FinWorks
<1>8. CASE event_active_later_(t, e)
  <2>1. /\ Works(e) /\ ("ACTIVE" \in q.flags[e] => q'.flags[e] = q.flags[e])
        /\ UNCHANGED thr /\ hist' = Touch(hist, e)
    BY <1>8, WorksActiveLater DEF event_active_later_
  <2>2. "FINALIZING" \in q.flags[e] => q'.flags[e] = q.flags[e]
    BY <1>3, <2>1
  <2>3. hist'.dead = hist.dead /\ hist'.group_freed = hist.group_freed
    BY <2>1, TouchEndsPromise
  <2> QED
    BY <1>0, <1>2, <2>1, <2>2, <2>3, FinCall, FinWorks
<1> QED
  BY <1>4, <1>5, <1>6, <1>7, <1>8

(* So do the calls that waited, which are on a signal event or are         *)
(* event_del,                                                              *)
LEMMA FinAfterWaits ==
    ASSUME Inv, CarefulGroup, FinalizeInvariant, NEW t \in Threads,
           AddAfterWait(t) \/ ActiveAfterWait(t) \/ DelAfterWait(t)
    PROVE  FinalizeInvariant'
<1>0. thr \in [Threads -> CallType] /\ hist \in HistType
      /\ SigEvents \subseteq Callbacks /\ SigEvents \cap Deferreds = {}
  BY StateTypes, EventBaseAssumption, SMT
<1>1. thr[t].st = "woken" /\ thr' = [thr EXCEPT ![t] = IdleCall]
  BY DEF AddAfterWait, ActiveAfterWait, DelAfterWait, Wakes, Returns
<1>2. /\ WaitInv'
      /\ \A u \in Threads : thr'[u].st = "many" \/ thr[u].st = "many" => thr'[u] = thr[u]
  BY <1>1, FinCall
<1>3. CASE AddAfterWait(t) \/ ActiveAfterWait(t)
  <2>1. PICK e : e = thr[t].e
    OBVIOUS
  <2>2. Works(e) /\ hist' = Touch(hist, e) /\ thr[t].op # "del"
    BY <1>3, <2>1, WorksAddAfterWait, WorksActiveAfterWait
       DEF AddAfterWait, ActiveAfterWait, Wakes
  <2>3. e \in SigEvents
    BY <1>1, <2>1, <2>2 DEF FinalizeInvariant, WaitInv
  <2>4. "FINALIZING" \notin q.flags[e] /\ e \notin Elems(Group)
    BY <1>0, <2>3 DEF FinalizeInvariant, MarkInv, CarefulGroup
  <2>5. hist'.dead = hist.dead /\ hist'.group_freed = hist.group_freed
    BY <2>2, TouchEndsPromise
  <2> QED
    BY <1>0, <1>2, <2>2, <2>3, <2>4, <2>5, FinWorks
<1>4. CASE DelAfterWait(t)
  <2>1. UNCHANGED <<q, ev, base>>
    BY <1>4 DEF DelAfterWait
  <2>2. hist'.dead = hist.dead /\ hist'.group_freed = hist.group_freed
    BY <1>0, <1>4 DEF DelAfterWait, HistType
  <2>3. th_notify \in Callbacks /\ Works(th_notify) /\ q' = q
    BY <2>1, EventBaseAssumption DEF Works, FlagsBut, SameClosures
  <2> QED
    BY <1>2, <2>2, <2>3, FinWorks
<1> QED
  BY <1>3, <1>4

(* and event_base_once and the calls on a deferred callback.               *)
LEMMA FinOtherCalls ==
    ASSUME Inv, CarefulGroup, FinalizeInvariant, NEW t \in Threads,
           \/ \E e \in OnceEvents, tv \in Timeouts \cup {NoTv} : event_base_once(t, e, tv)
           \/ \E c \in Deferreds : \/ event_deferred_cb_schedule_(t, c)
                                   \/ event_deferred_cb_cancel_(t, c)
    PROVE  FinalizeInvariant'
<1>0. /\ OnceEvents \subseteq Callbacks /\ Deferreds \subseteq Callbacks
      /\ OnceEvents \cap Deferreds = {}
  BY EventBaseAssumption
<1>1. thr[t] = IdleCall /\ UNCHANGED thr
  BY DEF event_base_once, CallsOnce, event_deferred_cb_schedule_, event_deferred_cb_cancel_,
         CanCall
<1>2. /\ WaitInv'
      /\ \A u \in Threads : thr'[u].st = "many" \/ thr[u].st = "many" => thr'[u] = thr[u]
  BY <1>1 DEF FinalizeInvariant, WaitInv
<1>3. ASSUME NEW e \in OnceEvents, NEW tv \in Timeouts \cup {NoTv}, event_base_once(t, e, tv)
      PROVE  FinalizeInvariant'
  <2>1. Works(e) /\ HistAdd(e, tv) /\ q.flags[e] = {}
    BY <1>3, WorksOnce DEF event_base_once, CallsOnce
  <2>2. e \notin Elems(Group)
    BY DEF CarefulGroup
  <2>3. hist'.dead = hist.dead /\ hist'.group_freed = hist.group_freed
    BY <2>1, TouchEndsPromise
  <2> QED
    BY <1>0, <1>2, <2>1, <2>2, <2>3, FinWorks
<1>4. ASSUME NEW c \in Deferreds,
             event_deferred_cb_schedule_(t, c) \/ event_deferred_cb_cancel_(t, c)
      PROVE  FinalizeInvariant'
  <2>1. UNCHANGED hist /\ c \notin hist.dead /\ (hist.group_freed => c \notin Elems(Group))
    BY <1>4 DEF event_deferred_cb_schedule_, event_deferred_cb_cancel_, Usable
  <2>2. "FINALIZING" \in q.flags[c] => "ACTIVE" \in q.flags[c]
    BY <1>0, <2>1 DEF FinalizeInvariant, MarkInv
  <2>3. /\ Works(c) /\ q'.flags[c] \cap {"INSERTED", "TIMEOUT"} \subseteq q.flags[c]
        /\ "FINALIZING" \in q.flags[c] => q'.flags[c] = q.flags[c]
    BY <1>4, <2>2, WorksSchedule, WorksCancel
  <2> QED
    BY <1>0, <1>2, <2>1, <2>3, FinWorks
<1> QED
  BY <1>3, <1>4

(* A callback that gets the finalizer, and its mark, leaves the others as  *)
(* they are.                                                               *)
LEMMA FinMarked ==
    ASSUME Inv, FinalizeInvariant, NEW c \in Callbacks, Finalizer(c),
           c \notin hist.dead, c \notin SigEvents \cup OnceEvents,
           q'.flags[c] \cap QueueFlags = {"ACTIVE"},
           hist'.dead = hist.dead
    PROVE  /\ MarkInv' /\ DeadInv' /\ DeferredFlags' /\ Finalizes(c)'
           /\ \A x \in Callbacks \ {c} :
                 (Finalizes(x)' <=> Finalizes(x)) /\ (Gone(x)' <=> Gone(x))
<1>0. Deferreds \subseteq Callbacks /\ NoCb \notin Callbacks
  BY GroupTypes
<1>1. /\ FlagsBut(q, q', c) /\ base'.current_event = base.current_event
      /\ \A x \in Callbacks \ {c} : ev'[x].closure = ev[x].closure
      /\ ev'[c].closure = "finalize" /\ "FINALIZING" \in q'.flags[c]
  BY DEF Finalizer
<1>2. \A x \in Callbacks \ {c} :
         (Finalizes(x)' <=> Finalizes(x)) /\ (Gone(x)' <=> Gone(x)) /\ q'.flags[x] = q.flags[x]
  BY <1>1 DEF Finalizes, Gone, FlagsBut
<1>3. Finalizes(c)'
  BY <1>1 DEF Finalizes
<1>4. MarkInv'
  BY <1>2, <1>3 DEF FinalizeInvariant, MarkInv
<1>5. DeadInv'
  <2>1. \A x \in hist.dead : x \in Callbacks \ {c}
    BY StateTypes DEF HistType
  <2> QED
    BY <1>2, <2>1 DEF FinalizeInvariant, DeadInv
<1>6. DeferredFlags'
  <2>1. q'.flags[c] \cap {"INSERTED", "TIMEOUT"} = {}
    BY DEF QueueFlags
  <2> QED
    BY <1>0, <1>2, <2>1 DEF FinalizeInvariant, DeferredFlags
<1> QED
  BY <1>2, <1>3, <1>4, <1>5, <1>6

(* event_finalize of an event that is in no group.                         *)
LEMMA FinFinalize ==
    ASSUME Inv, CarefulProgram, FinalizeInvariant, NEW t \in Threads,
           NEW e \in UserEvents, event_finalize(t, e)
    PROVE  FinalizeInvariant'
<1>0. /\ e \in Callbacks /\ e \notin SigEvents \cup OnceEvents
      /\ Elems(Group) \subseteq Callbacks
  <2>1. SigEvents = {}
    BY DEF event_finalize, CarefulProgram
  <2> QED
    BY <2>1, CallTypes, EventBaseAssumption, SMT DEF UserEvents, Elems
<1>1. /\ Usable(t, e) /\ ~Finalizes(e) /\ e \notin Elems(Group)
      /\ hist' = [Touch(hist, e) EXCEPT !.timed = @ \ {e}]
  BY DEF event_finalize
<1>2. "FINALIZING" \notin q.flags[e] /\ e \notin hist.dead
  BY <1>0, <1>1 DEF FinalizeInvariant, MarkInv, Usable
<1>3. Finalizer(e) /\ UNCHANGED thr /\ q'.flags[e] \cap QueueFlags = {"ACTIVE"}
  BY <1>2, FinalizesOne
<1>4. hist'.dead = hist.dead /\ hist'.group_freed = hist.group_freed
  BY <1>1, TouchEndsPromise
<1>5. /\ MarkInv' /\ DeadInv' /\ DeferredFlags'
      /\ \A x \in Callbacks \ {e} :
            (Finalizes(x)' <=> Finalizes(x)) /\ (Gone(x)' <=> Gone(x))
  BY <1>0, <1>2, <1>3, <1>4, FinMarked
<1>6. \A x \in Elems(Group) : (Finalizes(x)' <=> Finalizes(x)) /\ (Gone(x)' <=> Gone(x))
  BY <1>0, <1>1, <1>5
<1>7. WaitInv'
  BY <1>3 DEF FinalizeInvariant, WaitInv
<1>8. GroupInv'
  BY <1>3, <1>4, <1>6 DEF FinalizeInvariant, GroupInv
<1>9. ManyInv'
  <2>1. base'.current_event = base.current_event
    BY <1>3 DEF Finalizer
  <2>2. ASSUME NEW u \in Threads, thr[u].st = "many"
        PROVE  \A i \in 1..thr[u].arg : Group[i] \in Elems(Group)
    <3>1. CallInv(u)
      BY StateTypes DEF CallsInv
    <3> QED
      BY <2>2, <3>1, EventBaseAssumption, SMT DEF CallInv, Elems
  <2> QED
    BY <1>3, <1>4, <1>6, <2>1, <2>2 DEF FinalizeInvariant, ManyInv
<1> QED
  BY <1>5, <1>7, <1>8, <1>9 DEF FinalizeInvariant

(* event_callback_finalize_many_ starts with a group none of which has a   *)
(* finalizer,                                                              *)
LEMMA FinManyStarts ==
    ASSUME Inv, FinalizeInvariant, NEW t \in Threads, event_callback_finalize_many_(t)
    PROVE  FinalizeInvariant'
<1>0. /\ NoCb \notin Callbacks /\ Elems(Group) \subseteq Callbacks
      /\ hist \in HistType /\ thr \in [Threads -> CallType]
  BY StateTypes, GroupTypes
<1>1. /\ thr' = [thr EXCEPT ![t] = [st |-> "many", op |-> "finalize_many",
                                    e |-> NoCb, arg |-> 0]]
      /\ UNCHANGED <<q, ev, base>> /\ \A c \in Elems(Group) : Usable(t, c) /\ ~Finalizes(c)
  BY DEF event_callback_finalize_many_
<1>2. hist'.dead = hist.dead /\ hist'.group_freed = TRUE
  BY <1>0 DEF event_callback_finalize_many_, HistType
<1>3. /\ thr'[t].st = "many" /\ thr'[t].e = NoCb /\ thr'[t].arg = 0
      /\ \A u \in Threads \ {t} : thr'[u] = thr[u]
  BY <1>0, <1>1
<1>4. \A u \in Threads \ {t} : thr[u].st # "many"
  BY DEF event_callback_finalize_many_, CanCall, CanLock
<1>5. \A c : (Finalizes(c)' <=> Finalizes(c)) /\ (Gone(c)' <=> Gone(c))
  BY <1>1 DEF Finalizes, Gone
<1>6. MarkInv' /\ DeadInv' /\ DeferredFlags'
  BY <1>1, <1>2, <1>5 DEF FinalizeInvariant, MarkInv, DeadInv, DeferredFlags
<1>7. WaitInv'
  BY <1>3 DEF FinalizeInvariant, WaitInv
<1>8. GroupInv'
  BY <1>1, <1>2, <1>3, <1>5 DEF GroupInv
<1>9. ManyInv'
  <2>1. hist'.dead \cap Elems(Group) = {}
    BY <1>1, <1>2 DEF Usable
  <2>2. \A x \in Elems(Group) : ~Finalizes(x)' /\ x # NoCb
    BY <1>0, <1>1, <1>5
  <2>3. 1..0 = {}
    BY SMT
  <2>4. \A u \in Threads : thr'[u].st = "many" => u = t
    BY <1>3, <1>4
  <2> QED
    BY <1>2, <1>3, <2>1, <2>2, <2>3, <2>4 DEF ManyInv
<1> QED
  BY <1>6, <1>7, <1>8, <1>9 DEF FinalizeInvariant

(* One more callback of the group is done.                                 *)
LEMMA NextOfGroup ==
    ASSUME NEW m \in Nat, NEW n \in 0..(m - 1)
    PROVE  /\ n + 1 \in 1..m /\ n + 1 \in 1..(n + 1)
           /\ \A i \in 1..n : i \in 1..(n + 1)
           /\ \A i \in 1..(n + 1) : i \in 1..m /\ (i = n + 1 \/ i \in 1..n)
BY SMT

(* gives it to the one that runs and cancels the others,                   *)
LEMMA FinManyNext ==
    ASSUME Inv, LockInv, CarefulGroup, FinalizeInvariant, NEW t \in Threads, FinalizeNext(t)
    PROVE  FinalizeInvariant'
<1>0. /\ NoCb \notin Callbacks /\ Elems(Group) \subseteq Callbacks
      /\ thr \in [Threads -> CallType] /\ Callbacks = LoopEvents \cup Deferreds
      /\ Len(Group) \in Nat /\ \A i \in 1..Len(Group) : Group[i] \in Elems(Group)
  BY StateTypes, GroupTypes
<1>1. PICK c \in Callbacks, call \in CallType :
              /\ c = Group[thr[t].arg + 1] /\ c \in Elems(Group)
              /\ thr[t].st = "many" /\ thr[t].arg \in 0..(Len(Group) - 1)
              /\ thr' = [thr EXCEPT ![t] = call] /\ call.st = "many"
              /\ call.op = thr[t].op /\ call.arg = thr[t].arg + 1 /\ UNCHANGED hist
              /\ base.current_event = c =>
                    call.e = c /\ Becomes(event_callback_finalize_nolock_(State, t, c))
              /\ base.current_event # c =>
                    call.e = thr[t].e /\ Becomes(event_callback_cancel_nolock_(State, t, c))
  BY ManyNext
<1>2. thr'[t] = call /\ \A u \in Threads \ {t} : thr'[u] = thr[u] /\ thr[u].st # "many"
  BY <1>0, <1>1 DEF LockInv
<1> DEFINE n == thr[t].arg
<1>n. /\ n + 1 \in 1..Len(Group) /\ n + 1 \in 1..(n + 1)
      /\ \A i \in 1..n : i \in 1..(n + 1)
      /\ \A i \in 1..(n + 1) : i \in 1..Len(Group) /\ (i = n + 1 \/ i \in 1..n)
  BY <1>0, <1>1, NextOfGroup
<1>a. call.arg = n + 1 /\ Group[n + 1] = c /\ thr[t].arg = n
  BY <1>1
<1>3. /\ hist.group_freed /\ hist.dead \cap Elems(Group) = {}
      /\ \A x \in Elems(Group) : Finalizes(x) <=> x = thr[t].e
      /\ thr[t].e # NoCb => /\ base.current_event = thr[t].e
                            /\ \E i \in 1..n : Group[i] = thr[t].e
      /\ \A i \in 1..n : Finalizes(Group[i]) \/ Gone(Group[i])
  BY <1>1 DEF FinalizeInvariant, ManyInv
<1> HIDE DEF n
<1>4. c \notin hist.dead /\ c \notin SigEvents \cup OnceEvents
  BY <1>1, <1>3 DEF CarefulGroup
<1>5. ~Finalizes(c)
  <2>1. n + 1 \notin 1..n /\ \A i \in 1..n : i \in 1..Len(Group)
    BY <1>0, <1>1, <1>n, <1>a, SMTT(20)
  <2>2. \A i \in 1..n : Group[i] # c
    BY <1>n, <1>a, <2>1 DEF CarefulGroup
  <2> QED
    BY <1>0, <1>1, <1>3, <2>2
<1>6. "FINALIZING" \notin q.flags[c]
  BY <1>5 DEF FinalizeInvariant, MarkInv
<1>7. WaitInv'
  BY <1>1, <1>2 DEF FinalizeInvariant, WaitInv
<1>8. ASSUME hist' = hist, call.arg = thr[t].arg + 1,
             MarkInv', DeadInv', DeferredFlags', Finalizes(c)' \/ Gone(c)',
             Finalizes(c)' <=> call.e = c, call.e # NoCb => base'.current_event = call.e,
             call.e # c => call.e = thr[t].e, base'.current_event = base.current_event,
             call.e = c => base.current_event = c,
             \A x \in Callbacks \ {c} :
                (Finalizes(x)' <=> Finalizes(x)) /\ (Gone(x)' <=> Gone(x))
      PROVE  FinalizeInvariant'
  <2>1. \A x \in Elems(Group) : Finalizes(x)' <=> x = call.e
    <3>1. CASE call.e = c
      <4>1. thr[t].e = NoCb \/ thr[t].e = c
        BY <1>3, <1>8, <3>1
      <4> QED
        BY <1>0, <1>3, <1>5, <1>8, <3>1, <4>1
    <3>2. CASE call.e # c
      BY <1>0, <1>3, <1>8, <3>2
    <3> QED
      BY <3>1, <3>2
  <2>2. \A i \in 1..call.arg : Finalizes(Group[i])' \/ Gone(Group[i])'
    <3>1. ASSUME NEW i \in 1..call.arg
          PROVE  Finalizes(Group[i])' \/ Gone(Group[i])'
      <4>1. CASE Group[i] = c
        BY <1>8, <4>1
      <4>2. CASE Group[i] # c
        <5>1. i \in 1..n /\ Group[i] \in Callbacks \ {c}
          BY <1>0, <1>n, <1>a, <3>1, <4>2
        <5> QED
          BY <1>3, <1>8, <5>1
      <4> QED
        BY <4>1, <4>2
    <3> QED
      BY <3>1
  <2>3. call.e # NoCb => \E i \in 1..call.arg : Group[i] = call.e
    <3>1. CASE call.e = c
      <4>1. call.arg \in 1..call.arg /\ Group[call.arg] = c
        BY <1>n, <1>a
      <4> QED
        BY <3>1, <4>1
    <3>2. ASSUME call.e # c, call.e # NoCb
          PROVE  \E i \in 1..call.arg : Group[i] = call.e
      <4>1. PICK i \in 1..n : Group[i] = thr[t].e
        BY <1>3, <1>8, <3>2
      <4>2. i \in 1..call.arg
        BY <1>n, <1>a
      <4> QED
        BY <1>8, <3>2, <4>1, <4>2
    <3> QED
      BY <3>1, <3>2
  <2>4. ManyInv'
    <3>1. ASSUME NEW u \in Threads, thr'[u].st = "many"
          PROVE  /\ hist'.group_freed /\ hist'.dead \cap Elems(Group) = {}
                 /\ \A x \in Elems(Group) : Finalizes(x)' <=> x = thr'[u].e
                 /\ thr'[u].e # NoCb => /\ base'.current_event = thr'[u].e
                                        /\ \E i \in 1..thr'[u].arg : Group[i] = thr'[u].e
                 /\ \A i \in 1..thr'[u].arg : Finalizes(Group[i])' \/ Gone(Group[i])'
      <4>1. u = t /\ thr'[u] = call
        BY <1>2, <3>1
      <4> QED
        BY <1>3, <1>8, <2>1, <2>2, <2>3, <4>1
    <3> QED
      BY <3>1 DEF ManyInv
  <2>5. GroupInv'
    BY <1>1, <1>2, <1>3, <1>8, <2>1 DEF GroupInv
  <2> QED
    BY <1>7, <1>8, <2>4, <2>5 DEF FinalizeInvariant
<1>9. CASE base.current_event = c
  <2>1. Finalizer(c) /\ q'.flags[c] \cap QueueFlags = {"ACTIVE"} /\ call.e = c
    <3>1. c \notin LoopEvents => q.flags[c] \cap {"INSERTED", "TIMEOUT"} = {}
      BY <1>0 DEF FinalizeInvariant, DeferredFlags
    <3> QED
      BY <1>1, <1>6, <1>9, <3>1, FinalizesCallback
  <2>2. base'.current_event = base.current_event
    BY <2>1 DEF Finalizer
  <2>3. hist'.dead = hist.dead /\ hist' = hist
    BY <1>1
  <2>4. /\ MarkInv' /\ DeadInv' /\ DeferredFlags' /\ Finalizes(c)'
        /\ \A x \in Callbacks \ {c} :
              (Finalizes(x)' <=> Finalizes(x)) /\ (Gone(x)' <=> Gone(x))
    BY <1>4, <2>1, <2>3, FinMarked
  <2> QED
    BY <1>1, <1>8, <1>9, <2>1, <2>2, <2>3, <2>4
<1>10. CASE base.current_event # c
  <2>1. Works(c) /\ q'.flags[c] = Cancelled(c, q.flags[c]) /\ call.e = thr[t].e
    BY <1>1, <1>10, WorksCancelled
  <2>2. /\ base'.current_event = base.current_event /\ SameClosures /\ FlagsBut(q, q', c)
        /\ "FINALIZING" \notin q'.flags[c]
    BY <1>6, <2>1 DEF Works
  <2>3. Gone(c)'
    <3>1. CASE c \in LoopEvents
      BY <1>6, <1>10, <2>1, <2>2, <3>1 DEF Gone, Cancelled, Deleted
    <3>2. CASE c \notin LoopEvents
      <4>1. q.flags[c] \cap {"INSERTED", "TIMEOUT"} = {}
        BY <1>0, <3>2 DEF FinalizeInvariant, DeferredFlags
      <4> QED
        BY <1>6, <1>10, <2>1, <2>2, <3>2, <4>1 DEF Gone, Cancelled, QueueFlags
    <3> QED
      BY <3>1, <3>2
  <2>4. \A x \in Callbacks : Finalizes(x)' <=> Finalizes(x)
    BY <2>2 DEF SameClosures, Finalizes
  <2>5. \A x \in Callbacks \ {c} : (Gone(x)' <=> Gone(x)) /\ q'.flags[x] = q.flags[x]
    BY <2>2 DEF Gone, FlagsBut
  <2>6. hist' = hist
    BY <1>1
  <2>7. MarkInv'
    BY <2>2, <2>4, <2>5, <2>6 DEF FinalizeInvariant, MarkInv
  <2>8. DeadInv'
    <3>1. \A x \in hist.dead : x \in Callbacks \ {c}
      BY <1>4, StateTypes DEF HistType
    <3> QED
      BY <2>4, <2>5, <2>6, <3>1 DEF FinalizeInvariant, DeadInv
  <2>9. DeferredFlags'
    <3>1. q'.flags[c] \cap QueueFlags = {}
      BY <2>3 DEF Gone
    <3> QED
      BY <1>0, <2>5, <3>1 DEF FinalizeInvariant, DeferredFlags, QueueFlags
  <2>10. call.e # NoCb => base'.current_event = call.e
    BY <1>3, <2>1, <2>2
  <2>11. call.e # c
    BY <1>0, <1>3, <1>10, <2>1
  <2> QED
    BY <1>1, <1>5, <1>8, <2>1, <2>2, <2>3, <2>4, <2>5, <2>6, <2>7, <2>8, <2>9, <2>10, <2>11
<1> QED
  BY <1>9, <1>10

(* and, when none ran, gives it to the first of the group.                 *)
LEMMA FinManyLast ==
    ASSUME Inv, LockInv, CarefulGroup, FinalizeInvariant, NEW t \in Threads, FinalizeLast(t)
    PROVE  FinalizeInvariant'
<1>0. /\ NoCb \notin Callbacks /\ Elems(Group) \subseteq Callbacks
      /\ thr \in [Threads -> CallType] /\ Callbacks = LoopEvents \cup Deferreds
  BY StateTypes, GroupTypes
<1>1. /\ Group # <<>> /\ Group[1] \in Callbacks /\ Group[1] \in Elems(Group)
      /\ thr[t].st = "many" /\ thr[t].arg = Len(Group)
      /\ thr' = [thr EXCEPT ![t] = IdleCall] /\ UNCHANGED hist
      /\ thr[t].e = NoCb => Becomes(event_callback_finalize_nolock_(State, t, Group[1]))
      /\ thr[t].e # NoCb => UNCHANGED <<q, ev, base>>
  BY ManyLast
<1>2. \A u \in Threads : thr'[u].st # "many"
  BY <1>0, <1>1 DEF LockInv, IdleCall
<1>3. /\ hist.group_freed /\ hist.dead \cap Elems(Group) = {}
      /\ \A x \in Elems(Group) : Finalizes(x) <=> x = thr[t].e
      /\ \A x \in Elems(Group) : Finalizes(x) \/ Gone(x)
  <2>1. /\ hist.group_freed /\ hist.dead \cap Elems(Group) = {}
        /\ \A x \in Elems(Group) : Finalizes(x) <=> x = thr[t].e
        /\ \A i \in 1..Len(Group) : Finalizes(Group[i]) \/ Gone(Group[i])
    BY <1>1 DEF FinalizeInvariant, ManyInv
  <2> QED
    BY <2>1 DEF Elems
<1>4. WaitInv'
  BY <1>0, <1>1 DEF FinalizeInvariant, WaitInv, IdleCall
<1>5. ManyInv'
  BY <1>2 DEF ManyInv
<1>6. hist' = hist
  BY <1>1
<1>7. CASE thr[t].e # NoCb
  <2>1. q' = q /\ ev' = ev /\ base' = base
    BY <1>1, <1>7
  <2>2. MarkInv' /\ DeadInv' /\ DeferredFlags'
    BY <1>6, <2>1 DEF FinalizeInvariant, MarkInv, DeadInv, DeferredFlags, Finalizes, Gone
  <2>3. \A x : (Finalizes(x)' <=> Finalizes(x)) /\ (Gone(x)' <=> Gone(x))
    BY <2>1 DEF Finalizes, Gone
  <2>4. GroupInv'
    BY <1>3, <1>6, <2>3 DEF GroupInv
  <2> QED
    BY <1>4, <1>5, <2>2, <2>4 DEF FinalizeInvariant
<1>8. CASE thr[t].e = NoCb
  <2>1. PICK c \in Callbacks : c = Group[1] /\ c \in Elems(Group)
    BY <1>1
  <2>2. ~Finalizes(c) /\ c \notin hist.dead /\ c \notin SigEvents \cup OnceEvents
    BY <1>0, <1>3, <1>8, <2>1 DEF CarefulGroup
  <2>3. "FINALIZING" \notin q.flags[c]
    BY <2>2 DEF FinalizeInvariant, MarkInv
  <2>4. c \notin LoopEvents => q.flags[c] \cap {"INSERTED", "TIMEOUT"} = {}
    BY <1>0 DEF FinalizeInvariant, DeferredFlags
  <2>5. Finalizer(c) /\ q'.flags[c] \cap QueueFlags = {"ACTIVE"}
    BY <1>1, <1>8, <2>1, <2>3, <2>4, FinalizesCallback
  <2>6. /\ MarkInv' /\ DeadInv' /\ DeferredFlags' /\ Finalizes(c)'
        /\ \A x \in Callbacks \ {c} :
              (Finalizes(x)' <=> Finalizes(x)) /\ (Gone(x)' <=> Gone(x))
    BY <1>6, <2>2, <2>5, FinMarked
  <2>7. \A x \in Elems(Group) : Finalizes(x)' <=> x = c
    BY <1>0, <1>3, <1>8, <2>6
  <2>8. \A x \in Elems(Group) : Finalizes(x)' \/ Gone(x)'
    BY <1>0, <1>3, <2>6
  <2>9. GroupInv'
    BY <1>3, <1>6, <2>7, <2>8 DEF GroupInv
  <2> QED
    BY <1>4, <1>5, <2>6, <2>9 DEF FinalizeInvariant
<1> QED
  BY <1>7, <1>8

(* Every step keeps the invariant.                                         *)
LEMMA NextFin ==
    ASSUME CarefulProgram, CarefulGroup, Inv, LockInv, FinalizeInvariant, [Next]_vars
    PROVE  FinalizeInvariant'
<1>1. CASE UNCHANGED vars
  BY <1>1, FinQuiet DEF vars, Quiet, SameClosures
<1>2. CASE \E f \in LoopFlags : event_base_loop(f)
  BY <1>2, QuietLoop, FinQuiet
<1>3. CASE LoopStep
  BY <1>3, FinLoopStep
<1>4. ASSUME NEW t \in Threads, CallGoesOn(t)
      PROVE  FinalizeInvariant'
  <2>1. ~PriorityStore(t) /\ ~FinalizeAfterWait(t)
    <3>1. CallInv(t)
      BY StateTypes DEF CallsInv
    <3> QED
      BY <3>1 DEF CallInv, PriorityStore, FinalizeAfterWait, Wakes
  <2> QED
    BY <1>4, <2>1, FinAfterWaits, FinManyNext, FinManyLast DEF CallGoesOn
<1>5. ASSUME NEW t \in Threads, Call(t)
      PROVE  FinalizeInvariant'
  <2>1. CASE \E e \in UserEvents :
                \/ \E tv \in Timeouts \cup {NoTv} : event_add(t, e, tv)
                \/ \E m \in DelModes : event_del(t, e, m)
                \/ \E n \in NCalls : event_active(t, e, n)
                \/ event_remove_timer(t, e) \/ event_active_later_(t, e)
    BY <2>1, FinEventCalls
  <2>2. CASE \E e \in OnceEvents, tv \in Timeouts \cup {NoTv} : event_base_once(t, e, tv)
    BY <2>2, FinOtherCalls
  <2>3. CASE \E e \in UserEvents : event_finalize(t, e)
    BY <2>3, FinFinalize
  <2>4. CASE \E e \in UserEvents, p \in Priorities : event_priority_set(t, e, p)
    BY <2>4, QuietCall, FinQuiet
  <2>5. CASE \/ OnceFails(t) \/ event_base_update_cache_time(t)
             \/ event_base_add_virtual_(t) \/ event_base_loopbreak(t)
             \/ event_base_loopcontinue(t) \/ event_base_del_virtual_(t)
    BY <2>5, QuietCall, FinQuiet
  <2>6. CASE event_callback_finalize_many_(t)
    BY <2>6, FinManyStarts
  <2>7. CASE \E c \in Deferreds : \/ event_deferred_cb_schedule_(t, c)
                                  \/ event_deferred_cb_cancel_(t, c)
    BY <2>7, FinOtherCalls
  <2>8. ASSUME NEW c \in Deferreds, NEW p \in Priorities
        PROVE  ~event_deferred_cb_set_priority_(t, c, p)
    BY DEF CarefulProgram, event_deferred_cb_set_priority_
  <2> QED
    BY <1>5, <2>1, <2>2, <2>3, <2>4, <2>5, <2>6, <2>7, <2>8 DEF Call
<1>6. ASSUME NEW t \in Threads, SpuriousWakeup(t)
      PROVE  FinalizeInvariant'
  <2>1. /\ thr' = [thr EXCEPT ![t].st = "woken"] /\ UNCHANGED <<q, ev, base, hist>>
        /\ thr[t].st = "wait"
    BY <1>6 DEF SpuriousWakeup
  <2>2. thr[t] \in CallType /\ thr \in [Threads -> CallType]
    BY StateTypes
  <2>3. /\ thr'[t].st = "woken" /\ thr'[t].op = thr[t].op /\ thr'[t].e = thr[t].e
        /\ \A u \in Threads \ {t} : thr'[u] = thr[u]
    BY <2>1, <2>2 DEF CallType
  <2>4. /\ WaitInv'
        /\ \A u \in Threads : thr'[u].st = "many" \/ thr[u].st = "many" => thr'[u] = thr[u]
    BY <2>1, <2>3 DEF FinalizeInvariant, WaitInv
  <2>5. th_notify \in Callbacks /\ Works(th_notify) /\ q' = q /\ hist' = hist
    BY <2>1, EventBaseAssumption DEF Works, FlagsBut, SameClosures
  <2> QED
    BY <2>4, <2>5, FinWorks
<1>7. CASE Tick \/ \E e \in IOEvents : DescriptorChanges(e)
  BY <1>7, QuietClosure, FinQuiet
<1> QED
  BY <1>1, <1>2, <1>3, <1>4, <1>5, <1>6, <1>7 DEF Next

(* The invariant holds when event_base_new returns.                        *)
LEMMA InitFin ==
    ASSUME Init
    PROVE  FinalizeInvariant
<1>1. Deferreds \subseteq Callbacks /\ Elems(Group) \subseteq Callbacks
  BY GroupTypes
<1>2. \A c \in Callbacks : q.flags[c] = IF c = th_notify THEN {"INSERTED"} ELSE {}
  <2> DEFINE q0 == [flags |-> [c \in Callbacks |-> {}],
                    pri |-> InitPri,
                    activequeues |-> [p \in Priorities |-> <<>>],
                    active_later_queue |-> <<>>,
                    event_count |-> 0,
                    event_count_active |-> 0,
                    fatal |-> FALSE]
  <2>1. q = event_queue_insert_inserted(q0, th_notify)
    BY DEF Init
  <2>2. /\ q0.flags = [c \in Callbacks |-> {}] /\ q0 \in BookkeepingType
        /\ "INSERTED" \notin q0.flags[th_notify]
    <3>1. q0.flags = [c \in Callbacks |-> {}] /\ th_notify \in Callbacks
      BY EventBaseAssumption
    <3>2. /\ [c \in Callbacks |-> {}] \in [Callbacks -> SUBSET Flags]
          /\ [p \in Priorities |-> <<>>] \in [Priorities -> Seq(Callbacks)]
          /\ <<>> \in Seq(Callbacks) /\ 0 \in Int /\ FALSE \in BOOLEAN
      BY SMT
    <3>3. q0 \in BookkeepingType
      BY <3>2, EventBaseAssumption DEF BookkeepingType
    <3> QED
      BY <3>1, <3>3
  <2> HIDE DEF q0
  <2>3. q.flags = [q0.flags EXCEPT ![th_notify] = @ \cup {"INSERTED"}]
    BY <2>1, <2>2 DEF event_queue_insert_inserted, BookkeepingType
  <2> QED
    BY <2>2, <2>3
<1>3. \A c \in Callbacks : ~Finalizes(c)
  <2>1. ev = [c \in Callbacks |->
               [res |-> {}, timeout |-> 0, io_timeout |-> 0, ncalls |-> 0,
                pncalls |-> FALSE, closure |-> "run"]]
    BY DEF Init
  <2> QED
    BY <2>1 DEF Finalizes
<1>4. hist.dead = {} /\ ~hist.group_freed /\ \A t \in Threads : thr[t].st = "idle"
  BY DEF Init, IdleCall
<1>5. DeferredFlags /\ MarkInv
  BY <1>1, <1>2, EventBaseAssumption, SMT DEF DeferredFlags, MarkInv
<1> QED
  BY <1>1, <1>3, <1>4, <1>5 DEF FinalizeInvariant, DeadInv, WaitInv, GroupInv, ManyInv

(* It says what the finalizers promise.                                    *)
LEMMA FinIsEnough ==
    ASSUME FinalizeInvariant
    PROVE  FinalizedIsGone
<1> SUFFICES ASSUME NEW c \in hist.dead,
                    NEW x \in IF c \in Elems(Group) THEN Elems(Group) ELSE {c}
             PROVE  Gone(x)
  BY DEF FinalizedIsGone, Gone
<1>1. CASE x = c
  BY <1>1 DEF FinalizeInvariant, DeadInv
<1>2. CASE x # c
  <2>1. c \in Elems(Group) /\ x \in Elems(Group) /\ Finalizes(c)
    BY <1>2 DEF FinalizeInvariant, DeadInv
  <2>2. hist.group_freed /\ \A t \in Threads : thr[t].st # "many"
    BY <2>1 DEF FinalizeInvariant, GroupInv, ManyInv
  <2> QED
    BY <1>2, <2>1, <2>2 DEF FinalizeInvariant, GroupInv
<1> QED
  BY <1>1, <1>2
=============================================================================
