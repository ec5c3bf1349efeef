---------------------------- MODULE Parts_proofs ----------------------------
(***************************************************************************)
(* The parts of the library that can be reasoned about without a base.     *)
(* The queues: every event_queue_* function keeps the queues, the flags    *)
(* and the counters in agreement, when it is called on a callback in the   *)
(* state it expects.  A connection listener, whatever the limits on        *)
(* backlog and calls, and for every set of listeners and of calls another  *)
(* thread makes.  And signals, for every set of signals and of bases, one  *)
(* of which at a time waits for some.                                      *)
(***************************************************************************)
EXTENDS EventQueues, Listener, EvSignal, FiniteSetTheorems, TLAPS

(* Zenon, unless a step cites another prover. *)
USE Zenon

-----------------------------------------------------------------------------
(* Tail queues as sequences without repetition.                            *)

(* TAILQ_INSERT_TAIL adds one new element and nothing else.                *)
LEMMA InsertTail ==
    ASSUME NEW S, NEW s \in Seq(S), Injective(s), NEW c \in S, c \notin Elems(s)
    PROVE  /\ TAILQ_INSERT_TAIL(s, c) \in Seq(S)
           /\ Injective(TAILQ_INSERT_TAIL(s, c))
           /\ Elems(TAILQ_INSERT_TAIL(s, c)) = Elems(s) \cup {c}
<1> DEFINE r == Append(s, c)
<1>1. /\ r \in Seq(S) /\ Len(r) = Len(s) + 1
      /\ \A i \in 1..Len(s) : r[i] = s[i]
      /\ r[Len(s) + 1] = c
  BY SMT
<1>2. Len(s) \in Nat
  BY SMT
<1>3. Injective(r)
  <2> SUFFICES ASSUME NEW i \in 1..(Len(s) + 1), NEW j \in 1..(Len(s) + 1), r[i] = r[j]
               PROVE  i = j
    BY <1>1 DEF Injective
  <2>1. CASE i \in 1..Len(s) /\ j \in 1..Len(s)
    BY <2>1, <1>1 DEF Injective
  <2>2. CASE i = Len(s) + 1 /\ j \in 1..Len(s)
    BY <2>2, <1>1 DEF Elems
  <2>3. CASE j = Len(s) + 1 /\ i \in 1..Len(s)
    BY <2>3, <1>1 DEF Elems
  <2> QED
    BY <2>1, <2>2, <2>3, <1>2, SMT
<1>4. Elems(r) = Elems(s) \cup {c}
  <2>1. ASSUME NEW x \in Elems(r) PROVE x \in Elems(s) \cup {c}
    <3>1. PICK i \in 1..(Len(s) + 1) : x = r[i]
      BY <1>1 DEF Elems
    <3>2. i \in 1..Len(s) \/ i = Len(s) + 1
      BY <1>2, SMT
    <3> QED
      BY <3>1, <3>2, <1>1 DEF Elems
  <2>2. ASSUME NEW x \in Elems(s) PROVE x \in Elems(r)
    <3>1. PICK i \in 1..Len(s) : x = s[i]
      BY DEF Elems
    <3>2. i \in 1..Len(r) /\ x = r[i]
      BY <3>1, <1>1, <1>2, SMT
    <3> QED
      BY <3>2 DEF Elems
  <2>3. c \in Elems(r)
    <3>1. Len(s) + 1 \in 1..Len(r)
      BY <1>1, <1>2, SMT
    <3> QED
      BY <1>1, <3>1 DEF Elems
  <2> QED
    BY <2>1, <2>2, <2>3
<1> QED
  BY <1>1, <1>3, <1>4 DEF TAILQ_INSERT_TAIL

(* TAILQ_REMOVE takes exactly the element off the queue.                   *)
LEMMA Remove ==
    ASSUME NEW S, NEW s \in Seq(S), Injective(s), NEW c \in Elems(s)
    PROVE  /\ TAILQ_REMOVE(s, c) \in Seq(S)
           /\ Injective(TAILQ_REMOVE(s, c))
           /\ Elems(TAILQ_REMOVE(s, c)) = Elems(s) \ {c}
<1> DEFINE k == CHOOSE i \in 1..Len(s) : s[i] = c
           n == Len(s) - 1
           r == [i \in 1..n |-> IF i < k THEN s[i] ELSE s[i + 1]]
<1>1. k \in 1..Len(s) /\ s[k] = c
  BY DEF Elems
<1>2. Len(s) \in Nat /\ n \in Nat /\ k \in Nat /\ k <= Len(s) /\ k >= 1
  BY <1>1, SMT
<1>3. \A i \in 1..n : i \in 1..Len(s) /\ i + 1 \in 1..Len(s)
  BY <1>2, SMT
<1>4. \A i \in 1..Len(s) : s[i] \in S
  BY SMT
<1> HIDE DEF k
<1>5. \A i \in 1..n : r[i] \in S
  BY <1>3, <1>4
<1>6. r \in Seq(S) /\ Len(r) = n
  <2>1. r \in [1..n -> S]
    BY <1>5
  <2> QED
    BY <2>1, <1>2, SMT
<1>7. Injective(r)
  <2> SUFFICES ASSUME NEW i \in 1..n, NEW j \in 1..n, r[i] = r[j]
               PROVE  i = j
    BY <1>6 DEF Injective
  <2>1. CASE i < k /\ j < k
    BY <2>1, <1>3 DEF Injective
  <2>2. CASE i < k /\ ~(j < k)
    <3>1. s[i] = s[j + 1]
      BY <2>2
    <3>2. i = j + 1
      BY <3>1, <1>3 DEF Injective
    <3> QED
      BY <2>2, <3>2, <1>2, SMT
  <2>3. CASE ~(i < k) /\ j < k
    <3>1. s[i + 1] = s[j]
      BY <2>3
    <3>2. i + 1 = j
      BY <3>1, <1>3 DEF Injective
    <3> QED
      BY <2>3, <3>2, <1>2, SMT
  <2>4. CASE ~(i < k) /\ ~(j < k)
    <3>1. i + 1 = j + 1
      BY <2>4, <1>3 DEF Injective
    <3> QED
      BY <3>1, SMT
  <2> QED
    BY <2>1, <2>2, <2>3, <2>4
<1>8. Elems(r) = Elems(s) \ {c}
  <2>1. ASSUME NEW x \in Elems(r) PROVE x \in Elems(s) /\ x # c
    <3>1. PICK i \in 1..n : x = r[i]
      BY <1>6 DEF Elems
    <3>2. CASE i < k
      <4>1. x = s[i] /\ i \in 1..Len(s) /\ i # k
        BY <3>1, <3>2, <1>2, <1>3, SMT
      <4> QED
        BY <4>1, <1>1 DEF Elems, Injective
    <3>3. CASE ~(i < k)
      <4>1. x = s[i + 1] /\ i + 1 \in 1..Len(s) /\ i + 1 # k
        BY <3>1, <3>3, <1>2, <1>3, SMT
      <4> QED
        BY <4>1, <1>1 DEF Elems, Injective
    <3> QED
      BY <3>2, <3>3
  <2>2. ASSUME NEW x \in Elems(s), x # c PROVE x \in Elems(r)
    <3>1. PICK i \in 1..Len(s) : x = s[i]
      BY DEF Elems
    <3>2. i # k
      BY <3>1, <2>2, <1>1
    <3>3. CASE i < k
      <4>1. i \in 1..n /\ r[i] = x
        BY <3>1, <3>3, <1>2, SMT
      <4> QED
        BY <4>1, <1>6 DEF Elems
    <3>4. CASE i > k
      <4>1. i - 1 \in 1..n /\ ~(i - 1 < k) /\ (i - 1) + 1 = i
        BY <3>4, <1>2, SMT
      <4>2. r[i - 1] = x
        BY <4>1, <3>1
      <4> QED
        BY <4>1, <4>2, <1>6 DEF Elems
    <3> QED
      BY <3>2, <3>3, <3>4, <1>2, SMT
  <2> QED
    BY <2>1, <2>2
<1> QED
  BY <1>6, <1>7, <1>8 DEF TAILQ_REMOVE, k

-----------------------------------------------------------------------------
(* Counting.                                                               *)

(* There are finitely many callbacks and flags to count.                   *)
LEMMA CountedFinite ==
    ASSUME NEW qq
    PROVE  IsFiniteSet(CountedFlags(qq)) /\ IsFiniteSet(ActiveCallbacks(qq))
<1>1. IsFiniteSet(QueueFlags)
  <2>1. IsFiniteSet({}) BY FS_EmptySet
  <2>2. IsFiniteSet({} \cup {"INSERTED"}) BY <2>1, FS_AddElement
  <2>3. IsFiniteSet({} \cup {"INSERTED"} \cup {"TIMEOUT"}) BY <2>2, FS_AddElement
  <2>4. IsFiniteSet({} \cup {"INSERTED"} \cup {"TIMEOUT"} \cup {"ACTIVE"})
    BY <2>3, FS_AddElement
  <2>5. IsFiniteSet({} \cup {"INSERTED"} \cup {"TIMEOUT"} \cup {"ACTIVE"}
                       \cup {"ACTIVE_LATER"})
    BY <2>4, FS_AddElement
  <2>6. QueueFlags = {} \cup {"INSERTED"} \cup {"TIMEOUT"} \cup {"ACTIVE"}
                        \cup {"ACTIVE_LATER"}
    BY DEF QueueFlags
  <2> QED
    BY <2>5, <2>6
<1>2. IsFiniteSet(Callbacks \ Internal)
  BY CallbacksAssumption, FS_Subset
<1>3. IsFiniteSet((Callbacks \ Internal) \X QueueFlags)
  BY <1>1, <1>2, FS_Product
<1>4. CountedFlags(qq) \subseteq (Callbacks \ Internal) \X QueueFlags
  BY DEF CountedFlags
<1>5. ActiveCallbacks(qq) \subseteq Callbacks
  BY DEF ActiveCallbacks
<1> QED
  BY <1>3, <1>4, <1>5, CallbacksAssumption, FS_Subset

(* Setting a flag counts one more structure, unless the callback is        *)
(* internal: what INCR_EVENT_COUNT computes.                               *)
LEMMA CountSet ==
    ASSUME NEW qq, NEW rr, NEW c \in Callbacks, NEW f \in QueueFlags,
           qq.flags \in [Callbacks -> SUBSET Flags],
           rr.flags = [qq.flags EXCEPT ![c] = @ \cup {f}],
           f \notin qq.flags[c],
           qq.event_count = Cardinality(CountedFlags(qq))
    PROVE  Incr(qq, c) = Cardinality(CountedFlags(rr))
<1>1. CASE c \in Internal
  <2>1. CountedFlags(rr) = CountedFlags(qq)
    BY <1>1 DEF CountedFlags
  <2> QED
    BY <2>1, <1>1 DEF Incr
<1>2. CASE c \notin Internal
  <2>1. <<c, f>> \notin CountedFlags(qq)
    BY DEF CountedFlags
  <2>2. CountedFlags(rr) = CountedFlags(qq) \cup {<<c, f>>}
    <3>1. ASSUME NEW x \in (Callbacks \ Internal) \X QueueFlags
          PROVE  x[2] \in rr.flags[x[1]] <=> x[2] \in qq.flags[x[1]] \/ x = <<c, f>>
      <4>1. PICK y \in Callbacks \ Internal, g \in QueueFlags : x = <<y, g>>
        BY SMT
      <4>2. x[1] = y /\ x[2] = g
        BY <4>1
      <4>3. g \in rr.flags[y] <=> g \in qq.flags[y] \/ (y = c /\ g = f)
        BY SMT
      <4> QED
        BY <4>1, <4>2, <4>3
    <3>2. <<c, f>> \in (Callbacks \ Internal) \X QueueFlags
      BY <1>2
    <3> QED
      BY <3>1, <3>2 DEF CountedFlags
  <2> QED
    BY <2>1, <2>2, <1>2, CountedFinite, FS_AddElement DEF Incr
<1> QED
  BY <1>1, <1>2

(* Clearing a flag counts one structure less: DECR_EVENT_COUNT.            *)
LEMMA CountClear ==
    ASSUME NEW qq, NEW rr, NEW c \in Callbacks, NEW f \in QueueFlags,
           qq.flags \in [Callbacks -> SUBSET Flags],
           rr.flags = [qq.flags EXCEPT ![c] = @ \ {f}],
           f \in qq.flags[c],
           qq.event_count = Cardinality(CountedFlags(qq))
    PROVE  Decr(qq, c) = Cardinality(CountedFlags(rr))
<1>1. CASE c \in Internal
  <2>1. CountedFlags(rr) = CountedFlags(qq)
    BY <1>1 DEF CountedFlags
  <2> QED
    BY <2>1, <1>1 DEF Decr
<1>2. CASE c \notin Internal
  <2>1. <<c, f>> \in CountedFlags(qq)
    BY <1>2 DEF CountedFlags
  <2>2. CountedFlags(rr) = CountedFlags(qq) \ {<<c, f>>}
    <3>1. ASSUME NEW x \in (Callbacks \ Internal) \X QueueFlags
          PROVE  x[2] \in rr.flags[x[1]] <=> x[2] \in qq.flags[x[1]] /\ x # <<c, f>>
      <4>1. PICK y \in Callbacks \ Internal, g \in QueueFlags : x = <<y, g>>
        BY SMT
      <4>2. x[1] = y /\ x[2] = g
        BY <4>1
      <4>3. g \in rr.flags[y] <=> g \in qq.flags[y] /\ ~(y = c /\ g = f)
        BY SMT
      <4> QED
        BY <4>1, <4>2, <4>3
    <3> QED
      BY <3>1 DEF CountedFlags
  <2> QED
    BY <2>1, <2>2, <1>2, CountedFinite, FS_RemoveElement DEF Decr
<1> QED
  BY <1>1, <1>2

-----------------------------------------------------------------------------
(* Putting an event on the I/O or signal map, or on the timer heap.        *)
LEMMA SetFlag ==
    ASSUME NEW qq, QueuesOK(qq), NEW c \in Callbacks, NEW f \in {"INSERTED", "TIMEOUT"},
           f \notin qq.flags[c]
    PROVE  LET rr == [qq EXCEPT !.flags[c] = @ \cup {f}, !.event_count = Incr(qq, c)]
           IN  /\ QueuesOK(rr) /\ rr.pri = qq.pri
               /\ rr.flags = [qq.flags EXCEPT ![c] = @ \cup {f}]
<1> DEFINE rr == [qq EXCEPT !.flags[c] = @ \cup {f}, !.event_count = Incr(qq, c)]
<1>1. qq \in BookkeepingType
  BY DEF QueuesOK
<1>2. /\ rr.flags = [qq.flags EXCEPT ![c] = @ \cup {f}]
      /\ rr.event_count = Incr(qq, c)
      /\ rr.pri = qq.pri /\ rr.activequeues = qq.activequeues
      /\ rr.active_later_queue = qq.active_later_queue
      /\ rr.event_count_active = qq.event_count_active
      /\ rr.fatal = qq.fatal
  BY <1>1 DEF BookkeepingType
<1>3. rr \in BookkeepingType
  <2>1. [qq.flags EXCEPT ![c] = @ \cup {f}] \in [Callbacks -> SUBSET Flags]
    BY <1>1 DEF BookkeepingType, Flags, QueueFlags
  <2>2. Incr(qq, c) \in Int
    BY <1>1, SMT DEF BookkeepingType, Incr
  <2> QED
    BY <1>1, <2>1, <2>2 DEF BookkeepingType
<1> HIDE DEF rr
<1>4. QueuesMatchFlags(rr)
  <2>1. \A x \in Callbacks : /\ "ACTIVE" \in rr.flags[x] <=> "ACTIVE" \in qq.flags[x]
                             /\ "ACTIVE_LATER" \in rr.flags[x]
                                  <=> "ACTIVE_LATER" \in qq.flags[x]
    BY <1>1, <1>2, SMT DEF BookkeepingType
  <2> QED
    BY <1>2, <2>1, SMT DEF QueuesOK, QueuesMatchFlags
<1>5. CountersMatchFlags(rr)
  <2>1. ActiveCallbacks(rr) = ActiveCallbacks(qq)
    BY <1>1, <1>2 DEF ActiveCallbacks, BookkeepingType
  <2>2. f \in QueueFlags /\ qq.flags \in [Callbacks -> SUBSET Flags]
        /\ qq.event_count = Cardinality(CountedFlags(qq))
    BY <1>1 DEF QueueFlags, BookkeepingType, QueuesOK, CountersMatchFlags
  <2>3. Incr(qq, c) = Cardinality(CountedFlags(rr))
    BY <1>2, <2>2, CountSet, SMT
  <2> QED
    BY <1>2, <2>1, <2>3 DEF QueuesOK, CountersMatchFlags
<1>6. rr.fatal = FALSE
  BY <1>2 DEF QueuesOK
<1>7. QueuesOK(rr)
  BY <1>3, <1>4, <1>5, <1>6 DEF QueuesOK
<1> QED
  BY <1>2, <1>7 DEF rr

(* Taking an event off the I/O or signal map, or off the timer heap.       *)
LEMMA ClearFlag ==
    ASSUME NEW qq, QueuesOK(qq), NEW c \in Callbacks, NEW f \in {"INSERTED", "TIMEOUT"},
           f \in qq.flags[c]
    PROVE  LET rr == [qq EXCEPT !.flags[c] = @ \ {f}, !.event_count = Decr(qq, c)]
           IN  /\ QueuesOK(rr) /\ rr.pri = qq.pri
               /\ rr.flags = [qq.flags EXCEPT ![c] = @ \ {f}]
<1> DEFINE rr == [qq EXCEPT !.flags[c] = @ \ {f}, !.event_count = Decr(qq, c)]
<1>1. qq \in BookkeepingType
  BY DEF QueuesOK
<1>2. /\ rr.flags = [qq.flags EXCEPT ![c] = @ \ {f}]
      /\ rr.event_count = Decr(qq, c)
      /\ rr.pri = qq.pri /\ rr.activequeues = qq.activequeues
      /\ rr.active_later_queue = qq.active_later_queue
      /\ rr.event_count_active = qq.event_count_active
      /\ rr.fatal = qq.fatal
  BY <1>1 DEF BookkeepingType
<1>3. rr \in BookkeepingType
  <2>1. [qq.flags EXCEPT ![c] = @ \ {f}] \in [Callbacks -> SUBSET Flags]
    BY <1>1 DEF BookkeepingType, Flags, QueueFlags
  <2>2. Decr(qq, c) \in Int
    BY <1>1, SMT DEF BookkeepingType, Decr
  <2> QED
    BY <1>1, <2>1, <2>2 DEF BookkeepingType
<1> HIDE DEF rr
<1>4. QueuesMatchFlags(rr)
  <2>1. \A x \in Callbacks : /\ "ACTIVE" \in rr.flags[x] <=> "ACTIVE" \in qq.flags[x]
                             /\ "ACTIVE_LATER" \in rr.flags[x]
                                  <=> "ACTIVE_LATER" \in qq.flags[x]
    BY <1>1, <1>2 DEF BookkeepingType
  <2> QED
    BY <1>2, <2>1, SMT DEF QueuesOK, QueuesMatchFlags
<1>5. CountersMatchFlags(rr)
  <2>1. ActiveCallbacks(rr) = ActiveCallbacks(qq)
    BY <1>1, <1>2 DEF ActiveCallbacks, BookkeepingType
  <2>2. f \in QueueFlags /\ qq.flags \in [Callbacks -> SUBSET Flags]
        /\ qq.event_count = Cardinality(CountedFlags(qq))
    BY <1>1 DEF QueueFlags, BookkeepingType, QueuesOK, CountersMatchFlags
  <2>3. Decr(qq, c) = Cardinality(CountedFlags(rr))
    BY <1>2, <2>2, CountClear, SMT
  <2> QED
    BY <1>2, <2>1, <2>3 DEF QueuesOK, CountersMatchFlags
<1>6. rr.fatal = FALSE
  BY <1>2 DEF QueuesOK
<1>7. QueuesOK(rr)
  BY <1>3, <1>4, <1>5, <1>6 DEF QueuesOK
<1> QED
  BY <1>2, <1>7 DEF rr

(* event_queue_insert_inserted on an event that is not inserted.           *)
LEMMA InsertInserted ==
    ASSUME NEW qq, QueuesOK(qq), NEW c \in Callbacks, "INSERTED" \notin qq.flags[c]
    PROVE  LET rr == event_queue_insert_inserted(qq, c)
           IN  /\ QueuesOK(rr) /\ rr.pri = qq.pri
               /\ rr.flags = [qq.flags EXCEPT ![c] = @ \cup {"INSERTED"}]
BY SetFlag DEF event_queue_insert_inserted

(* event_queue_remove_inserted on an inserted event.                       *)
LEMMA RemoveInserted ==
    ASSUME NEW qq, QueuesOK(qq), NEW c \in Callbacks, "INSERTED" \in qq.flags[c]
    PROVE  LET rr == event_queue_remove_inserted(qq, c)
           IN  /\ QueuesOK(rr) /\ rr.pri = qq.pri
               /\ rr.flags = [qq.flags EXCEPT ![c] = @ \ {"INSERTED"}]
BY ClearFlag DEF event_queue_remove_inserted

(* event_queue_insert_timeout on an event without a timer.                 *)
LEMMA InsertTimeout ==
    ASSUME NEW qq, QueuesOK(qq), NEW c \in Callbacks, "TIMEOUT" \notin qq.flags[c]
    PROVE  LET rr == event_queue_insert_timeout(qq, c)
           IN  /\ QueuesOK(rr) /\ rr.pri = qq.pri
               /\ rr.flags = [qq.flags EXCEPT ![c] = @ \cup {"TIMEOUT"}]
BY SetFlag DEF event_queue_insert_timeout

(* event_queue_remove_timeout on an event with a timer.                    *)
LEMMA RemoveTimeout ==
    ASSUME NEW qq, QueuesOK(qq), NEW c \in Callbacks, "TIMEOUT" \in qq.flags[c]
    PROVE  LET rr == event_queue_remove_timeout(qq, c)
           IN  /\ QueuesOK(rr) /\ rr.pri = qq.pri
               /\ rr.flags = [qq.flags EXCEPT ![c] = @ \ {"TIMEOUT"}]
BY ClearFlag DEF event_queue_remove_timeout

-----------------------------------------------------------------------------
(* event_queue_insert_active on a callback that is not active. *)
LEMMA InsertActive ==
    ASSUME NEW qq, QueuesOK(qq), NEW c \in Callbacks, 
           qq.flags[c] \cap {"ACTIVE", "ACTIVE_LATER"} = {}
    PROVE  LET rr == event_queue_insert_active(qq, c)
           IN  /\ QueuesOK(rr) /\ rr.pri = qq.pri
               /\ rr.flags = [qq.flags EXCEPT ![c] = @ \cup {"ACTIVE"}]
<1>1. /\ qq \in BookkeepingType /\ QueuesMatchFlags(qq) /\ qq.fatal = FALSE
      /\ qq.flags \in [Callbacks -> SUBSET Flags] /\ qq.pri[c] \in Priorities
      /\ qq.event_count_active = Cardinality(ActiveCallbacks(qq))
      /\ qq.event_count = Cardinality(CountedFlags(qq))
  BY DEF QueuesOK, BookkeepingType, CountersMatchFlags
<1>2. PICK F \in [Callbacks -> SUBSET Flags] :
        F = [qq.flags EXCEPT ![c] = @ \cup {"ACTIVE"}]
  BY <1>1 DEF Flags, QueueFlags
<1>3. PICK p \in Priorities : p = qq.pri[c]
  BY <1>1
<1>4. PICK s \in Seq(Callbacks) :
        /\ s = TAILQ_INSERT_TAIL(qq.activequeues[p], c) /\ Injective(s)
        /\ Elems(s) = Elems(qq.activequeues[p]) \cup {c}
  <2>1. /\ qq.activequeues[p] \in Seq(Callbacks) /\ Injective(qq.activequeues[p])
        /\ c \notin Elems(qq.activequeues[p])
    BY <1>1, <1>3 DEF QueuesMatchFlags, BookkeepingType
  <2> QED
    BY <2>1, InsertTail, SMT
<1>5. PICK A \in [Priorities -> Seq(Callbacks)] :
        A = [qq.activequeues EXCEPT ![p] = s]
  BY <1>1, <1>4 DEF BookkeepingType
<1>6. PICK n \in Int : n = Incr(qq, c)
  BY <1>1, SMT DEF BookkeepingType, Incr
<1>7. PICK m \in Int : m = qq.event_count_active + 1
  BY <1>1, SMT DEF BookkeepingType
<1>8. PICK rr : rr = [qq EXCEPT !.flags = F, !.event_count = n,
                                !.event_count_active = m, !.activequeues = A]
  OBVIOUS
<1>9. /\ rr \in BookkeepingType /\ rr.flags = F /\ rr.pri = qq.pri
      /\ rr.activequeues = A /\ rr.active_later_queue = qq.active_later_queue
      /\ rr.event_count = n /\ rr.event_count_active = m /\ rr.fatal = qq.fatal
  BY <1>1, <1>8 DEF BookkeepingType
<1>10. rr = event_queue_insert_active(qq, c)
  <2>1. A = [qq.activequeues EXCEPT ![qq.pri[c]] = TAILQ_INSERT_TAIL(@, c)]
    BY <1>3, <1>5, <1>4
  <2>2. rr = [qq EXCEPT !.flags = [qq.flags EXCEPT ![c] = @ \cup {"ACTIVE"}],
                        !.event_count = Incr(qq, c),
                        !.event_count_active = qq.event_count_active + 1,
                        !.activequeues = [qq.activequeues EXCEPT ![qq.pri[c]] = TAILQ_INSERT_TAIL(@, c)]]
    BY <1>2, <1>6, <1>7, <1>8, <2>1
  <2> QED
    BY <1>1, <2>2 DEF event_queue_insert_active, BookkeepingType
<1>11. \A x \in Callbacks :
         /\ "ACTIVE" \in F[x] <=> "ACTIVE" \in qq.flags[x] \/ x = c
         /\ "ACTIVE_LATER" \in F[x] <=> "ACTIVE_LATER" \in qq.flags[x]
  BY <1>1, <1>2
<1>12. QueuesMatchFlags(rr)
  <2>1. ASSUME NEW r \in Priorities
        PROVE  /\ Injective(A[r])
               /\ Elems(A[r]) = {x \in Callbacks : "ACTIVE" \in F[x] /\ qq.pri[x] = r}
    <3>1. /\ Injective(qq.activequeues[r])
          /\ Elems(qq.activequeues[r]) =
                {x \in Callbacks : "ACTIVE" \in qq.flags[x] /\ qq.pri[x] = r}
      BY <1>1 DEF QueuesMatchFlags
    <3>2. CASE r = p
      <4>1. A[r] = s
        BY <3>2, <1>1, <1>5 DEF BookkeepingType
      <4> QED
        BY <4>1, <3>1, <3>2, <1>3, <1>4, <1>11
    <3>3. CASE r # p
      <4>1. A[r] = qq.activequeues[r]
        BY <3>3, <1>1, <1>5 DEF BookkeepingType
      <4> QED
        BY <4>1, <3>1, <3>3, <1>3, <1>11
    <3> QED
      BY <3>2, <3>3
  <2>2. \A x \in Callbacks : ~({"ACTIVE", "ACTIVE_LATER"} \subseteq F[x])
    BY <1>1, <1>11 DEF QueuesMatchFlags
  <2>3. Elems(rr.active_later_queue) = {x \in Callbacks : "ACTIVE_LATER" \in F[x]}
    BY <1>1, <1>9, <1>11 DEF QueuesMatchFlags
  <2> QED
    BY <1>1, <1>9, <2>1, <2>2, <2>3 DEF QueuesMatchFlags
<1>13. CountersMatchFlags(rr)
  <2>1. ActiveCallbacks(rr) = ActiveCallbacks(qq) \cup {c} /\ c \notin ActiveCallbacks(qq)
    BY <1>1, <1>2, <1>9, <1>11, SMT DEF ActiveCallbacks, QueuesMatchFlags
  <2>2. m = Cardinality(ActiveCallbacks(rr))
    <3>1. IsFiniteSet(ActiveCallbacks(qq))
      BY CountedFinite
    <3>2. Cardinality(ActiveCallbacks(qq) \cup {c}) = Cardinality(ActiveCallbacks(qq)) + 1
      BY <3>1, <2>1, FS_AddElement
    <3> QED
      BY <3>2, <2>1, <1>1, <1>7
  <2>3. n = Cardinality(CountedFlags(rr))
    <3>1. /\ "ACTIVE" \in QueueFlags /\ "ACTIVE" \notin qq.flags[c]
          /\ rr.flags = [qq.flags EXCEPT ![c] = @ \cup {"ACTIVE"}]
      BY <1>2, <1>9 DEF QueueFlags
    <3>2. Incr(qq, c) = Cardinality(CountedFlags(rr))
      BY <3>1, <1>1, CountSet
    <3> QED
      BY <3>2, <1>6
  <2> QED
    BY <1>9, <2>2, <2>3 DEF CountersMatchFlags
<1> QED
  BY <1>1, <1>2, <1>9, <1>10, <1>12, <1>13 DEF QueuesOK

(* event_queue_remove_active on a callback that is active. *)
LEMMA RemoveActive ==
    ASSUME NEW qq, QueuesOK(qq), NEW c \in Callbacks, "ACTIVE" \in qq.flags[c]
    PROVE  LET rr == event_queue_remove_active(qq, c)
           IN  /\ QueuesOK(rr) /\ rr.pri = qq.pri
               /\ rr.flags = [qq.flags EXCEPT ![c] = @ \ {"ACTIVE"}]
<1>1. /\ qq \in BookkeepingType /\ QueuesMatchFlags(qq) /\ qq.fatal = FALSE
      /\ qq.flags \in [Callbacks -> SUBSET Flags] /\ qq.pri[c] \in Priorities
      /\ qq.event_count_active = Cardinality(ActiveCallbacks(qq))
      /\ qq.event_count = Cardinality(CountedFlags(qq))
  BY DEF QueuesOK, BookkeepingType, CountersMatchFlags
<1>2. PICK F \in [Callbacks -> SUBSET Flags] :
        F = [qq.flags EXCEPT ![c] = @ \ {"ACTIVE"}]
  BY <1>1 DEF Flags, QueueFlags
<1>3. PICK p \in Priorities : p = qq.pri[c]
  BY <1>1
<1>4. PICK s \in Seq(Callbacks) :
        /\ s = TAILQ_REMOVE(qq.activequeues[p], c) /\ Injective(s)
        /\ Elems(s) = Elems(qq.activequeues[p]) \ {c}
  <2>1. /\ qq.activequeues[p] \in Seq(Callbacks) /\ Injective(qq.activequeues[p])
        /\ c \in Elems(qq.activequeues[p])
    BY <1>1, <1>3 DEF QueuesMatchFlags, BookkeepingType
  <2> QED
    BY <2>1, Remove
<1>5. PICK A \in [Priorities -> Seq(Callbacks)] :
        A = [qq.activequeues EXCEPT ![p] = s]
  BY <1>1, <1>4 DEF BookkeepingType
<1>6. PICK n \in Int : n = Decr(qq, c)
  BY <1>1, SMT DEF BookkeepingType, Decr
<1>7. PICK m \in Int : m = qq.event_count_active - 1
  BY <1>1, SMT DEF BookkeepingType
<1>8. PICK rr : rr = [qq EXCEPT !.flags = F, !.event_count = n,
                                !.event_count_active = m, !.activequeues = A]
  OBVIOUS
<1>9. /\ rr \in BookkeepingType /\ rr.flags = F /\ rr.pri = qq.pri
      /\ rr.activequeues = A /\ rr.active_later_queue = qq.active_later_queue
      /\ rr.event_count = n /\ rr.event_count_active = m /\ rr.fatal = qq.fatal
  BY <1>1, <1>8 DEF BookkeepingType
<1>10. rr = event_queue_remove_active(qq, c)
  <2>1. A = [qq.activequeues EXCEPT ![qq.pri[c]] = TAILQ_REMOVE(@, c)]
    BY <1>3, <1>5, <1>4
  <2>2. rr = [qq EXCEPT !.flags = [qq.flags EXCEPT ![c] = @ \ {"ACTIVE"}],
                        !.event_count = Decr(qq, c),
                        !.event_count_active = qq.event_count_active - 1,
                        !.activequeues = [qq.activequeues EXCEPT ![qq.pri[c]] = TAILQ_REMOVE(@, c)]]
    BY <1>2, <1>6, <1>7, <1>8, <2>1
  <2> QED
    BY <1>1, <2>2 DEF event_queue_remove_active, BookkeepingType
<1>11. \A x \in Callbacks :
         /\ "ACTIVE" \in F[x] <=> "ACTIVE" \in qq.flags[x] /\ x # c
         /\ "ACTIVE_LATER" \in F[x] <=> "ACTIVE_LATER" \in qq.flags[x]
  BY <1>1, <1>2
<1>12. QueuesMatchFlags(rr)
  <2>1. ASSUME NEW r \in Priorities
        PROVE  /\ Injective(A[r])
               /\ Elems(A[r]) = {x \in Callbacks : "ACTIVE" \in F[x] /\ qq.pri[x] = r}
    <3>1. /\ Injective(qq.activequeues[r])
          /\ Elems(qq.activequeues[r]) =
                {x \in Callbacks : "ACTIVE" \in qq.flags[x] /\ qq.pri[x] = r}
      BY <1>1 DEF QueuesMatchFlags
    <3>2. CASE r = p
      <4>1. A[r] = s
        BY <3>2, <1>1, <1>5 DEF BookkeepingType
      <4> QED
        BY <4>1, <3>1, <3>2, <1>3, <1>4, <1>11
    <3>3. CASE r # p
      <4>1. A[r] = qq.activequeues[r]
        BY <3>3, <1>1, <1>5 DEF BookkeepingType
      <4> QED
        BY <4>1, <3>1, <3>3, <1>3, <1>11
    <3> QED
      BY <3>2, <3>3
  <2>2. \A x \in Callbacks : ~({"ACTIVE", "ACTIVE_LATER"} \subseteq F[x])
    BY <1>1, <1>11 DEF QueuesMatchFlags
  <2>3. Elems(rr.active_later_queue) = {x \in Callbacks : "ACTIVE_LATER" \in F[x]}
    BY <1>1, <1>9, <1>11 DEF QueuesMatchFlags
  <2> QED
    BY <1>1, <1>9, <2>1, <2>2, <2>3 DEF QueuesMatchFlags
<1>13. CountersMatchFlags(rr)
  <2>1. ActiveCallbacks(rr) = ActiveCallbacks(qq) \ {c} /\ c \in ActiveCallbacks(qq)
    BY <1>1, <1>2, <1>9, <1>11, SMT DEF ActiveCallbacks, QueuesMatchFlags
  <2>2. m = Cardinality(ActiveCallbacks(rr))
    <3>1. IsFiniteSet(ActiveCallbacks(qq))
      BY CountedFinite
    <3>2. Cardinality(ActiveCallbacks(qq) \ {c}) = Cardinality(ActiveCallbacks(qq)) - 1
      BY <3>1, <2>1, FS_RemoveElement
    <3> QED
      BY <3>2, <2>1, <1>1, <1>7
  <2>3. n = Cardinality(CountedFlags(rr))
    <3>1. /\ "ACTIVE" \in QueueFlags /\ "ACTIVE" \in qq.flags[c]
          /\ rr.flags = [qq.flags EXCEPT ![c] = @ \ {"ACTIVE"}]
      BY <1>2, <1>9 DEF QueueFlags
    <3>2. Decr(qq, c) = Cardinality(CountedFlags(rr))
      BY <3>1, <1>1, CountClear
    <3> QED
      BY <3>2, <1>6
  <2> QED
    BY <1>9, <2>2, <2>3 DEF CountersMatchFlags
<1> QED
  BY <1>1, <1>2, <1>9, <1>10, <1>12, <1>13 DEF QueuesOK

(* event_queue_insert_active_later on a callback that is not active. *)
LEMMA InsertActiveLater ==
    ASSUME NEW qq, QueuesOK(qq), NEW c \in Callbacks, 
           qq.flags[c] \cap {"ACTIVE", "ACTIVE_LATER"} = {}
    PROVE  LET rr == event_queue_insert_active_later(qq, c)
           IN  /\ QueuesOK(rr) /\ rr.pri = qq.pri
               /\ rr.flags = [qq.flags EXCEPT ![c] = @ \cup {"ACTIVE_LATER"}]
<1>1. /\ qq \in BookkeepingType /\ QueuesMatchFlags(qq) /\ qq.fatal = FALSE
      /\ qq.flags \in [Callbacks -> SUBSET Flags] /\ qq.pri[c] \in Priorities
      /\ qq.event_count_active = Cardinality(ActiveCallbacks(qq))
      /\ qq.event_count = Cardinality(CountedFlags(qq))
  BY DEF QueuesOK, BookkeepingType, CountersMatchFlags
<1>2. PICK F \in [Callbacks -> SUBSET Flags] :
        F = [qq.flags EXCEPT ![c] = @ \cup {"ACTIVE_LATER"}]
  BY <1>1 DEF Flags, QueueFlags
<1>3. PICK p \in Priorities : p = qq.pri[c]
  BY <1>1
<1>5. PICK A \in Seq(Callbacks) :
        /\ A = TAILQ_INSERT_TAIL(qq.active_later_queue, c) /\ Injective(A)
        /\ Elems(A) = Elems(qq.active_later_queue) \cup {c}
  <2>1. /\ qq.active_later_queue \in Seq(Callbacks) /\ Injective(qq.active_later_queue)
        /\ c \notin Elems(qq.active_later_queue)
    BY <1>1 DEF QueuesMatchFlags, BookkeepingType
  <2> QED
    BY <2>1, InsertTail, SMT
<1>6. PICK n \in Int : n = Incr(qq, c)
  BY <1>1, SMT DEF BookkeepingType, Incr
<1>7. PICK m \in Int : m = qq.event_count_active + 1
  BY <1>1, SMT DEF BookkeepingType
<1>8. PICK rr : rr = [qq EXCEPT !.flags = F, !.event_count = n,
                                !.event_count_active = m, !.active_later_queue = A]
  OBVIOUS
<1>9. /\ rr \in BookkeepingType /\ rr.flags = F /\ rr.pri = qq.pri
      /\ rr.active_later_queue = A /\ rr.activequeues = qq.activequeues
      /\ rr.event_count = n /\ rr.event_count_active = m /\ rr.fatal = qq.fatal
  BY <1>1, <1>8 DEF BookkeepingType
<1>10. rr = event_queue_insert_active_later(qq, c)
  <2>1. A = TAILQ_INSERT_TAIL(qq.active_later_queue, c)
    BY <1>3, <1>5
  <2>2. rr = [qq EXCEPT !.flags = [qq.flags EXCEPT ![c] = @ \cup {"ACTIVE_LATER"}],
                        !.event_count = Incr(qq, c),
                        !.event_count_active = qq.event_count_active + 1,
                        !.active_later_queue = TAILQ_INSERT_TAIL(qq.active_later_queue, c)]
    BY <1>2, <1>6, <1>7, <1>8, <2>1
  <2> QED
    BY <1>1, <2>2 DEF event_queue_insert_active_later, BookkeepingType
<1>11. \A x \in Callbacks :
         /\ "ACTIVE_LATER" \in F[x] <=> "ACTIVE_LATER" \in qq.flags[x] \/ x = c
         /\ "ACTIVE" \in F[x] <=> "ACTIVE" \in qq.flags[x]
  BY <1>1, <1>2
<1>12. QueuesMatchFlags(rr)
  <2>1. ASSUME NEW r \in Priorities
        PROVE  /\ Injective(rr.activequeues[r])
               /\ Elems(rr.activequeues[r]) =
                     {x \in Callbacks : "ACTIVE" \in F[x] /\ qq.pri[x] = r}
    BY <1>1, <1>9, <1>11, SMT DEF QueuesMatchFlags
  <2>2. \A x \in Callbacks : ~({"ACTIVE", "ACTIVE_LATER"} \subseteq F[x])
    BY <1>1, <1>11 DEF QueuesMatchFlags
  <2>3. Elems(A) = {x \in Callbacks : "ACTIVE_LATER" \in F[x]}
    BY <1>1, <1>5, <1>11 DEF QueuesMatchFlags
  <2> QED
    BY <1>5, <1>9, <2>1, <2>2, <2>3 DEF QueuesMatchFlags
<1>13. CountersMatchFlags(rr)
  <2>1. ActiveCallbacks(rr) = ActiveCallbacks(qq) \cup {c} /\ c \notin ActiveCallbacks(qq)
    BY <1>1, <1>2, <1>9, <1>11, SMT DEF ActiveCallbacks, QueuesMatchFlags
  <2>2. m = Cardinality(ActiveCallbacks(rr))
    <3>1. IsFiniteSet(ActiveCallbacks(qq))
      BY CountedFinite
    <3>2. Cardinality(ActiveCallbacks(qq) \cup {c}) = Cardinality(ActiveCallbacks(qq)) + 1
      BY <3>1, <2>1, FS_AddElement
    <3> QED
      BY <3>2, <2>1, <1>1, <1>7
  <2>3. n = Cardinality(CountedFlags(rr))
    <3>1. /\ "ACTIVE_LATER" \in QueueFlags /\ "ACTIVE_LATER" \notin qq.flags[c]
          /\ rr.flags = [qq.flags EXCEPT ![c] = @ \cup {"ACTIVE_LATER"}]
      BY <1>2, <1>9 DEF QueueFlags
    <3>2. Incr(qq, c) = Cardinality(CountedFlags(rr))
      BY <3>1, <1>1, CountSet
    <3> QED
      BY <3>2, <1>6
  <2> QED
    BY <1>9, <2>2, <2>3 DEF CountersMatchFlags
<1> QED
  BY <1>1, <1>2, <1>9, <1>10, <1>12, <1>13 DEF QueuesOK

(* event_queue_remove_active_later on a callback that is queued for later. *)
LEMMA RemoveActiveLater ==
    ASSUME NEW qq, QueuesOK(qq), NEW c \in Callbacks, "ACTIVE_LATER" \in qq.flags[c]
    PROVE  LET rr == event_queue_remove_active_later(qq, c)
           IN  /\ QueuesOK(rr) /\ rr.pri = qq.pri
               /\ rr.flags = [qq.flags EXCEPT ![c] = @ \ {"ACTIVE_LATER"}]
<1>1. /\ qq \in BookkeepingType /\ QueuesMatchFlags(qq) /\ qq.fatal = FALSE
      /\ qq.flags \in [Callbacks -> SUBSET Flags] /\ qq.pri[c] \in Priorities
      /\ qq.event_count_active = Cardinality(ActiveCallbacks(qq))
      /\ qq.event_count = Cardinality(CountedFlags(qq))
  BY DEF QueuesOK, BookkeepingType, CountersMatchFlags
<1>2. PICK F \in [Callbacks -> SUBSET Flags] :
        F = [qq.flags EXCEPT ![c] = @ \ {"ACTIVE_LATER"}]
  BY <1>1 DEF Flags, QueueFlags
<1>3. PICK p \in Priorities : p = qq.pri[c]
  BY <1>1
<1>5. PICK A \in Seq(Callbacks) :
        /\ A = TAILQ_REMOVE(qq.active_later_queue, c) /\ Injective(A)
        /\ Elems(A) = Elems(qq.active_later_queue) \ {c}
  <2>1. /\ qq.active_later_queue \in Seq(Callbacks) /\ Injective(qq.active_later_queue)
        /\ c \in Elems(qq.active_later_queue)
    BY <1>1 DEF QueuesMatchFlags, BookkeepingType
  <2> QED
    BY <2>1, Remove
<1>6. PICK n \in Int : n = Decr(qq, c)
  BY <1>1, SMT DEF BookkeepingType, Decr
<1>7. PICK m \in Int : m = qq.event_count_active - 1
  BY <1>1, SMT DEF BookkeepingType
<1>8. PICK rr : rr = [qq EXCEPT !.flags = F, !.event_count = n,
                                !.event_count_active = m, !.active_later_queue = A]
  OBVIOUS
<1>9. /\ rr \in BookkeepingType /\ rr.flags = F /\ rr.pri = qq.pri
      /\ rr.active_later_queue = A /\ rr.activequeues = qq.activequeues
      /\ rr.event_count = n /\ rr.event_count_active = m /\ rr.fatal = qq.fatal
  BY <1>1, <1>8 DEF BookkeepingType
<1>10. rr = event_queue_remove_active_later(qq, c)
  <2>1. A = TAILQ_REMOVE(qq.active_later_queue, c)
    BY <1>3, <1>5
  <2>2. rr = [qq EXCEPT !.flags = [qq.flags EXCEPT ![c] = @ \ {"ACTIVE_LATER"}],
                        !.event_count = Decr(qq, c),
                        !.event_count_active = qq.event_count_active - 1,
                        !.active_later_queue = TAILQ_REMOVE(qq.active_later_queue, c)]
    BY <1>2, <1>6, <1>7, <1>8, <2>1
  <2> QED
    BY <1>1, <2>2 DEF event_queue_remove_active_later, BookkeepingType
<1>11. \A x \in Callbacks :
         /\ "ACTIVE_LATER" \in F[x] <=> "ACTIVE_LATER" \in qq.flags[x] /\ x # c
         /\ "ACTIVE" \in F[x] <=> "ACTIVE" \in qq.flags[x]
  BY <1>1, <1>2
<1>12. QueuesMatchFlags(rr)
  <2>1. ASSUME NEW r \in Priorities
        PROVE  /\ Injective(rr.activequeues[r])
               /\ Elems(rr.activequeues[r]) =
                     {x \in Callbacks : "ACTIVE" \in F[x] /\ qq.pri[x] = r}
    BY <1>1, <1>9, <1>11, SMT DEF QueuesMatchFlags
  <2>2. \A x \in Callbacks : ~({"ACTIVE", "ACTIVE_LATER"} \subseteq F[x])
    BY <1>1, <1>11 DEF QueuesMatchFlags
  <2>3. Elems(A) = {x \in Callbacks : "ACTIVE_LATER" \in F[x]}
    BY <1>1, <1>5, <1>11 DEF QueuesMatchFlags
  <2> QED
    BY <1>5, <1>9, <2>1, <2>2, <2>3 DEF QueuesMatchFlags
<1>13. CountersMatchFlags(rr)
  <2>1. ActiveCallbacks(rr) = ActiveCallbacks(qq) \ {c} /\ c \in ActiveCallbacks(qq)
    BY <1>1, <1>2, <1>9, <1>11, SMT DEF ActiveCallbacks, QueuesMatchFlags
  <2>2. m = Cardinality(ActiveCallbacks(rr))
    <3>1. IsFiniteSet(ActiveCallbacks(qq))
      BY CountedFinite
    <3>2. Cardinality(ActiveCallbacks(qq) \ {c}) = Cardinality(ActiveCallbacks(qq)) - 1
      BY <3>1, <2>1, FS_RemoveElement
    <3> QED
      BY <3>2, <2>1, <1>1, <1>7
  <2>3. n = Cardinality(CountedFlags(rr))
    <3>1. /\ "ACTIVE_LATER" \in QueueFlags /\ "ACTIVE_LATER" \in qq.flags[c]
          /\ rr.flags = [qq.flags EXCEPT ![c] = @ \ {"ACTIVE_LATER"}]
      BY <1>2, <1>9 DEF QueueFlags
    <3>2. Decr(qq, c) = Cardinality(CountedFlags(rr))
      BY <3>1, <1>1, CountClear
    <3> QED
      BY <3>2, <1>6
  <2> QED
    BY <1>9, <2>2, <2>3 DEF CountersMatchFlags
<1> QED
  BY <1>1, <1>2, <1>9, <1>10, <1>12, <1>13 DEF QueuesOK

(* One turn of event_queue_make_later_events_active, while there is one.   *)
LEMMA MakeLaterActive ==
    ASSUME NEW qq, QueuesOK(qq), qq.active_later_queue # <<>>
    PROVE  LET rr == make_later_event_active(qq)
           IN  /\ Head(qq.active_later_queue) \in Callbacks
               /\ QueuesOK(rr) /\ rr.pri = qq.pri
               /\ rr.flags = [qq.flags EXCEPT ![Head(qq.active_later_queue)] =
                                  (@ \ {"ACTIVE_LATER"}) \cup {"ACTIVE"}]
<1>1. /\ qq \in BookkeepingType /\ QueuesMatchFlags(qq) /\ qq.fatal = FALSE
      /\ qq.flags \in [Callbacks -> SUBSET Flags]
      /\ qq.event_count_active = Cardinality(ActiveCallbacks(qq))
      /\ qq.event_count = Cardinality(CountedFlags(qq))
      /\ qq.active_later_queue \in Seq(Callbacks)
  BY DEF QueuesOK, BookkeepingType, CountersMatchFlags
<1>2. PICK c \in Callbacks : c = Head(qq.active_later_queue)
  BY <1>1, SMT
<1>3. PICK l \in Seq(Callbacks) :
        /\ l = Tail(qq.active_later_queue) /\ Injective(l)
        /\ Elems(l) = Elems(qq.active_later_queue) \ {c}
  <2> DEFINE s == qq.active_later_queue
             l == Tail(s)
  <2>1. /\ l \in Seq(Callbacks) /\ Len(l) = Len(s) - 1 /\ Len(s) \in Nat \ {0}
        /\ \A i \in 1..Len(l) : l[i] = s[i + 1]
    BY <1>1, SMT
  <2>2. /\ \A i, j \in 1..Len(s) : s[i] = s[j] => i = j
        /\ s[1] = c
    BY <1>1, <1>2, SMT DEF QueuesMatchFlags, Injective
  <2> HIDE DEF s, l
  <2>3. Injective(l)
    BY <2>1, <2>2, SMT DEF Injective
  <2>4. ASSUME NEW x
        PROVE  x \in Elems(l) <=> x \in Elems(s) \ {c}
    <3>1. ASSUME x \in Elems(l)
          PROVE  x \in Elems(s) \ {c}
      <4>1. PICK i \in 1..Len(l) : x = l[i]
        BY <3>1 DEF Elems
      <4>2. i + 1 \in 1..Len(s) /\ x = s[i + 1] /\ 1 \in 1..Len(s) /\ i + 1 # 1
        BY <4>1, <2>1, SMT
      <4> QED
        BY <4>2, <2>2 DEF Elems
    <3>2. ASSUME x \in Elems(s) \ {c}
          PROVE  x \in Elems(l)
      <4>1. PICK i \in 1..Len(s) : x = s[i]
        BY <3>2 DEF Elems
      <4>2. i # 1
        BY <4>1, <3>2, <2>2
      <4>3. i - 1 \in 1..Len(l) /\ l[i - 1] = x
        BY <4>1, <4>2, <2>1, SMT
      <4> QED
        BY <4>3 DEF Elems
    <3> QED
      BY <3>1, <3>2
  <2>5. Elems(l) = Elems(s) \ {c}
    BY <2>4
  <2> QED
    BY <2>1, <2>3, <2>5 DEF s, l
<1>4. "ACTIVE_LATER" \in qq.flags[c] /\ "ACTIVE" \notin qq.flags[c]
  <2>1. c \in Elems(qq.active_later_queue)
    <3>1. /\ 1 \in 1..Len(qq.active_later_queue)
          /\ c = qq.active_later_queue[1]
      BY <1>1, <1>2, SMT
    <3> QED
      BY <3>1 DEF Elems
  <2> QED
    BY <2>1, <1>1 DEF QueuesMatchFlags
<1>5. PICK F \in [Callbacks -> SUBSET Flags] :
        F = [qq.flags EXCEPT ![c] = (@ \ {"ACTIVE_LATER"}) \cup {"ACTIVE"}]
  BY <1>1 DEF Flags, QueueFlags
<1>6. PICK p \in Priorities : p = qq.pri[c]
  BY <1>1 DEF BookkeepingType
<1>7. PICK s \in Seq(Callbacks) :
        /\ s = TAILQ_INSERT_TAIL(qq.activequeues[p], c) /\ Injective(s)
        /\ Elems(s) = Elems(qq.activequeues[p]) \cup {c}
  <2>1. /\ qq.activequeues[p] \in Seq(Callbacks) /\ Injective(qq.activequeues[p])
        /\ c \notin Elems(qq.activequeues[p])
    BY <1>1, <1>4, <1>6 DEF QueuesMatchFlags, BookkeepingType
  <2> QED
    BY <2>1, InsertTail, SMT
<1>8. PICK A \in [Priorities -> Seq(Callbacks)] :
        A = [qq.activequeues EXCEPT ![p] = s]
  BY <1>1, <1>7 DEF BookkeepingType
<1>9. PICK rr : rr = [qq EXCEPT !.flags = F, !.active_later_queue = l,
                                !.activequeues = A]
  OBVIOUS
<1>10. /\ rr \in BookkeepingType /\ rr.flags = F /\ rr.pri = qq.pri
       /\ rr.activequeues = A /\ rr.active_later_queue = l
       /\ rr.event_count = qq.event_count
       /\ rr.event_count_active = qq.event_count_active /\ rr.fatal = qq.fatal
  BY <1>1, <1>9 DEF BookkeepingType
<1>11. rr = make_later_event_active(qq)
  <2>1. A = [qq.activequeues EXCEPT ![qq.pri[c]] = TAILQ_INSERT_TAIL(@, c)]
    BY <1>6, <1>7, <1>8
  <2>2. rr = [qq EXCEPT !.flags = [qq.flags EXCEPT ![c] = (@ \ {"ACTIVE_LATER"}) \cup {"ACTIVE"}],
                        !.active_later_queue = Tail(qq.active_later_queue),
                        !.activequeues =
                           [qq.activequeues EXCEPT ![qq.pri[c]] = TAILQ_INSERT_TAIL(@, c)]]
    BY <1>3, <1>5, <1>9, <2>1
  <2>3. make_later_event_active(qq) =
          [qq EXCEPT !.flags[c] = (@ \ {"ACTIVE_LATER"}) \cup {"ACTIVE"},
                     !.active_later_queue = Tail(@),
                     !.activequeues[qq.pri[c]] = TAILQ_INSERT_TAIL(@, c)]
    BY <1>2 DEF make_later_event_active
  <2> QED
    BY <1>1, <2>2, <2>3 DEF BookkeepingType
<1>12. \A x \in Callbacks :
         /\ "ACTIVE" \in F[x] <=> "ACTIVE" \in qq.flags[x] \/ x = c
         /\ "ACTIVE_LATER" \in F[x] <=> "ACTIVE_LATER" \in qq.flags[x] /\ x # c
         /\ "INSERTED" \in F[x] <=> "INSERTED" \in qq.flags[x]
         /\ "TIMEOUT" \in F[x] <=> "TIMEOUT" \in qq.flags[x]
  BY <1>1, <1>5
<1>13. QueuesMatchFlags(rr)
  <2>1. ASSUME NEW r \in Priorities
        PROVE  /\ Injective(A[r])
               /\ Elems(A[r]) = {x \in Callbacks : "ACTIVE" \in F[x] /\ qq.pri[x] = r}
    <3>1. /\ Injective(qq.activequeues[r])
          /\ Elems(qq.activequeues[r]) =
                {x \in Callbacks : "ACTIVE" \in qq.flags[x] /\ qq.pri[x] = r}
      BY <1>1 DEF QueuesMatchFlags
    <3>2. CASE r = p
      <4>1. A[r] = s
        BY <3>2, <1>1, <1>8 DEF BookkeepingType
      <4> QED
        BY <4>1, <3>1, <3>2, <1>6, <1>7, <1>12
    <3>3. CASE r # p
      <4>1. A[r] = qq.activequeues[r]
        BY <3>3, <1>1, <1>8 DEF BookkeepingType
      <4> QED
        BY <4>1, <3>1, <3>3, <1>6, <1>12
    <3> QED
      BY <3>2, <3>3
  <2>2. \A x \in Callbacks : ~({"ACTIVE", "ACTIVE_LATER"} \subseteq F[x])
    BY <1>1, <1>12 DEF QueuesMatchFlags
  <2>3. Elems(l) = {x \in Callbacks : "ACTIVE_LATER" \in F[x]}
    BY <1>1, <1>3, <1>12 DEF QueuesMatchFlags
  <2> QED
    BY <1>3, <1>10, <2>1, <2>2, <2>3 DEF QueuesMatchFlags
<1>14. CountersMatchFlags(rr)
  <2>1. ActiveCallbacks(rr) = ActiveCallbacks(qq)
    BY <1>4, <1>10, <1>12, SMT DEF ActiveCallbacks
  <2>2. PICK h : h.flags = [qq.flags EXCEPT ![c] = @ \ {"ACTIVE_LATER"}]
                 /\ h.event_count = Cardinality(CountedFlags(h))
    <3> DEFINE g == [qq.flags EXCEPT ![c] = @ \ {"ACTIVE_LATER"}]
               h0 == [flags |-> g]
               h == [flags |-> g, event_count |-> Cardinality(CountedFlags(h0))]
    <3>1. h.flags = g /\ h0.flags = g /\ h.event_count = Cardinality(CountedFlags(h0))
      OBVIOUS
    <3>2. CountedFlags(h) = CountedFlags(h0)
      BY <3>1 DEF CountedFlags
    <3> QED
      BY <3>1, <3>2
  <2>3. Decr(qq, c) = Cardinality(CountedFlags(h))
    <3>1. "ACTIVE_LATER" \in QueueFlags
      BY DEF QueueFlags
    <3>2. h.flags = [qq.flags EXCEPT ![c] = @ \ {"ACTIVE_LATER"}]
      BY <2>2
    <3>3. /\ qq.flags \in [Callbacks -> SUBSET Flags]
          /\ qq.event_count = Cardinality(CountedFlags(qq))
          /\ "ACTIVE_LATER" \in qq.flags[c]
      BY <1>1, <1>4
    <3> QED
      BY <3>1, <3>2, <3>3, CountClear
  <2>4. Incr(h, c) = Cardinality(CountedFlags(rr))
    <3>1. /\ "ACTIVE" \in QueueFlags /\ "ACTIVE" \notin h.flags[c]
          /\ h.flags \in [Callbacks -> SUBSET Flags]
          /\ rr.flags = [h.flags EXCEPT ![c] = @ \cup {"ACTIVE"}]
      <4>1. "ACTIVE" \in QueueFlags
        BY DEF QueueFlags
      <4>2. PICK g \in [Callbacks -> SUBSET Flags] :
              g = [qq.flags EXCEPT ![c] = @ \ {"ACTIVE_LATER"}]
        BY <1>1
      <4>3. "ACTIVE" \notin g[c]
        BY <4>2, <1>1, <1>4
      <4>4. F = [g EXCEPT ![c] = @ \cup {"ACTIVE"}]
        BY <4>2, <1>1, <1>5
      <4> QED
        BY <4>1, <4>2, <4>3, <4>4, <2>2, <1>10
    <3> QED
      BY <3>1, <2>2, CountSet, SMT
  <2>5. qq.event_count = Cardinality(CountedFlags(rr))
    BY <1>1, <2>2, <2>3, <2>4, SMT DEF Incr, Decr, BookkeepingType
  <2> QED
    BY <1>1, <1>10, <2>1, <2>5 DEF CountersMatchFlags
<1> QED
  BY <1>1, <1>2, <1>5, <1>10, <1>11, <1>13, <1>14 DEF QueuesOK

-----------------------------------------------------------------------------
(* Listeners *)

InCallback == {"in_cb", "cb_returned", "in_errorcb", "errorcb_returned"}

Levs == [cb : BOOLEAN, errorcb : BOOLEAN, enabled : BOOLEAN, refcnt : Nat,
         freed : {"no", "released", "gone"}, open : BOOLEAN, added : BOOLEAN]

LevTypes ==
    /\ lev \in Levs
    /\ lock \in {"none", "other"}
    /\ read_cb \in {"idle", "wants_lock"} \union InCallback
    /\ other \in LevCalls \union {"no"}
    /\ backlog \in Nat /\ calls \in Nat
    /\ misuse = "no"
    /\ kind \in Listeners

(* The listener l, when the loop is at place at of listener_read_cb.       *)
LevGood(l, at) ==
    /\ l.freed = "no" => l.open /\ l.refcnt = IF at \in InCallback THEN 2 ELSE 1
    /\ l.freed = "released" => l.open /\ l.refcnt = 1 /\ at \in InCallback
    /\ l.freed = "gone" => at = "idle" /\ ~l.added /\ (l.open <=> ~kind.close)
    /\ at = "wants_lock" => l.freed = "no"
    /\ l.freed = "no" /\ l.enabled /\ l.cb => l.added

(* ListenerSound is not inductive: that listener_read_cb does not find the *)
(* listener gone rests on event_del, which makes the last release of the   *)
(* other thread wait until the loop is not in listener_read_cb, and on the *)
(* lock, which keeps everyone else from it while the other thread has it.  *)
LevInv ==
    /\ LevTypes
    /\ LevGood(lev, read_cb)
    /\ lock = "other" <=> other # "no"
    /\ other # "no" => lev.freed = "no"

(* A listener made by evconnlistener_new satisfies the invariant.          *)
LEMMA InitialListener == LevInit => LevInv
<1> SUFFICES ASSUME LevInit PROVE LevInv
  OBVIOUS
<1>1. kind.close \in BOOLEAN /\ kind.disabled \in BOOLEAN /\ kind.nocb \in BOOLEAN
  BY ListenersAssumption DEF LevInit
<1>2. lev \in Levs
  BY <1>1 DEF LevInit, Levs
<1>3. LevTypes
  BY <1>2 DEF LevInit, LevTypes
<1>4. LevGood(lev, read_cb)
  BY DEF LevInit, LevGood, InCallback
<1> QED
  BY <1>3, <1>4 DEF LevInit, LevInv

(* One reference less: the last one takes the event, and the socket of a   *)
(* listener that owns it, along.                                           *)
LEMMA DecrefIs ==
    ASSUME NEW l \in Levs, l.refcnt > 0, kind.close \in BOOLEAN
    PROVE  LET t == listener_decref_and_unlock(l)
           IN  /\ t \in Levs
               /\ t.cb <=> l.cb
               /\ l.refcnt = 1 => t.freed = "gone" /\ ~t.added /\ (t.open <=> l.open /\ ~kind.close)
               /\ l.refcnt # 1 => /\ t.freed = l.freed /\ (t.added <=> l.added)
                                  /\ (t.open <=> l.open) /\ (t.enabled <=> l.enabled)
                                  /\ t.refcnt = l.refcnt - 1
<1>1. CASE l.refcnt = 1
  <2> DEFINE d == event_listener_destroy(l)
  <2>1. /\ d \in Levs /\ (d.cb <=> l.cb) /\ ~d.added /\ (d.open <=> l.open /\ ~kind.close)
    BY DEF event_listener_destroy, Levs
  <2>2. listener_decref_and_unlock(l) = [d EXCEPT !.refcnt = 0, !.freed = "gone"]
    BY <1>1 DEF listener_decref_and_unlock
  <2> DEFINE t == listener_decref_and_unlock(l)
  <2> HIDE DEF d, t
  <2>3. t = [d EXCEPT !.refcnt = 0, !.freed = "gone"]
    BY <2>2 DEF t
  <2>4. t \in Levs
    BY <2>1, <2>3 DEF Levs
  <2>5. (t.cb <=> d.cb) /\ t.freed = "gone" /\ (t.added <=> d.added) /\ (t.open <=> d.open)
    BY <2>1, <2>3 DEF Levs
  <2> QED
    BY <1>1, <2>1, <2>4, <2>5 DEF t
<1>2. CASE l.refcnt # 1
  BY <1>2, SMT DEF listener_decref_and_unlock, Levs
<1> QED
  BY <1>1, <1>2

(* The calls of the program keep a listener that the program owns good.    *)
LEMMA CallsAreGood ==
    ASSUME LevTypes, LevGood(lev, read_cb), lev.freed = "no", NEW call \in LevCalls,
           Deletes(call) => read_cb # "wants_lock"
    PROVE  /\ Does(call, lev) \in Levs
           /\ LevGood(Does(call, lev), read_cb)
           /\ call # "free" => Does(call, lev).freed = "no"
<1> USE DEF LevTypes, LevGood, Levs, InCallback
<1>1. CASE call = "free"
  <2>0. kind.close \in BOOLEAN
    BY ListenersAssumption
  <2> DEFINE l == [lev EXCEPT !.cb = FALSE, !.errorcb = FALSE, !.freed = "released"]
             t == listener_decref_and_unlock(l)
  <2>1. /\ l \in Levs /\ l.refcnt = lev.refcnt /\ l.refcnt > 0 /\ l.open /\ ~l.cb
        /\ l.freed = "released"
    <3>1. l \in Levs /\ l.refcnt = lev.refcnt /\ l.freed = "released" /\ ~l.cb
      OBVIOUS
    <3>2. l.open <=> lev.open
      OBVIOUS
    <3> QED
      BY <3>1, <3>2, SMT
  <2>2. Does(call, lev) = t
    BY <1>1 DEF Does, evconnlistener_free
  <2> HIDE DEF l
  <2>3. /\ t \in Levs
        /\ l.refcnt = 1 => t.freed = "gone" /\ ~t.added /\ (t.open <=> ~kind.close)
        /\ l.refcnt # 1 => t.freed = "released" /\ t.open /\ t.refcnt = l.refcnt - 1
    BY <2>0, <2>1, DecrefIs
  <2>4. /\ lev.refcnt = 1 => read_cb = "idle"
        /\ lev.refcnt # 1 => lev.refcnt = 2 /\ read_cb \in InCallback
    <3>1. CASE read_cb \in InCallback
      BY <3>1, SMT
    <3>2. CASE read_cb \notin InCallback
      BY <1>1, <3>2 DEF Deletes
    <3> QED
      BY <3>1, <3>2
  <2> HIDE DEF t
  <2>5. LevGood(t, read_cb)
    <3>1. CASE lev.refcnt = 1
      BY <3>1, <2>1, <2>3, <2>4
    <3>2. CASE lev.refcnt # 1
      BY <3>2, <2>1, <2>3, <2>4, SMT
    <3> QED
      BY <3>1, <3>2
  <2> QED
    BY <1>1, <2>2, <2>3, <2>5
<1>2. CASE call = "enable"
  BY <1>2 DEF Does, evconnlistener_enable
<1>3. CASE call = "disable"
  BY <1>3 DEF Does, evconnlistener_disable
<1>4. CASE call = "set_cb"
  BY <1>4 DEF Does, evconnlistener_set_cb, evconnlistener_enable
<1>5. CASE call = "set_cb_NULL"
  BY <1>5 DEF Does, evconnlistener_set_cb, evconnlistener_enable
<1>6. CASE call = "set_error_cb"
  BY <1>6 DEF Does, evconnlistener_set_error_cb
<1> QED
  BY <1>1, <1>2, <1>3, <1>4, <1>5, <1>6 DEF LevCalls

(* The steps of listener_read_cb keep the listener good, and find it alive. *)
LEMMA AcceptsIsGood ==
    ASSUME NEW l \in Levs, NEW left \in Nat, NEW err \in BOOLEAN, l.freed = "no", l.refcnt = 1,
           l.open, l.enabled /\ l.cb => l.added
    PROVE  LET r == accepts(l, left, err)
           IN  /\ r.l \in Levs /\ LevGood(r.l, r.at) /\ r.l.freed = "no"
               /\ r.at \in {"idle", "in_cb", "in_errorcb"} /\ r.left \in Nat
  BY SMT DEF accepts, To, Levs, LevGood, InCallback

(* The end of a turn of listener_read_cb, which drops its reference.       *)
LEMMA CbReturnedIsGood ==
    ASSUME LevTypes, LevGood(lev, read_cb), read_cb = "cb_returned", NEW err \in BOOLEAN
    PROVE  LET r == cb_returned(lev, backlog, err)
           IN  /\ r.l \in Levs /\ LevGood(r.l, r.at)
               /\ r.at \in {"idle", "in_cb", "in_errorcb"} /\ r.left \in Nat
<1>0. kind.close \in BOOLEAN
  BY ListenersAssumption DEF LevTypes
<1>1. /\ lev \in Levs /\ backlog \in Nat /\ lev.open
      /\ \/ lev.freed = "released" /\ lev.refcnt = 1
         \/ lev.freed = "no" /\ lev.refcnt = 2 /\ (lev.enabled /\ lev.cb => lev.added)
  BY DEF LevTypes, LevGood, InCallback, Levs
<1>2. CASE lev.refcnt = 1
  <2>1. cb_returned(lev, backlog, err) = To(listener_decref_and_unlock(lev), "idle", backlog)
    BY <1>2 DEF cb_returned
  <2>2. LET t == listener_decref_and_unlock(lev)
        IN  t \in Levs /\ t.freed = "gone" /\ ~t.added /\ (t.open <=> ~kind.close)
    BY <1>0, <1>1, <1>2, DecrefIs, SMT
  <2> QED
    BY <1>1, <2>1, <2>2, SMT DEF To, LevGood
<1>3. CASE lev.refcnt = 2
  <2> DEFINE kept == [lev EXCEPT !.refcnt = @ - 1]
  <2>1. /\ kept \in Levs /\ kept.freed = "no" /\ kept.refcnt = 1 /\ kept.open
        /\ kept.enabled /\ kept.cb => kept.added
    BY <1>1, <1>3, SMT DEF Levs
  <2>2. cb_returned(lev, backlog, err) =
          IF ~lev.enabled THEN To(kept, "idle", backlog) ELSE accepts(kept, backlog, err)
    BY <1>3, SMT DEF cb_returned
  <2> HIDE DEF kept
  <2>3. CASE lev.enabled
    BY <1>1, <2>1, <2>2, <2>3, AcceptsIsGood, SMTT(20)
  <2>4. CASE ~lev.enabled
    BY <1>1, <2>1, <2>2, <2>4, SMT DEF To, LevGood, InCallback
  <2> QED
    BY <2>3, <2>4
<1> QED
  BY <1>1, <1>2, <1>3

(* Every step of listener_read_cb keeps the invariant.                     *)
LEMMA ReadCbInv ==
    ASSUME LevInv, listener_read_cb
    PROVE  LevInv'
<1>0. kind.close \in BOOLEAN
  BY ListenersAssumption DEF LevInv, LevTypes
<1>1. /\ lev.freed # "gone" /\ misuse' = "no" /\ lock' = "none" /\ other' = "no"
      /\ calls' = calls /\ kind' = kind
  BY DEF listener_read_cb, LevInv, LevTypes, LevGood
<1>2. SUFFICES /\ lev' \in Levs /\ LevGood(lev', read_cb') /\ backlog' \in Nat
               /\ read_cb' \in {"idle", "in_cb", "in_errorcb"}
  BY <1>1 DEF LevInv, LevTypes, LevCalls, InCallback, LevGood
<1>3. PICK err \in BOOLEAN :
        \/ /\ read_cb = "wants_lock"
           /\ lev' = accepts(lev, backlog, err).l /\ read_cb' = accepts(lev, backlog, err).at
           /\ backlog' = accepts(lev, backlog, err).left
        \/ /\ read_cb = "cb_returned"
           /\ lev' = cb_returned(lev, backlog, err).l /\ read_cb' = cb_returned(lev, backlog, err).at
           /\ backlog' = cb_returned(lev, backlog, err).left
        \/ /\ read_cb = "errorcb_returned"
           /\ lev' = listener_decref_and_unlock(lev) /\ read_cb' = "idle" /\ backlog' = backlog
  BY DEF listener_read_cb, To
<1>4. CASE read_cb = "wants_lock"
  <2>1. /\ lev \in Levs /\ backlog \in Nat /\ lev.freed = "no" /\ lev.refcnt = 1 /\ lev.open
        /\ lev.enabled /\ lev.cb => lev.added
    BY <1>4 DEF LevInv, LevTypes, LevGood, InCallback
  <2> DEFINE r == accepts(lev, backlog, err)
  <2>2. /\ r.l \in Levs /\ LevGood(r.l, r.at) /\ r.at \in {"idle", "in_cb", "in_errorcb"}
        /\ r.left \in Nat
    BY <2>1, AcceptsIsGood
  <2>3. lev' = r.l /\ read_cb' = r.at /\ backlog' = r.left
    BY <1>3, <1>4
  <2> HIDE DEF r
  <2> QED
    BY <2>2, <2>3
<1>5. CASE read_cb = "cb_returned"
  BY <1>3, <1>5, CbReturnedIsGood DEF LevInv
<1>6. CASE read_cb = "errorcb_returned"
  <2> DEFINE t == listener_decref_and_unlock(lev)
  <2>1. /\ lev \in Levs /\ backlog \in Nat /\ lev.open
        /\ \/ lev.freed = "released" /\ lev.refcnt = 1
           \/ lev.freed = "no" /\ lev.refcnt = 2 /\ (lev.enabled /\ lev.cb => lev.added)
    BY <1>6 DEF LevInv, LevTypes, LevGood, InCallback, Levs
  <2>2. /\ t \in Levs /\ (t.cb <=> lev.cb)
        /\ lev.refcnt = 1 => t.freed = "gone" /\ ~t.added /\ (t.open <=> ~kind.close)
        /\ lev.refcnt = 2 => /\ t.freed = "no" /\ (t.added <=> lev.added) /\ t.open
                             /\ (t.enabled <=> lev.enabled) /\ t.refcnt = 1
    BY <1>0, <2>1, DecrefIs, SMT
  <2> HIDE DEF t
  <2>3. LevGood(t, "idle")
    <3>1. CASE lev.refcnt = 1
      BY <2>2, <3>1 DEF LevGood
    <3>2. CASE lev.refcnt = 2
      BY <2>1, <2>2, <3>2 DEF LevGood, InCallback
    <3> QED
      BY <2>1, <3>1, <3>2
  <2>4. lev' = t /\ read_cb' = "idle" /\ backlog' = backlog
    BY <1>3, <1>6 DEF t
  <2> QED
    BY <2>1, <2>2, <2>3, <2>4
<1> QED
  BY <1>3, <1>4, <1>5, <1>6

-----------------------------------------------------------------------------
(* The other steps.                                                        *)
LEMMA QuietStepsInv ==
    ASSUME LevInv, Connect \/ Readable \/ CallbackReturns \/ OtherLocks
    PROVE  LevInv'
<1>1. kind \in Listeners /\ kind.other \subseteq LevCalls
  BY ListenersAssumption DEF LevInv, LevTypes
<1>2. CASE Connect
  BY <1>2, SMT DEF Connect, LevInv, LevTypes, LevGood
<1>3. CASE Readable
  BY <1>3 DEF Readable, LevInv, LevTypes, LevGood, InCallback, Levs
<1>4. CASE CallbackReturns
  BY <1>4 DEF CallbackReturns, LevInv, LevTypes, LevGood, InCallback
<1>5. CASE OtherLocks
  BY <1>1, <1>5, SMT DEF OtherLocks, LevInv, LevTypes, LevGood, LevCalls
<1> QED
  BY <1>2, <1>3, <1>4, <1>5

(* Every call of the program, from either thread, keeps the invariant.     *)
LEMMA ListenerCalls ==
    ASSUME LevInv, CallFromLoop \/ OtherCalls
    PROVE  LevInv'
<1>1. CASE CallFromLoop
  <2>1. PICK call \in LevCalls : (call = "free" => other = "no") /\ lev' = Does(call, lev)
    BY <1>1 DEF CallFromLoop
  <2>2. lev' \in Levs /\ LevGood(lev', read_cb) /\ (call # "free" => lev'.freed = "no")
    BY <1>1, <2>1, CallsAreGood DEF CallFromLoop, LevInv
  <2> QED
    BY <1>1, <2>1, <2>2, SMT DEF CallFromLoop, LevInv, LevTypes, LevGood
<1>2. CASE OtherCalls
  <2>1. other \in LevCalls /\ lev.freed = "no"
    BY <1>2 DEF OtherCalls, LevInv, LevTypes
  <2>2. lev' \in Levs /\ LevGood(lev', read_cb)
    BY <1>2, <2>1, CallsAreGood DEF OtherCalls, LevInv
  <2> QED
    BY <1>2, <2>2 DEF OtherCalls, LevInv, LevTypes, LevGood, LevCalls
<1> QED
  BY <1>1, <1>2

(* The invariant is inductive.                                             *)
LEMMA LevInvHolds == LevSpec => []LevInv
<1>1. ASSUME LevInv, [LevNext]_levvars
      PROVE  LevInv'
  <2>1. CASE UNCHANGED levvars
    BY <1>1, <2>1 DEF levvars, LevInv, LevTypes, LevGood
  <2> QED
    BY <1>1, <2>1, ReadCbInv, QuietStepsInv, ListenerCalls DEF LevNext
<1> QED
  BY <1>1, InitialListener, PTL DEF LevSpec

(* The reference count keeps a listener alive exactly as long as someone   *)
(* needs it: ListenerSound holds for any number of pending connections and *)
(* of calls from both threads.                                             *)
THEOREM ListenerIsSound == LevSpec => []ListenerSound
<1>1. LevInv => ListenerSound
  <2> SUFFICES ASSUME LevInv PROVE ListenerSound
    OBVIOUS
  <2>1. kind.close \in BOOLEAN /\ lev.open \in BOOLEAN
    BY ListenersAssumption DEF LevInv, LevTypes, Levs
  <2>2. lev.freed = "gone" => lev.open = ~kind.close
    BY <2>1 DEF LevInv, LevGood
  <2>3. lev.freed # "gone" =>
          /\ lev.refcnt > 0
          /\ lev.refcnt = (IF lev.freed = "no" THEN 1 ELSE 0)
                        + (IF read_cb \in InCallback THEN 1 ELSE 0)
    BY SMT DEF LevInv, LevTypes, LevGood, Levs
  <2>4. /\ misuse = "no"
        /\ lev.freed = "gone" => ~lev.added
        /\ lev.freed = "no" /\ lev.enabled /\ lev.cb => lev.added
    BY DEF LevInv, LevTypes, LevGood
  <2> QED
    BY <2>2, <2>3, <2>4 DEF ListenerSound, InCallback
<1> QED
  BY <1>1, LevInvHolds, PTL

(* The threads wait for each other only where another thread disables or   *)
(* frees the listener: with the other calls, the lock is never held by one *)
(* that waits for listener_read_cb.                                        *)
THEOREM OtherCallsAreSafe ==
    (\A k \in Listeners : k.other \cap {"disable", "free"} = {}) =>
        (LevSpec => []NeverEachOther)
<1> SUFFICES ASSUME \A k \in Listeners : k.other \cap {"disable", "free"} = {}
             PROVE  LevSpec => []NeverEachOther
  OBVIOUS
<1> DEFINE Harmless == kind \in Listeners /\ other \notin {"disable", "free"}
<1>1. LevInit => Harmless
  BY DEF LevInit
<1>2. Harmless /\ [LevNext]_levvars => Harmless'
  BY DEF LevNext, levvars, Connect, Readable, listener_read_cb, CallbackReturns, CallFromLoop,
         OtherLocks, OtherCalls
<1>3. Harmless => NeverEachOther
  BY DEF NeverEachOther, Deletes
<1> HIDE DEF Harmless
<1> QED
  BY <1>1, <1>2, <1>3, PTL DEF LevSpec

-----------------------------------------------------------------------------
(* Signals *)

Handlers == {"null", "own", "evsig"}

SigBases == [alive : BOOLEAN, events : [Signals -> Nat], ev_n_signals_added : Int,
             ev_signal_added : BOOLEAN, sh_old : [Signals -> Handlers],
             pipe : Seq(Signals), ncaught : SUBSET Signals]

(* The states of signal.c in a program with the bases B. *)
Processes(B) == [handler : [Signals -> Handlers], base : B \union {"none"},
                 fd : B \union {"none"}, sig : [B -> SigBases]]

(* HandlersRestored of p is not inductive: evsig_set_handler_ saves what   *)
(* it finds, so that it must not find evsig_handler, put there by another  *)
(* base; and a signal that sigaction refuses must have no event.           *)
HandlersGood(p, B) ==
    /\ p \in Processes(B) /\ p.fd = p.base
    /\ \A b \in B : Awaited(p, b) \intersect Uncatchable = {}
    /\ \A b, c \in B : Awaited(p, b) # {} /\ Awaited(p, c) # {} => b = c
    /\ \A b \in B, s \in Signals :
          /\ s \in Awaited(p, b) => p.handler[s] = "evsig" /\ p.sig[b].sh_old[s] = "own"
          /\ s \notin Awaited(p, b) => p.sig[b].sh_old[s] = "null"
    /\ \A s \in Signals :
          (\A b \in B : s \notin Awaited(p, b)) => p.handler[s] = "own"

(* evsig_base names the base that waits for signals, and its pipe is read. *)
BaseLed(p, B) ==
    \A b \in B : Awaited(p, b) # {} => p.base = b /\ p.sig[b].ev_signal_added = TRUE

SignalsCounted(p, B) ==
    \A b \in B : p.sig[b].ev_n_signals_added = Cardinality(Awaited(p, b))

-----------------------------------------------------------------------------
(* What an operation on base b leaves alone: the other bases, and of b     *)
(* what was read from its pipe.                                            *)
Only(p, q, b, B) ==
    /\ q \in Processes(B)
    /\ \A c \in B \ {b} : q.sig[c] = p.sig[c]
    /\ q.sig[b].ncaught = p.sig[b].ncaught /\ q.sig[b].alive = p.sig[b].alive

(* evsig_restore_handler_ puts back what was saved, and forgets it. *)
LEMMA RestoreIs ==
    ASSUME NEW B, NEW p \in Processes(B), NEW b \in B, NEW S \in SUBSET Signals
    PROVE  LET q == evsig_restore_handler_(p, b, S)
           IN  /\ Only(p, q, b, B) /\ q.base = p.base /\ q.fd = p.fd
               /\ q.handler = [x \in Signals |-> IF x \in S THEN p.sig[b].sh_old[x]
                                                            ELSE p.handler[x]]
               /\ q.sig[b] = [p.sig[b] EXCEPT !.sh_old =
                                 [x \in Signals |-> IF x \in S THEN "null" ELSE @[x]]]
<1> DEFINE h == [x \in Signals |-> IF x \in S THEN p.sig[b].sh_old[x] ELSE p.handler[x]]
           o == [x \in Signals |-> IF x \in S THEN "null" ELSE p.sig[b].sh_old[x]]
           r == [p.sig[b] EXCEPT !.sh_old = o]
           q == evsig_restore_handler_(p, b, S)
<1>1. p.sig \in [B -> SigBases] /\ p.sig[b] \in SigBases /\ p.handler \in [Signals -> Handlers]
  BY DEF Processes
<1>2. p.sig[b].sh_old \in [Signals -> Handlers]
  BY <1>1 DEF SigBases
<1>3. h \in [Signals -> Handlers] /\ o \in [Signals -> Handlers]
  BY <1>1, <1>2 DEF Handlers
<1>4. q = [p EXCEPT !.handler = h, !.sig = [p.sig EXCEPT ![b] = r]]
  BY <1>1 DEF evsig_restore_handler_, Processes, SigBases
<1> HIDE DEF h, o, q
<1>5. r \in SigBases /\ r.ncaught = p.sig[b].ncaught /\ r.alive = p.sig[b].alive
  BY <1>1, <1>3 DEF SigBases
<1> HIDE DEF r
<1>6. /\ q \in Processes(B) /\ q.handler = h /\ q.base = p.base /\ q.fd = p.fd
      /\ q.sig = [p.sig EXCEPT ![b] = r]
  BY <1>1, <1>3, <1>4, <1>5 DEF Processes
<1>7. q.sig[b] = r /\ \A c \in B \ {b} : q.sig[c] = p.sig[c]
  BY <1>1, <1>6
<1> QED
  BY <1>5, <1>6, <1>7 DEF Only, q, h, o, r

(* The number of signals of a set is a natural number. *)
LEMMA SignalsAreFinite ==
    ASSUME NEW S \in SUBSET Signals
    PROVE  IsFiniteSet(S) /\ Cardinality(S) \in Nat
BY SignalsAssumption, FS_Subset, FS_CardinalityType

(* A base takes the place of another of its kind in p. *)
LEMMA PutBase ==
    ASSUME NEW B, NEW p \in Processes(B), NEW b \in B, NEW r \in SigBases
    PROVE  LET q == [p EXCEPT !.sig = [p.sig EXCEPT ![b] = r]]
           IN  /\ q \in Processes(B)
               /\ q.handler = p.handler /\ q.base = p.base /\ q.fd = p.fd /\ q.sig[b] = r
               /\ \A c \in B \ {b} : q.sig[c] = p.sig[c]
<1> DEFINE f == [p.sig EXCEPT ![b] = r]
<1>1. f \in [B -> SigBases] /\ f[b] = r /\ \A c \in B \ {b} : f[c] = p.sig[c]
  BY DEF Processes
<1> HIDE DEF f
<1>2. LET q == [p EXCEPT !.sig = f]
      IN  q \in Processes(B) /\ q.handler = p.handler /\ q.base = p.base /\ q.fd = p.fd /\ q.sig = f
  BY <1>1 DEF Processes
<1> QED
  BY <1>1, <1>2 DEF f

SigAdded(p, b, S) == evsig_add(p, b, S, FALSE).p

(* From p to q, base b becomes the one whose pipe is written to, and the   *)
(* handlers of the signals A are saved and replaced.                       *)
AddDone(p, q, b, A, B) ==
    /\ Only(p, q, b, B) /\ q.base = b /\ q.fd = b
    /\ q.handler = [x \in Signals |-> IF x \in A THEN "evsig" ELSE p.handler[x]]
    /\ q.sig[b].sh_old = [x \in Signals |-> IF x \in A THEN p.handler[x] ELSE p.sig[b].sh_old[x]]
    /\ q.sig[b].events = p.sig[b].events /\ q.sig[b].pipe = p.sig[b].pipe
    /\ q.sig[b].ev_n_signals_added = p.sig[b].ev_n_signals_added + Cardinality(A)
    /\ q.sig[b].ev_signal_added \in BOOLEAN
    /\ q.sig[b].ev_signal_added <=> (p.sig[b].ev_signal_added \/ A # {})

(* evsig_add does so for every signal that can be caught. *)
LEMMA AddIs ==
    ASSUME NEW B, NEW p \in Processes(B), NEW b \in B, NEW S \in SUBSET Signals, S # {}
    PROVE  AddDone(p, SigAdded(p, b, S), b, S \ Uncatchable, B)
<1> DEFINE A == S \ Uncatchable
           h == [x \in Signals |-> IF x \in A THEN "evsig" ELSE p.handler[x]]
           o == [x \in Signals |-> IF x \in A THEN p.handler[x] ELSE p.sig[b].sh_old[x]]
           n == p.sig[b].ev_n_signals_added + Cardinality(A)
           w == p.sig[b].ev_signal_added \/ A # {}
           t0 == [p EXCEPT !.base = b, !.fd = b]
           t1 == [t0 EXCEPT !.sig = [p.sig EXCEPT ![b] = [p.sig[b] EXCEPT !.sh_old = o]], !.handler = h]
           r == [p.sig[b] EXCEPT !.sh_old = o, !.ev_n_signals_added = n, !.ev_signal_added = w]
           q == SigAdded(p, b, S)
<1>1. p.sig \in [B -> SigBases] /\ p.sig[b] \in SigBases /\ p.handler \in [Signals -> Handlers]
  BY DEF Processes
<1>2. p.sig[b].sh_old \in [Signals -> Handlers] /\ p.sig[b].ev_n_signals_added \in Int
  BY <1>1 DEF SigBases
<1>3. h \in [Signals -> Handlers] /\ o \in [Signals -> Handlers]
  BY <1>1, <1>2 DEF Handlers
<1>4. n \in Int /\ w \in BOOLEAN
  BY <1>2, SignalsAreFinite, SMT
<1>5. evsig_set_base_(p, b) = t0 /\ t0.sig = p.sig /\ t0.handler = p.handler /\ t0 \in Processes(B)
  BY DEF evsig_set_base_, Processes
<1>6. evsig_set_handler_(t0, b, A) = t1
  <2> HIDE DEF t0
  <2> QED
    BY <1>1, <1>5, SMT DEF evsig_set_handler_, Processes, SigBases
<1>7. q = [t1 EXCEPT !.sig[b].ev_n_signals_added = @ + Cardinality(A),
                     !.sig[b].ev_signal_added = @ \/ A # {}]
  <2> HIDE DEF t0, t1
  <2> QED
    BY <1>5, <1>6 DEF evsig_add, SigAdded
<1> DEFINE r1 == [p.sig[b] EXCEPT !.sh_old = o]
<1>8. /\ r1 \in SigBases /\ r1.ev_n_signals_added = p.sig[b].ev_n_signals_added
      /\ r1.ev_signal_added = p.sig[b].ev_signal_added
  <2> HIDE DEF o
  <2> QED
    BY <1>1, <1>3 DEF SigBases
<1>9. t1 \in Processes(B) /\ t1.sig = [p.sig EXCEPT ![b] = r1] /\ t1.handler = h /\ t1.base = b /\ t1.fd = b
  <2> HIDE DEF h, r1
  <2>1. t1 = [t0 EXCEPT !.sig = [p.sig EXCEPT ![b] = r1], !.handler = h] /\ t0.base = b /\ t0.fd = b
    BY DEF r1, Processes
  <2> HIDE DEF t0, t1
  <2> QED
    BY <1>1, <1>3, <1>5, <1>8, <2>1 DEF Processes
<1>10. t1.sig[b] = r1 /\ \A c \in B \ {b} : t1.sig[c] = p.sig[c]
  <2> HIDE DEF r1, t1
  <2> QED
    BY <1>1, <1>9
<1> DEFINE r2 == [r1 EXCEPT !.ev_n_signals_added = n, !.ev_signal_added = w]
<1>11. q = [t1 EXCEPT !.sig = [t1.sig EXCEPT ![b] = r2]]
  <2> DEFINE r3 == [r1 EXCEPT !.ev_n_signals_added = n]
             t2 == [t1 EXCEPT !.sig = [t1.sig EXCEPT ![b] = r3]]
  <2>1. t1.sig[b].ev_n_signals_added + Cardinality(A) = n
    BY <1>8, <1>10
  <2>2. [t1 EXCEPT !.sig[b].ev_n_signals_added = @ + Cardinality(A)] = t2
    <3> HIDE DEF t1, r1, n, A
    <3> QED
      BY <1>10, <2>1
  <2>3. r3 \in SigBases /\ r3.ev_signal_added = p.sig[b].ev_signal_added
    <3> HIDE DEF r1, n
    <3> QED
      BY <1>4, <1>8 DEF SigBases
  <2>4. t2 \in Processes(B) /\ t2.sig[b] = r3 /\ t2.sig = [t1.sig EXCEPT ![b] = r3]
    <3> HIDE DEF t1, r3
    <3> QED
      BY <1>9, <2>3 DEF Processes
  <2>5. q = [t2 EXCEPT !.sig[b].ev_signal_added = @ \/ A # {}]
    <3> DEFINE x == [t1 EXCEPT !.sig[b].ev_n_signals_added = @ + Cardinality(A)]
    <3> HIDE DEF q, t1, A, r1, n
    <3>1. q = [x EXCEPT !.sig[b].ev_signal_added = @ \/ A # {}]
      BY <1>7
    <3>2. x = t2
      BY <2>2
    <3> HIDE DEF x, t2
    <3> QED
      BY <3>1, <3>2
  <2>6. (t2.sig[b].ev_signal_added \/ A # {}) = w
    <3> HIDE DEF t2, A, r3
    <3> QED
      BY <2>3, <2>4
  <2>7. q = [t2 EXCEPT !.sig = [t2.sig EXCEPT ![b] = [r3 EXCEPT !.ev_signal_added = w]]]
    <3> HIDE DEF t2, A, r3, w, q
    <3> QED
      BY <2>4, <2>5, <2>6
  <2>8. [r3 EXCEPT !.ev_signal_added = w] = r2
    OBVIOUS
  <2>9. q = [t2 EXCEPT !.sig = [t2.sig EXCEPT ![b] = r2]]
    <3> HIDE DEF t2, r2, r3, q
    <3> QED
      BY <2>7, <2>8
  <2>10. [t2.sig EXCEPT ![b] = r2] = [t1.sig EXCEPT ![b] = r2]
    <3> HIDE DEF t1, t2, r2, r3
    <3> QED
      BY <1>9, <2>4 DEF Processes
  <2> HIDE DEF q, r2, r3, t1
  <2> QED
    BY <1>9, <2>9, <2>10 DEF Processes
<1>12. /\ r2 \in SigBases /\ r2.sh_old = o /\ r2.ev_n_signals_added = n /\ r2.ev_signal_added = w
       /\ r2.events = p.sig[b].events /\ r2.pipe = p.sig[b].pipe
       /\ r2.ncaught = p.sig[b].ncaught /\ r2.alive = p.sig[b].alive
  <2> HIDE DEF o, n, w
  <2> QED
    BY <1>1, <1>3, <1>4 DEF SigBases
<1> HIDE DEF h, o, n, w, t0, t1, r, r1, r2, q, A
<1>13. /\ q \in Processes(B) /\ q.handler = h /\ q.base = b /\ q.fd = b /\ q.sig[b] = r2
       /\ \A c \in B \ {b} : q.sig[c] = t1.sig[c]
  <2>1. /\ q \in Processes(B) /\ q.handler = t1.handler /\ q.base = t1.base /\ q.fd = t1.fd
        /\ q.sig[b] = r2 /\ \A c \in B \ {b} : q.sig[c] = t1.sig[c]
    <3>1. t1 \in Processes(B) /\ r2 \in SigBases
      BY <1>9, <1>12
    <3> QED
      BY <3>1, <1>11, PutBase, SMT
  <2> QED
    BY <1>9, <2>1
<1>14. Only(p, q, b, B)
  BY <1>10, <1>12, <1>13 DEF Only
<1> QED
  BY <1>12, <1>13, <1>14 DEF AddDone, h, o, n, w, q, A

(* From p to q, base b puts back the handlers of the signals S, which it   *)
(* counts down.                                                            *)
DelDone(p, q, b, S, B) ==
    /\ Only(p, q, b, B) /\ q.base = p.base /\ q.fd = p.fd
    /\ q.handler = [x \in Signals |-> IF x \in S THEN p.sig[b].sh_old[x] ELSE p.handler[x]]
    /\ q.sig[b].sh_old = [x \in Signals |-> IF x \in S THEN "null" ELSE p.sig[b].sh_old[x]]
    /\ q.sig[b].ev_n_signals_added = p.sig[b].ev_n_signals_added - Cardinality(S)
    /\ q.sig[b].events = p.sig[b].events /\ q.sig[b].pipe = p.sig[b].pipe
    /\ q.sig[b].ev_signal_added = p.sig[b].ev_signal_added

(* This is what evsig_del does. *)
LEMMA DelIs ==
    ASSUME NEW B, NEW p \in Processes(B), NEW b \in B, NEW S \in SUBSET Signals
    PROVE  DelDone(p, evsig_del(p, b, S), b, S, B)
<1> DEFINE r == [p.sig[b] EXCEPT !.ev_n_signals_added = @ - Cardinality(S)]
           t == [p EXCEPT !.sig = [p.sig EXCEPT ![b] = r]]
           q == evsig_del(p, b, S)
<1>1. p.sig \in [B -> SigBases] /\ p.sig[b] \in SigBases
  BY DEF Processes
<1>2. /\ r \in SigBases /\ r.sh_old = p.sig[b].sh_old /\ r.ncaught = p.sig[b].ncaught
      /\ r.alive = p.sig[b].alive
  <2>1. p.sig[b].ev_n_signals_added - Cardinality(S) \in Int
    BY <1>1, SignalsAreFinite, SMT DEF SigBases
  <2> QED
    BY <1>1, <2>1 DEF SigBases
<1>3. q = evsig_restore_handler_(t, b, S)
  BY <1>1 DEF evsig_del, Processes, SigBases
<1> HIDE DEF q
<1>4. /\ t \in Processes(B) /\ t.handler = p.handler /\ t.base = p.base /\ t.fd = p.fd /\ t.sig[b] = r
      /\ \A c \in B \ {b} : t.sig[c] = p.sig[c]
  <2> HIDE DEF r
  <2> QED
    BY <1>2, PutBase, SMT
<1> HIDE DEF t
<1>5. /\ Only(t, q, b, B) /\ q.base = t.base /\ q.fd = t.fd
      /\ q.handler = [x \in Signals |-> IF x \in S THEN t.sig[b].sh_old[x] ELSE t.handler[x]]
      /\ q.sig[b] = [t.sig[b] EXCEPT !.sh_old = [x \in Signals |-> IF x \in S THEN "null" ELSE @[x]]]
  <2>1. t \in Processes(B)
    BY <1>4
  <2> HIDE DEF r
  <2> QED
    BY <1>3, <2>1, RestoreIs, SMT
<1> DEFINE o == [x \in Signals |-> IF x \in S THEN "null" ELSE p.sig[b].sh_old[x]]
<1>6. /\ q.sig[b].sh_old = o
      /\ q.sig[b].ev_n_signals_added = p.sig[b].ev_n_signals_added - Cardinality(S)
      /\ q.sig[b].events = p.sig[b].events /\ q.sig[b].pipe = p.sig[b].pipe
      /\ q.sig[b].ev_signal_added = p.sig[b].ev_signal_added
  <2>1. /\ r.ev_n_signals_added = p.sig[b].ev_n_signals_added - Cardinality(S)
        /\ r.events = p.sig[b].events /\ r.pipe = p.sig[b].pipe
        /\ r.ev_signal_added = p.sig[b].ev_signal_added
    BY <1>1 DEF SigBases
  <2> HIDE DEF r
  <2>2. q.sig[b] = [r EXCEPT !.sh_old = o]
    BY <1>2, <1>4, <1>5
  <2> HIDE DEF o
  <2> QED
    BY <1>2, <2>1, <2>2 DEF SigBases
<1>7. Only(p, q, b, B)
  <2> HIDE DEF r
  <2> QED
    BY <1>2, <1>4, <1>5 DEF Only
<1>8. q.handler = [x \in Signals |-> IF x \in S THEN p.sig[b].sh_old[x] ELSE p.handler[x]]
  <2> HIDE DEF r
  <2> QED
    BY <1>2, <1>4, <1>5
<1> QED
  BY <1>4, <1>5, <1>6, <1>7, <1>8 DEF DelDone, q, o

(* From p to q, base b puts back every handler that it saved, closes its   *)
(* pipe, and is no longer the one to write to.                             *)
DeallocDone(p, q, b, B) ==
    /\ Only(p, q, b, B)
    /\ q.base = (IF p.base = b THEN "none" ELSE p.base)
    /\ q.fd = (IF p.base = b THEN "none" ELSE p.fd)
    /\ q.handler = [s \in Signals |-> IF p.sig[b].sh_old[s] # "null"
                                      THEN p.sig[b].sh_old[s] ELSE p.handler[s]]
    /\ q.sig[b].sh_old = [s \in Signals |-> "null"]
    /\ q.sig[b].events = p.sig[b].events
    /\ q.sig[b].ev_n_signals_added = p.sig[b].ev_n_signals_added

(* This is what evsig_dealloc_ does. *)
LEMMA DeallocIs ==
    ASSUME NEW B, NEW p \in Processes(B), NEW b \in B
    PROVE  DeallocDone(p, evsig_dealloc_(p, b), b, B)
<1> DEFINE saved == {s \in Signals : p.sig[b].sh_old[s] # "null"}
           t == evsig_restore_handler_(p, b, saved)
           r == [t.sig[b] EXCEPT !.ev_signal_added = FALSE, !.pipe = <<>>]
           u == [t EXCEPT !.sig = [t.sig EXCEPT ![b] = r]]
           v == IF u.base = b THEN [u EXCEPT !.base = "none", !.fd = "none"] ELSE u
           q == evsig_dealloc_(p, b)
<1>1. /\ Only(p, t, b, B) /\ t.base = p.base /\ t.fd = p.fd
      /\ t.handler = [x \in Signals |-> IF x \in saved THEN p.sig[b].sh_old[x] ELSE p.handler[x]]
      /\ t.sig[b] = [p.sig[b] EXCEPT !.sh_old = [x \in Signals |-> IF x \in saved THEN "null" ELSE @[x]]]
  <2>1. saved \in SUBSET Signals
    OBVIOUS
  <2> HIDE DEF saved
  <2> QED
    BY <2>1, RestoreIs, SMT
<1>2. t \in Processes(B)
  BY <1>1 DEF Only
<1>3. t.sig[b] \in SigBases /\ p.sig[b] \in SigBases /\ t.sig \in [B -> SigBases]
  <2> HIDE DEF t
  <2> QED
    BY <1>2 DEF Processes
<1>4. p.sig[b].sh_old \in [Signals -> Handlers]
  BY <1>3 DEF SigBases
<1>5. t.sig[b].sh_old = [s \in Signals |-> "null"]
  <2> DEFINE o == [s \in Signals |-> IF s \in saved THEN "null" ELSE p.sig[b].sh_old[s]]
  <2>1. o = [s \in Signals |-> "null"]
    BY <1>4
  <2> HIDE DEF o, t, saved
  <2>2. t.sig[b].sh_old = o
    <3>1. t.sig[b] = [p.sig[b] EXCEPT !.sh_old = o]
      BY <1>1 DEF o
    <3> QED
      BY <1>3, <3>1 DEF SigBases
  <2> QED
    BY <2>1, <2>2
<1>6. /\ t.sig[b].events = p.sig[b].events
      /\ t.sig[b].ev_n_signals_added = p.sig[b].ev_n_signals_added
  <2> HIDE DEF t, saved
  <2> QED
    BY <1>1, <1>3 DEF SigBases
<1>7. q = v
  <2> DEFINE w == [t EXCEPT !.sig[b].ev_signal_added = FALSE, !.sig[b].pipe = <<>>]
  <2>1. q = IF w.base = b THEN [w EXCEPT !.base = "none", !.fd = "none"] ELSE w
    BY DEF evsig_dealloc_
  <2>2. w = u
    <3> HIDE DEF t
    <3> QED
      BY <1>2, <1>3 DEF Processes
  <2> HIDE DEF q, t, u, w
  <2> QED
    BY <2>1, <2>2
<1>8. /\ r \in SigBases /\ r.sh_old = t.sig[b].sh_old /\ r.events = t.sig[b].events /\ r.pipe = <<>>
      /\ r.ev_n_signals_added = t.sig[b].ev_n_signals_added /\ r.ev_signal_added = FALSE
      /\ r.ncaught = t.sig[b].ncaught /\ r.alive = t.sig[b].alive
  <2> DEFINE none == <<>>
  <2>1. none \in Seq(Signals)
    BY SMT
  <2> HIDE DEF t, none
  <2>2. r = [t.sig[b] EXCEPT !.ev_signal_added = FALSE, !.pipe = none]
    BY DEF none
  <2> HIDE DEF r
  <2>3. r \in SigBases /\ r.pipe = none /\ r.ev_signal_added = FALSE
    BY <1>3, <2>1, <2>2 DEF SigBases
  <2>4. /\ r.sh_old = t.sig[b].sh_old /\ r.events = t.sig[b].events
        /\ r.ev_n_signals_added = t.sig[b].ev_n_signals_added
        /\ r.ncaught = t.sig[b].ncaught /\ r.alive = t.sig[b].alive
    BY <1>3, <2>2 DEF SigBases
  <2> QED
    BY <2>3, <2>4 DEF none
<1>9. /\ u \in Processes(B) /\ u.handler = t.handler /\ u.base = t.base /\ u.fd = t.fd /\ u.sig[b] = r
      /\ \A c \in B \ {b} : u.sig[c] = t.sig[c]
  <2> HIDE DEF t, r
  <2> QED
    BY <1>2, <1>8, PutBase, SMT
<1> HIDE DEF t, r, u
<1>10. /\ v \in Processes(B) /\ v.handler = u.handler /\ v.sig = u.sig
       /\ v.base = (IF u.base = b THEN "none" ELSE u.base)
       /\ v.fd = (IF u.base = b THEN "none" ELSE u.fd)
  BY <1>9 DEF Processes
<1> HIDE DEF v, q
<1>11. Only(p, q, b, B)
  BY <1>1, <1>7, <1>8, <1>9, <1>10 DEF Only
<1>12. q.handler = [s \in Signals |-> IF p.sig[b].sh_old[s] # "null"
                                      THEN p.sig[b].sh_old[s] ELSE p.handler[s]]
  BY <1>1, <1>7, <1>9, <1>10
<1>13. q.base = (IF p.base = b THEN "none" ELSE p.base) /\ q.fd = (IF p.base = b THEN "none" ELSE p.fd)
  BY <1>1, <1>7, <1>9, <1>10
<1> QED
  BY <1>5, <1>6, <1>7, <1>8, <1>9, <1>10, <1>11, <1>12, <1>13 DEF DeallocDone, q

(* The number of events on one signal of one base changes. *)
LEMMA EventsAre ==
    ASSUME NEW B, NEW p \in Processes(B), NEW b \in B, NEW s \in Signals, NEW n \in Nat
    PROVE  LET q == [p EXCEPT !.sig[b].events[s] = n]
           IN  /\ Only(p, q, b, B) /\ q.base = p.base /\ q.fd = p.fd /\ q.handler = p.handler
               /\ q.sig[b].events = [p.sig[b].events EXCEPT ![s] = n]
               /\ q.sig[b].sh_old = p.sig[b].sh_old /\ q.sig[b].pipe = p.sig[b].pipe
               /\ q.sig[b].ev_n_signals_added = p.sig[b].ev_n_signals_added
               /\ q.sig[b].ev_signal_added = p.sig[b].ev_signal_added
<1> DEFINE f == [p.sig[b].events EXCEPT ![s] = n]
           r == [p.sig[b] EXCEPT !.events = f]
           q == [p EXCEPT !.sig = [p.sig EXCEPT ![b] = r]]
<1>1. p.sig[b] \in SigBases
  BY DEF Processes
<1>2. f \in [Signals -> Nat]
  BY <1>1 DEF SigBases
<1> HIDE DEF f
<1>3. /\ r \in SigBases /\ r.sh_old = p.sig[b].sh_old /\ r.events = f /\ r.pipe = p.sig[b].pipe
      /\ r.ev_n_signals_added = p.sig[b].ev_n_signals_added
      /\ r.ev_signal_added = p.sig[b].ev_signal_added
      /\ r.ncaught = p.sig[b].ncaught /\ r.alive = p.sig[b].alive
  BY <1>1, <1>2 DEF SigBases
<1>4. [p EXCEPT !.sig[b].events[s] = n] = q
  BY DEF f
<1> HIDE DEF r
<1>5. /\ q \in Processes(B) /\ q.handler = p.handler /\ q.base = p.base /\ q.fd = p.fd /\ q.sig[b] = r
      /\ \A c \in B \ {b} : q.sig[c] = p.sig[c]
  BY <1>3, PutBase, SMT
<1> HIDE DEF q
<1> QED
  BY <1>3, <1>4, <1>5 DEF Only, f

-----------------------------------------------------------------------------
(* What the operations do to a good state. *)

(* A step that neither touches handlers nor the numbers of events keeps    *)
(* the handlers good.                                                      *)
LEMMA HandlersKept ==
    ASSUME NEW B, NEW p, HandlersGood(p, B), NEW q \in Processes(B), q.fd = q.base,
           q.handler = p.handler,
           \A c \in B : /\ q.sig[c].events = p.sig[c].events
                        /\ q.sig[c].sh_old = p.sig[c].sh_old
    PROVE  HandlersGood(q, B) /\ \A c \in B : Awaited(q, c) = Awaited(p, c)
<1>1. \A c \in B : Awaited(q, c) = Awaited(p, c)
  BY DEF Awaited
<1> QED
  BY <1>1, SMT DEF HandlersGood

(* Another event on a signal: the first one of a base takes the handler.   *)
LEMMA AddKeeps ==
    ASSUME NEW B, NEW p, HandlersGood(p, B), NEW b \in B, NEW s \in Signals,
           \A c \in B \ {b} : Awaited(p, c) = {}
    PROVE  LET q == evmap_signal_add_(p, b, s, FALSE)
           IN  /\ HandlersGood(q, B) /\ (BaseLed(p, B) => BaseLed(q, B))
               /\ SignalsCounted(p, B) => SignalsCounted(q, B)
               /\ \A c \in B : /\ q.sig[c].pipe = p.sig[c].pipe
                               /\ q.sig[c].ncaught = p.sig[c].ncaught
                               /\ p.sig[c].ev_signal_added = TRUE => q.sig[c].ev_signal_added = TRUE
<1> DEFINE a == SigAdded(p, b, {s})
           q == evmap_signal_add_(p, b, s, FALSE)
<1>0. p \in Processes(B) /\ p.fd = p.base
  BY DEF HandlersGood
<1>1. /\ p.sig[b] \in SigBases /\ p.sig[b].events \in [Signals -> Nat]
      /\ p.sig[b].ev_signal_added \in BOOLEAN /\ p.sig[b].ev_n_signals_added \in Int
      /\ p.sig[b].sh_old \in [Signals -> Handlers] /\ p.handler \in [Signals -> Handlers]
  BY <1>0 DEF Processes, SigBases
<1>2. /\ Only(p, a, b, B) /\ a.base = b /\ a.fd = b
      /\ a.handler = [x \in Signals |-> IF x \in {s} \ Uncatchable THEN "evsig" ELSE p.handler[x]]
      /\ a.sig[b].sh_old = [x \in Signals |-> IF x \in {s} \ Uncatchable
                                              THEN p.handler[x] ELSE p.sig[b].sh_old[x]]
      /\ a.sig[b].events = p.sig[b].events /\ a.sig[b].pipe = p.sig[b].pipe
      /\ a.sig[b].ev_n_signals_added = p.sig[b].ev_n_signals_added + Cardinality({s} \ Uncatchable)
      /\ a.sig[b].ev_signal_added \in BOOLEAN
      /\ a.sig[b].ev_signal_added <=> (p.sig[b].ev_signal_added \/ {s} \ Uncatchable # {})
  <2>1. {s} \in SUBSET Signals
    OBVIOUS
  <2>2. {s} # {}
    OBVIOUS
  <2>3. p \in Processes(B)
    BY <1>0
  <2>4. AddDone(p, a, b, {s} \ Uncatchable, B)
    BY <2>1, <2>2, <2>3, AddIs
  <2> HIDE DEF a
  <2> QED
    BY <2>4 DEF AddDone
<1> HIDE DEF a
<1>3. CASE p.sig[b].events[s] > 0
  <2> DEFINE n == p.sig[b].events[s] + 1
  <2>1. q = [p EXCEPT !.sig[b].events[s] = n] /\ n \in Nat /\ n > 0
    <3>1. q = [p EXCEPT !.sig[b].events[s] = n]
      BY <1>3 DEF evmap_signal_add_
    <3>2. n \in Nat /\ n > 0
      BY <1>1, SMTT(20)
    <3> QED
      BY <3>1, <3>2
  <2> HIDE DEF q, n
  <2>2. /\ Only(p, q, b, B) /\ q.base = p.base /\ q.fd = p.fd /\ q.handler = p.handler
        /\ q.sig[b].events = [p.sig[b].events EXCEPT ![s] = n]
        /\ q.sig[b].sh_old = p.sig[b].sh_old /\ q.sig[b].pipe = p.sig[b].pipe
        /\ q.sig[b].ev_n_signals_added = p.sig[b].ev_n_signals_added
        /\ q.sig[b].ev_signal_added = p.sig[b].ev_signal_added
    BY <1>0, <2>1, EventsAre, SMTT(20)
  <2>3. \A x \in Signals : q.sig[b].events[x] > 0 <=> p.sig[b].events[x] > 0
    BY <1>1, <1>3, <2>1, <2>2, SMT
  <2>4. \A c \in B : Awaited(q, c) = Awaited(p, c)
    <3>1. \A c \in B \ {b} : q.sig[c] = p.sig[c]
      BY <2>2 DEF Only
    <3>2. Awaited(q, b) = Awaited(p, b)
      BY <2>3 DEF Awaited
    <3>3. ASSUME NEW c \in B \ {b} PROVE Awaited(q, c) = Awaited(p, c)
      BY <3>1 DEF Awaited
    <3> QED
      BY <3>2, <3>3
  <2>5. HandlersGood(q, B)
    BY <1>0, <2>2, <2>4, SMT DEF HandlersGood, Only
  <2>6. \A c \in B : /\ q.sig[c].ev_n_signals_added = p.sig[c].ev_n_signals_added
                     /\ q.sig[c].ev_signal_added = p.sig[c].ev_signal_added
                     /\ q.sig[c].pipe = p.sig[c].pipe /\ q.sig[c].ncaught = p.sig[c].ncaught
    BY <2>2 DEF Only
  <2> QED
    BY <2>2, <2>4, <2>5, <2>6 DEF BaseLed, SignalsCounted, q
<1>4. CASE ~(p.sig[b].events[s] > 0) /\ s \in Uncatchable
  <2>0. {s} \ Uncatchable = {} /\ Cardinality({}) = 0
    BY <1>4, FS_EmptySet
  <2>1. q = a
    <3>1. evsig_add(p, b, {s}, FALSE).ret = -1
      BY <2>0 DEF evsig_add
    <3> QED
      BY <1>4, <3>1 DEF evmap_signal_add_, a, SigAdded
  <2> HIDE DEF q
  <2>2. q.handler = p.handler /\ q.sig[b].sh_old = p.sig[b].sh_old
    BY <1>1, <1>2, <2>0, <2>1
  <2>3. \A c \in B : /\ q.sig[c].events = p.sig[c].events /\ q.sig[c].sh_old = p.sig[c].sh_old
                     /\ q.sig[c].pipe = p.sig[c].pipe /\ q.sig[c].ncaught = p.sig[c].ncaught
                     /\ q.sig[c].ev_n_signals_added = p.sig[c].ev_n_signals_added
                     /\ q.sig[c].ev_signal_added = p.sig[c].ev_signal_added
    <3>1. /\ q.sig[b].ev_n_signals_added = p.sig[b].ev_n_signals_added
          /\ q.sig[b].ev_signal_added = p.sig[b].ev_signal_added
      BY <1>1, <1>2, <2>0, <2>1, SMTT(20)
    <3> QED
      BY <1>2, <2>1, <2>2, <3>1 DEF Only
  <2>4. HandlersGood(q, B) /\ \A c \in B : Awaited(q, c) = Awaited(p, c)
    BY <1>2, <2>1, <2>2, <2>3, HandlersKept, SMTT(20) DEF Only
  <2>5. BaseLed(p, B) => BaseLed(q, B)
    BY <1>2, <2>1, <2>3, <2>4 DEF BaseLed
  <2> QED
    BY <2>3, <2>4, <2>5 DEF SignalsCounted, q
<1>5. CASE ~(p.sig[b].events[s] > 0) /\ s \notin Uncatchable
  <2> DEFINE n == a.sig[b].events[s] + 1
  <2>0. {s} \ Uncatchable = {s} /\ Cardinality({s}) = 1 /\ p.sig[b].events[s] = 0
    <3>1. Cardinality({s}) = 1
      BY FS_Singleton
    <3>2. p.sig[b].events[s] = 0
      BY <1>1, <1>5, SMT
    <3> QED
      BY <1>5, <3>1, <3>2
  <2>1. q = [a EXCEPT !.sig[b].events[s] = n] /\ n = 1
    <3>1. evsig_add(p, b, {s}, FALSE).ret = 0
      BY <2>0 DEF evsig_add
    <3>2. q = [a EXCEPT !.sig[b].events[s] = n]
      <4> DEFINE first == evsig_add(p, b, {s}, FALSE)
                 in(t) == [t EXCEPT !.sig[b].events[s] = @ + 1]
      <4>1. q = IF p.sig[b].events[s] > 0 THEN in(p)
                ELSE IF first.ret = -1 THEN first.p ELSE in(first.p)
        BY DEF evmap_signal_add_
      <4>2. first.ret = 0 /\ first.p = a
        BY <3>1 DEF a, SigAdded
      <4>3. in(a) = [a EXCEPT !.sig[b].events[s] = n]
        OBVIOUS
      <4> HIDE DEF first, in, q
      <4>4. q = in(a)
        BY <1>5, <4>1, <4>2, SMTT(20)
      <4> QED
        BY <4>3, <4>4
    <3>3. n = 1
      BY <1>2, <2>0, SMTT(20)
    <3> QED
      BY <3>2, <3>3
  <2> HIDE DEF q
  <2>2. /\ Only(a, q, b, B) /\ q.base = a.base /\ q.fd = a.fd /\ q.handler = a.handler
        /\ q.sig[b].events = [a.sig[b].events EXCEPT ![s] = n]
        /\ q.sig[b].sh_old = a.sig[b].sh_old /\ q.sig[b].pipe = a.sig[b].pipe
        /\ q.sig[b].ev_n_signals_added = a.sig[b].ev_n_signals_added
        /\ q.sig[b].ev_signal_added = a.sig[b].ev_signal_added
    <3>1. a \in Processes(B) /\ n \in Nat
      BY <1>2, <2>1, SMT DEF Only
    <3> HIDE DEF n
    <3> QED
      BY <2>1, <3>1, EventsAre, SMTT(20)
  <2>3. Awaited(q, b) = Awaited(p, b) \union {s} /\ s \notin Awaited(p, b)
    <3>1. \A x \in Signals : q.sig[b].events[x] = IF x = s THEN 1 ELSE p.sig[b].events[x]
      BY <1>1, <1>2, <2>1, <2>2, SMT
    <3> QED
      BY <1>5, <3>1, SMTT(20) DEF Awaited
  <2>4. \A c \in B \ {b} : q.sig[c] = p.sig[c] /\ Awaited(q, c) = {}
    <3>1. \A c \in B \ {b} : q.sig[c] = p.sig[c]
      BY <1>2, <2>2 DEF Only
    <3> QED
      BY <3>1 DEF Awaited
  <2>5. p.handler[s] = "own"
    BY <2>3 DEF HandlersGood
  <2>6. /\ \A x \in Signals : q.handler[x] = IF x = s THEN "evsig" ELSE p.handler[x]
        /\ \A x \in Signals : q.sig[b].sh_old[x] = IF x = s THEN "own" ELSE p.sig[b].sh_old[x]
    BY <1>2, <2>0, <2>2, <2>5, SMT
  <2>7. HandlersGood(q, B)
    <3>1. q \in Processes(B) /\ q.fd = q.base
      BY <1>2, <2>2 DEF Only
    <3>2. \A c \in B : Awaited(q, c) \intersect Uncatchable = {}
      BY <1>5, <2>3, <2>4, SMT DEF HandlersGood
    <3>3. \A c, d \in B : Awaited(q, c) # {} /\ Awaited(q, d) # {} => c = d
      BY <2>4
    <3>4. ASSUME NEW c \in B, NEW x \in Signals
          PROVE  /\ x \in Awaited(q, c) => q.handler[x] = "evsig" /\ q.sig[c].sh_old[x] = "own"
                 /\ x \notin Awaited(q, c) => q.sig[c].sh_old[x] = "null"
      <4>1. CASE c = b
        BY <2>3, <2>6, <4>1, SMTT(20) DEF HandlersGood
      <4>2. CASE c # b
        BY <2>4, <4>2, SMT DEF HandlersGood
      <4> QED
        BY <4>1, <4>2
    <3>5. ASSUME NEW x \in Signals, \A c \in B : x \notin Awaited(q, c)
          PROVE  q.handler[x] = "own"
      <4>1. x # s /\ \A c \in B : x \notin Awaited(p, c)
        BY <2>3, <3>5
      <4> QED
        BY <2>6, <4>1 DEF HandlersGood
    <3> QED
      BY <3>1, <3>2, <3>3, <3>4, <3>5 DEF HandlersGood
  <2>8. BaseLed(q, B)
    BY <1>2, <2>0, <2>2, <2>4 DEF BaseLed
  <2>9. SignalsCounted(p, B) => SignalsCounted(q, B)
    <3> SUFFICES ASSUME SignalsCounted(p, B), NEW c \in B
                 PROVE  q.sig[c].ev_n_signals_added = Cardinality(Awaited(q, c))
      BY DEF SignalsCounted
    <3>1. CASE c = b
      <4>1. Awaited(p, b) \in SUBSET Signals
        BY DEF Awaited
      <4>2. Cardinality(Awaited(q, b)) = Cardinality(Awaited(p, b)) + 1
        BY <2>3, <4>1, SignalsAreFinite, FS_AddElement, SMT
      <4> QED
        <5>1. q.sig[b].ev_n_signals_added = p.sig[b].ev_n_signals_added + 1
          BY <1>2, <2>0, <2>2
        <5>2. p.sig[b].ev_n_signals_added = Cardinality(Awaited(p, b))
          BY DEF SignalsCounted
        <5> QED
          BY <3>1, <4>2, <5>1, <5>2
    <3>2. CASE c # b
      BY <2>4, <3>2 DEF SignalsCounted
    <3> QED
      BY <3>1, <3>2
  <2>10. \A c \in B : /\ q.sig[c].pipe = p.sig[c].pipe /\ q.sig[c].ncaught = p.sig[c].ncaught
                      /\ p.sig[c].ev_signal_added = TRUE => q.sig[c].ev_signal_added = TRUE
    BY <1>2, <2>2, <2>4 DEF Only
  <2> QED
    BY <2>7, <2>8, <2>9, <2>10 DEF q
<1> QED
  BY <1>3, <1>4, <1>5

(* One event less on a signal: the last one of a base gives the handler    *)
(* back.                                                                   *)
LEMMA DelKeeps ==
    ASSUME NEW B, NEW p, HandlersGood(p, B), NEW b \in B, NEW s \in Awaited(p, b)
    PROVE  LET q == evmap_signal_del_(p, b, s)
           IN  /\ HandlersGood(q, B) /\ (BaseLed(p, B) => BaseLed(q, B))
               /\ SignalsCounted(p, B) => SignalsCounted(q, B)
               /\ \A c \in B : /\ q.sig[c].pipe = p.sig[c].pipe
                               /\ q.sig[c].ncaught = p.sig[c].ncaught
                               /\ q.sig[c].ev_signal_added = p.sig[c].ev_signal_added
<1> DEFINE n == p.sig[b].events[s] - 1
           t == [p EXCEPT !.sig[b].events[s] = n]
           q == evmap_signal_del_(p, b, s)
<1>0. p \in Processes(B) /\ p.fd = p.base
  BY DEF HandlersGood
<1>1. /\ s \in Signals /\ p.sig[b] \in SigBases /\ p.sig[b].events \in [Signals -> Nat]
      /\ p.sig[b].ev_n_signals_added \in Int
      /\ p.sig[b].sh_old \in [Signals -> Handlers] /\ p.handler \in [Signals -> Handlers]
      /\ p.sig[b].events[s] > 0
  BY <1>0 DEF Processes, SigBases, Awaited
<1>2. n \in Nat
  BY <1>1, SMT
<1>3. q = IF t.sig[b].events[s] = 0 THEN evsig_del(t, b, {s}) ELSE t
  BY DEF evmap_signal_del_
<1> HIDE DEF n
<1>4. /\ Only(p, t, b, B) /\ t.base = p.base /\ t.fd = p.fd /\ t.handler = p.handler
      /\ t.sig[b].events = [p.sig[b].events EXCEPT ![s] = n]
      /\ t.sig[b].sh_old = p.sig[b].sh_old /\ t.sig[b].pipe = p.sig[b].pipe
      /\ t.sig[b].ev_n_signals_added = p.sig[b].ev_n_signals_added
      /\ t.sig[b].ev_signal_added = p.sig[b].ev_signal_added
  <2>1. p \in Processes(B) /\ s \in Signals /\ t = [p EXCEPT !.sig[b].events[s] = n]
    BY <1>0, <1>1
  <2> HIDE DEF t
  <2> QED
    BY <1>2, <2>1, EventsAre, SMT
<1> HIDE DEF t
<1>5. t \in Processes(B) /\ t.sig[b] \in SigBases /\ t.sig[b].events[s] = n
  BY <1>1, <1>4 DEF Only, Processes
<1>6. \A c \in B \ {b} : t.sig[c] = p.sig[c] /\ Awaited(t, c) = Awaited(p, c) /\ Awaited(p, c) = {}
  <2>1. \A c \in B \ {b} : t.sig[c] = p.sig[c]
    BY <1>4 DEF Only
  <2>2. \A c \in B \ {b} : Awaited(t, c) = Awaited(p, c)
    BY <2>1 DEF Awaited
  <2> QED
    BY <2>1, <2>2 DEF HandlersGood
<1>7. CASE n = 0
  <2> DEFINE S == {s}
  <2>1. q = evsig_del(t, b, S)
    BY <1>3, <1>5, <1>7
  <2>2. S \in SUBSET Signals
    BY <1>1
  <2> HIDE DEF q, S
  <2> DEFINE o == [x \in Signals |-> IF x \in S THEN "null" ELSE t.sig[b].sh_old[x]]
             k == t.sig[b].ev_n_signals_added - Cardinality(S)
  <2>3. /\ Only(t, q, b, B) /\ q.base = t.base /\ q.fd = t.fd
        /\ q.handler = [x \in Signals |-> IF x \in S THEN t.sig[b].sh_old[x] ELSE t.handler[x]]
        /\ q.sig[b].sh_old = o /\ q.sig[b].ev_n_signals_added = k
        /\ q.sig[b].events = t.sig[b].events /\ q.sig[b].pipe = t.sig[b].pipe
        /\ q.sig[b].ev_signal_added = t.sig[b].ev_signal_added
    <3>1. DelDone(t, q, b, S, B)
      BY <1>5, <2>1, <2>2, DelIs
    <3> QED
      BY <3>1 DEF DelDone
  <2> HIDE DEF o, k
  <2>5. \A x : x \in S <=> x = s
    BY DEF S
  <2>6. \A x \in Signals : q.sig[b].sh_old[x] = IF x = s THEN "null" ELSE p.sig[b].sh_old[x]
    <3>1. q.sig[b].sh_old = o /\ t.sig[b].sh_old = p.sig[b].sh_old
      BY <1>4, <2>3
    <3>2. \A x \in Signals : o[x] = IF x \in S THEN "null" ELSE t.sig[b].sh_old[x]
      BY DEF o
    <3> QED
      BY <2>5, <3>1, <3>2
  <2>7. \A x \in Signals : q.handler[x] = IF x = s THEN "own" ELSE p.handler[x]
    <3>1. p.sig[b].sh_old[s] = "own"
      BY <1>1 DEF HandlersGood
    <3>2. t.handler = p.handler /\ t.sig[b].sh_old = p.sig[b].sh_old
      BY <1>4
    <3>3. \A x \in Signals : q.handler[x] = IF x \in S THEN t.sig[b].sh_old[x] ELSE t.handler[x]
      BY <2>3
    <3> QED
      BY <2>5, <3>1, <3>2, <3>3
  <2>8. Awaited(q, b) = Awaited(p, b) \ {s}
    <3>1. \A x \in Signals : q.sig[b].events[x] = IF x = s THEN 0 ELSE p.sig[b].events[x]
      BY <1>1, <1>4, <1>7, <2>3, SMT
    <3> QED
      BY <3>1, SMTT(20) DEF Awaited
  <2>9. \A c \in B \ {b} : q.sig[c] = p.sig[c] /\ Awaited(q, c) = {}
    <3>1. \A c \in B \ {b} : q.sig[c] = p.sig[c]
      BY <1>6, <2>3 DEF Only
    <3>2. \A c \in B \ {b} : Awaited(q, c) = Awaited(p, c)
      BY <3>1 DEF Awaited
    <3> QED
      BY <1>6, <3>1, <3>2
  <2>10. HandlersGood(q, B)
    <3>1. q \in Processes(B) /\ q.fd = q.base
      BY <1>0, <1>4, <2>3 DEF Only
    <3>2. \A c \in B : Awaited(q, c) \intersect Uncatchable = {}
      BY <2>8, <2>9 DEF HandlersGood
    <3>3. \A c, d \in B : Awaited(q, c) # {} /\ Awaited(q, d) # {} => c = d
      BY <2>9
    <3>4. ASSUME NEW c \in B, NEW x \in Signals
          PROVE  /\ x \in Awaited(q, c) => q.handler[x] = "evsig" /\ q.sig[c].sh_old[x] = "own"
                 /\ x \notin Awaited(q, c) => q.sig[c].sh_old[x] = "null"
      <4>1. CASE c = b
        BY <2>6, <2>7, <2>8, <4>1, SMT DEF HandlersGood
      <4>2. CASE c # b
        <5>1. x \notin Awaited(q, c) /\ x \notin Awaited(p, c) /\ q.sig[c] = p.sig[c]
          BY <1>6, <2>9, <4>2, SMT
        <5> QED
          BY <5>1 DEF HandlersGood
      <4> QED
        BY <4>1, <4>2
    <3>5. ASSUME NEW x \in Signals, \A c \in B : x \notin Awaited(q, c)
          PROVE  q.handler[x] = "own"
      <4>1. CASE x = s
        BY <2>7, <4>1
      <4>2. CASE x # s
        <5>1. \A c \in B : x \notin Awaited(p, c)
          BY <1>6, <2>8, <3>5, <4>2
        <5> QED
          BY <2>7, <4>2, <5>1 DEF HandlersGood
      <4> QED
        BY <4>1, <4>2
    <3> QED
      BY <3>1, <3>2, <3>3, <3>4, <3>5 DEF HandlersGood
  <2>11. BaseLed(p, B) => BaseLed(q, B)
    BY <1>4, <2>3, <2>8, <2>9 DEF BaseLed
  <2>12. SignalsCounted(p, B) => SignalsCounted(q, B)
    <3> SUFFICES ASSUME SignalsCounted(p, B), NEW c \in B
                 PROVE  q.sig[c].ev_n_signals_added = Cardinality(Awaited(q, c))
      BY DEF SignalsCounted
    <3>1. CASE c = b
      <4>1. IsFiniteSet(Awaited(p, b)) /\ Cardinality(Awaited(p, b)) \in Nat
        BY SignalsAreFinite DEF Awaited
      <4>2. Cardinality(Awaited(q, b)) = Cardinality(Awaited(p, b)) - 1
        BY <2>8, <4>1, FS_RemoveElement
      <4>3. Cardinality(S) = 1
        BY FS_Singleton DEF S
      <4>4. q.sig[b].ev_n_signals_added = p.sig[b].ev_n_signals_added - 1
        BY <1>4, <2>3, <4>3 DEF k
      <4>5. p.sig[b].ev_n_signals_added = Cardinality(Awaited(p, b))
        BY DEF SignalsCounted
      <4> QED
        BY <3>1, <4>2, <4>4, <4>5
    <3>2. CASE c # b
      <4>1. Awaited(q, c) = Awaited(p, c) /\ q.sig[c] = p.sig[c]
        BY <1>6, <2>9, <3>2
      <4> QED
        BY <4>1 DEF SignalsCounted
    <3> QED
      BY <3>1, <3>2
  <2>13. \A c \in B : /\ q.sig[c].pipe = p.sig[c].pipe /\ q.sig[c].ncaught = p.sig[c].ncaught
                      /\ q.sig[c].ev_signal_added = p.sig[c].ev_signal_added
    BY <1>4, <2>3, <2>9 DEF Only
  <2> QED
    BY <2>10, <2>11, <2>12, <2>13 DEF q
<1>8. CASE n # 0
  <2>1. q = t
    BY <1>3, <1>5, <1>8
  <2> HIDE DEF q
  <2>2. Awaited(q, b) = Awaited(p, b)
    <3>1. \A x \in Signals : q.sig[b].events[x] > 0 <=> p.sig[b].events[x] > 0
      BY <1>1, <1>2, <1>4, <1>8, <2>1, SMT
    <3> QED
      BY <3>1 DEF Awaited
  <2>3. \A c \in B : Awaited(q, c) = Awaited(p, c)
    BY <1>6, <2>1, <2>2
  <2>4. \A c \in B : /\ q.sig[c].sh_old = p.sig[c].sh_old
                     /\ q.sig[c].ev_n_signals_added = p.sig[c].ev_n_signals_added
                     /\ q.sig[c].ev_signal_added = p.sig[c].ev_signal_added
                     /\ q.sig[c].pipe = p.sig[c].pipe /\ q.sig[c].ncaught = p.sig[c].ncaught
    BY <1>4, <2>1 DEF Only
  <2>5. HandlersGood(q, B)
    BY <1>0, <1>4, <1>5, <2>1, <2>3, <2>4, SMT DEF HandlersGood
  <2> QED
    BY <1>4, <2>1, <2>3, <2>4, <2>5 DEF BaseLed, SignalsCounted, q
<1> QED
  BY <1>7, <1>8

Freed(p, b) ==
    LET e == [p EXCEPT !.sig[b].events = [s \in Signals |-> 0]]
    IN  [evsig_dealloc_(evsig_del(e, b, Awaited(p, b)), b) EXCEPT !.sig[b].alive = FALSE]

(* event_base_free gives back the handler of every signal that the base    *)
(* still waits for, and then finds none saved.                             *)
LEMMA FreeKeeps ==
    ASSUME NEW B, NEW p, HandlersGood(p, B), NEW b \in B
    PROVE  LET q == Freed(p, b)
           IN  /\ HandlersGood(q, B) /\ (BaseLed(p, B) => BaseLed(q, B))
               /\ SignalsCounted(p, B) => SignalsCounted(q, B)
               /\ \A c \in B \ {b} : q.sig[c] = p.sig[c]
<1> DEFINE W == Awaited(p, b)
           zero == [s \in Signals |-> 0]
           e == [p EXCEPT !.sig[b].events = zero]
           d == evsig_del(e, b, W)
           z == evsig_dealloc_(d, b)
           q == [z EXCEPT !.sig[b].alive = FALSE]
<1>0. p \in Processes(B) /\ p.fd = p.base
  BY DEF HandlersGood
<1>1. /\ p.sig[b] \in SigBases /\ p.sig[b].ev_n_signals_added \in Int
      /\ p.sig[b].sh_old \in [Signals -> Handlers] /\ p.handler \in [Signals -> Handlers]
  BY <1>0 DEF Processes, SigBases
<1>2. W \in SUBSET Signals /\ zero \in [Signals -> Nat] /\ \A s \in Signals : zero[s] = 0
  BY DEF Awaited
<1> HIDE DEF W, zero
<1>3. /\ e \in Processes(B) /\ e.handler = p.handler /\ e.base = p.base /\ e.fd = p.fd
      /\ e.sig[b].events = zero /\ e.sig[b].sh_old = p.sig[b].sh_old
      /\ e.sig[b].ev_n_signals_added = p.sig[b].ev_n_signals_added
      /\ \A c \in B \ {b} : e.sig[c] = p.sig[c]
  <2> DEFINE r == [p.sig[b] EXCEPT !.events = zero]
  <2>1. /\ r \in SigBases /\ r.events = zero /\ r.sh_old = p.sig[b].sh_old
        /\ r.ev_n_signals_added = p.sig[b].ev_n_signals_added
    BY <1>1, <1>2 DEF SigBases
  <2>2. e = [p EXCEPT !.sig = [p.sig EXCEPT ![b] = r]]
    OBVIOUS
  <2> HIDE DEF e, r
  <2>3. /\ e \in Processes(B) /\ e.handler = p.handler /\ e.base = p.base /\ e.fd = p.fd
        /\ e.sig[b] = r /\ \A c \in B \ {b} : e.sig[c] = p.sig[c]
    BY <1>0, <2>1, <2>2, PutBase, SMT
  <2> QED
    BY <2>1, <2>3
<1> HIDE DEF e
<1>4. /\ Only(e, d, b, B) /\ d.base = e.base /\ d.fd = e.fd
      /\ d.handler = [x \in Signals |-> IF x \in W THEN e.sig[b].sh_old[x] ELSE e.handler[x]]
      /\ d.sig[b].sh_old = [x \in Signals |-> IF x \in W THEN "null" ELSE e.sig[b].sh_old[x]]
      /\ d.sig[b].ev_n_signals_added = e.sig[b].ev_n_signals_added - Cardinality(W)
      /\ d.sig[b].events = e.sig[b].events
  <2>1. DelDone(e, d, b, W, B)
    BY <1>2, <1>3, DelIs
  <2> HIDE DEF d
  <2> QED
    BY <2>1 DEF DelDone
<1> HIDE DEF d
<1>5. /\ Only(d, z, b, B)
      /\ z.base = (IF d.base = b THEN "none" ELSE d.base)
      /\ z.fd = (IF d.base = b THEN "none" ELSE d.fd)
      /\ z.handler = [s \in Signals |-> IF d.sig[b].sh_old[s] # "null"
                                        THEN d.sig[b].sh_old[s] ELSE d.handler[s]]
      /\ z.sig[b].sh_old = [s \in Signals |-> "null"]
      /\ z.sig[b].events = d.sig[b].events
      /\ z.sig[b].ev_n_signals_added = d.sig[b].ev_n_signals_added
  <2>1. d \in Processes(B)
    BY <1>4 DEF Only
  <2>2. DeallocDone(d, z, b, B)
    BY <2>1, DeallocIs
  <2> HIDE DEF z
  <2> QED
    BY <2>2 DEF DeallocDone
<1> HIDE DEF z
<1>6. /\ q \in Processes(B) /\ q.handler = z.handler /\ q.base = z.base /\ q.fd = z.fd
      /\ q.sig[b].events = z.sig[b].events /\ q.sig[b].sh_old = z.sig[b].sh_old
      /\ q.sig[b].ev_n_signals_added = z.sig[b].ev_n_signals_added
      /\ \A c \in B \ {b} : q.sig[c] = z.sig[c]
  <2> DEFINE r == [z.sig[b] EXCEPT !.alive = FALSE]
  <2>1. z \in Processes(B) /\ z.sig[b] \in SigBases
    BY <1>5 DEF Only, Processes
  <2>2. /\ r \in SigBases /\ r.events = z.sig[b].events /\ r.sh_old = z.sig[b].sh_old
        /\ r.ev_n_signals_added = z.sig[b].ev_n_signals_added
    BY <2>1 DEF SigBases
  <2>3. q = [z EXCEPT !.sig = [z.sig EXCEPT ![b] = r]]
    OBVIOUS
  <2> HIDE DEF q, r
  <2>4. /\ q \in Processes(B) /\ q.handler = z.handler /\ q.base = z.base /\ q.fd = z.fd
        /\ q.sig[b] = r /\ \A c \in B \ {b} : q.sig[c] = z.sig[c]
    BY <2>1, <2>2, <2>3, PutBase, SMT
  <2> QED
    BY <2>2, <2>4
<1> HIDE DEF q
<1>7. \A c \in B \ {b} : q.sig[c] = p.sig[c] /\ Awaited(q, c) = Awaited(p, c)
  <2>1. ASSUME NEW c \in B \ {b} PROVE q.sig[c] = p.sig[c]
    <3>1. d.sig[c] = e.sig[c] /\ z.sig[c] = d.sig[c]
      BY <1>4, <1>5 DEF Only
    <3> QED
      BY <1>3, <1>6, <3>1
  <2> QED
    BY <2>1 DEF Awaited
<1>8. Awaited(q, b) = {}
  <2>1. q.sig[b].events = zero
    BY <1>3, <1>4, <1>5, <1>6
  <2> QED
    BY <1>2, <2>1, SMT DEF Awaited
<1>9. \A s \in Signals : /\ q.sig[b].sh_old[s] = "null"
                         /\ q.handler[s] = IF s \in W THEN "own" ELSE p.handler[s]
  <2>1. \A s \in Signals : p.sig[b].sh_old[s] = IF s \in W THEN "own" ELSE "null"
    BY DEF HandlersGood, W
  <2>2. \A s \in Signals : /\ d.sig[b].sh_old[s] = "null"
                           /\ d.handler[s] = IF s \in W THEN "own" ELSE p.handler[s]
    BY <1>3, <1>4, <2>1, SMTT(20)
  <2> QED
    BY <1>5, <1>6, <2>2, SMT
<1>10. HandlersGood(q, B)
  <2>1. q.fd = q.base
    <3>1. d.fd = d.base
      BY <1>0, <1>3, <1>4
    <3>2. z.fd = z.base
      BY <1>5, <3>1, SMT
    <3> QED
      BY <1>6, <3>2
  <2>2. \A c \in B : Awaited(q, c) \intersect Uncatchable = {}
    BY <1>7, <1>8, SMT DEF HandlersGood
  <2>3. ASSUME NEW c \in B, NEW a \in B, Awaited(q, c) # {}, Awaited(q, a) # {}
        PROVE  c = a
    <3>1. c # b /\ a # b
      BY <1>8, <2>3
    <3>2. Awaited(p, c) # {} /\ Awaited(p, a) # {}
      BY <1>7, <2>3, <3>1
    <3> QED
      BY <3>2 DEF HandlersGood
  <2>4. ASSUME NEW c \in B, NEW x \in Signals
        PROVE  /\ x \in Awaited(q, c) => q.handler[x] = "evsig" /\ q.sig[c].sh_old[x] = "own"
               /\ x \notin Awaited(q, c) => q.sig[c].sh_old[x] = "null"
    <3>1. CASE c = b
      BY <1>8, <1>9, <3>1
    <3>2. CASE c # b
      <4>1. q.sig[c] = p.sig[c] /\ Awaited(q, c) = Awaited(p, c)
        BY <1>7, <3>2
      <4>2. x \in Awaited(p, c) => q.handler[x] = p.handler[x]
        <5>1. x \in Awaited(p, c) => x \notin W
          BY <3>2 DEF HandlersGood, W
        <5> QED
          BY <1>9, <5>1
      <4> QED
        BY <4>1, <4>2, SMT DEF HandlersGood
    <3> QED
      BY <3>1, <3>2
  <2>5. ASSUME NEW x \in Signals, \A c \in B : x \notin Awaited(q, c)
        PROVE  q.handler[x] = "own"
    <3>1. CASE x \in W
      BY <1>9, <3>1
    <3>2. CASE x \notin W
      <4>1. \A c \in B : x \notin Awaited(p, c)
        BY <1>7, <2>5, <3>2 DEF W
      <4> QED
        BY <1>9, <3>2, <4>1, SMT DEF HandlersGood
    <3> QED
      BY <3>1, <3>2
  <2> QED
    BY <1>6, <2>1, <2>2, <2>3, <2>4, <2>5, SMTT(20) DEF HandlersGood
<1>11. BaseLed(p, B) => BaseLed(q, B)
  <2>1. q.base = IF p.base = b THEN "none" ELSE p.base
    BY <1>3, <1>4, <1>5, <1>6
  <2> QED
    BY <1>7, <1>8, <2>1 DEF BaseLed
<1>12. SignalsCounted(p, B) => SignalsCounted(q, B)
  <2>1. Cardinality({}) = 0 /\ Cardinality(W) \in Nat
    BY <1>2, FS_EmptySet, SignalsAreFinite
  <2>2. q.sig[b].ev_n_signals_added = p.sig[b].ev_n_signals_added - Cardinality(W)
    BY <1>3, <1>4, <1>5, <1>6
  <2>3. SignalsCounted(p, B) => q.sig[b].ev_n_signals_added = 0
    BY <2>1, <2>2, SMT DEF SignalsCounted, W
  <2> QED
    BY <1>7, <1>8, <2>1, <2>3 DEF SignalsCounted
<1>13. q = Freed(p, b)
  BY DEF Freed, q, z, d, e, W, zero
<1> QED
  BY <1>7, <1>10, <1>11, <1>12, <1>13

(* event_reinit gives every handler back and takes it again, so that the   *)
(* base that waits for signals is the one whose pipe is written to.        *)
LEMMA ReinitKeeps ==
    ASSUME NEW B, NEW p, HandlersGood(p, B), NEW b \in B
    PROVE  LET q == SigAdded(evsig_dealloc_(p, b), b, Awaited(p, b))
           IN  /\ HandlersGood(q, B) /\ (BaseLed(p, B) => BaseLed(q, B))
               /\ \A c \in B \ {b} : q.sig[c] = p.sig[c]
<1> DEFINE W == Awaited(p, b)
           t == evsig_dealloc_(p, b)
           q == SigAdded(t, b, W)
<1>0. p \in Processes(B) /\ p.fd = p.base
  BY DEF HandlersGood
<1>1. W \in SUBSET Signals /\ W \ Uncatchable = W
  BY DEF Awaited, HandlersGood
<1> HIDE DEF W
<1>2. /\ Only(p, t, b, B)
      /\ t.base = (IF p.base = b THEN "none" ELSE p.base)
      /\ t.fd = (IF p.base = b THEN "none" ELSE p.fd)
      /\ t.handler = [s \in Signals |-> IF p.sig[b].sh_old[s] # "null"
                                        THEN p.sig[b].sh_old[s] ELSE p.handler[s]]
      /\ t.sig[b].sh_old = [s \in Signals |-> "null"]
      /\ t.sig[b].events = p.sig[b].events
  <2>1. DeallocDone(p, t, b, B)
    BY <1>0, DeallocIs
  <2> HIDE DEF t
  <2> QED
    BY <2>1 DEF DeallocDone
<1> HIDE DEF t
<1>3. t \in Processes(B) /\ t.fd = t.base /\ \A c \in B \ {b} : t.sig[c] = p.sig[c]
  BY <1>0, <1>2, SMT DEF Only
<1>4. \A s \in Signals : /\ t.handler[s] = (IF s \in W THEN "own" ELSE p.handler[s])
                         /\ t.sig[b].sh_old[s] = "null"
  <2>1. \A s \in Signals : p.sig[b].sh_old[s] = IF s \in W THEN "own" ELSE "null"
    BY DEF HandlersGood, W
  <2> QED
    BY <1>2, <2>1
<1>5. /\ q \in Processes(B) /\ q.fd = q.base /\ q.sig[b].events = p.sig[b].events
      /\ \A c \in B \ {b} : q.sig[c] = p.sig[c]
      /\ \A s \in Signals : /\ q.handler[s] = (IF s \in W THEN "evsig" ELSE p.handler[s])
                            /\ q.sig[b].sh_old[s] = (IF s \in W THEN "own" ELSE "null")
      /\ W = {} => q.base = t.base
      /\ W # {} => q.base = b /\ q.sig[b].ev_signal_added = TRUE
  <2>1. CASE W = {}
    <3>1. q = t
      BY <2>1 DEF SigAdded, evsig_add
    <3> HIDE DEF q
    <3> QED
      BY <1>2, <1>3, <1>4, <2>1, <3>1
  <2>2. CASE W # {}
    <3> HIDE DEF q
    <3> DEFINE A == W \ Uncatchable
    <3>1. /\ Only(t, q, b, B) /\ q.base = b /\ q.fd = b
          /\ q.handler = [x \in Signals |-> IF x \in A THEN "evsig" ELSE t.handler[x]]
          /\ q.sig[b].sh_old =
                [x \in Signals |-> IF x \in A THEN t.handler[x] ELSE t.sig[b].sh_old[x]]
          /\ q.sig[b].events = t.sig[b].events
          /\ q.sig[b].ev_signal_added \in BOOLEAN
          /\ q.sig[b].ev_signal_added <=> (t.sig[b].ev_signal_added \/ A # {})
      <4>1. AddDone(t, q, b, A, B)
        BY <1>1, <1>3, <2>2, AddIs DEF q
      <4> HIDE DEF A
      <4> QED
        BY <4>1 DEF AddDone
    <3>2. A = W
      BY <1>1
    <3> HIDE DEF A
    <3>3. \A s \in Signals : /\ q.handler[s] = (IF s \in W THEN "evsig" ELSE p.handler[s])
                             /\ q.sig[b].sh_old[s] = (IF s \in W THEN "own" ELSE "null")
      BY <1>4, <3>1, <3>2, SMT
    <3>4. q.sig[b].ev_signal_added = TRUE
      BY <2>2, <3>1, <3>2
    <3>5. q \in Processes(B) /\ \A c \in B \ {b} : q.sig[c] = p.sig[c]
      BY <1>3, <3>1 DEF Only
    <3> QED
      BY <1>2, <2>2, <3>1, <3>3, <3>4, <3>5
  <2> QED
    BY <2>1, <2>2
<1> HIDE DEF q
<1>6. \A c \in B : Awaited(q, c) = Awaited(p, c)
  BY <1>5, SMT DEF Awaited
<1>7. W # {} => \A c \in B \ {b} : Awaited(p, c) = {}
  BY DEF HandlersGood, W
<1>8. HandlersGood(q, B)
  <2>1. ASSUME NEW c \in B, NEW x \in Signals
        PROVE  /\ x \in Awaited(q, c) => q.handler[x] = "evsig" /\ q.sig[c].sh_old[x] = "own"
               /\ x \notin Awaited(q, c) => q.sig[c].sh_old[x] = "null"
    <3>1. CASE c = b
      BY <1>5, <1>6, <3>1 DEF W
    <3>2. CASE c # b
      <4>1. q.sig[c] = p.sig[c] /\ Awaited(q, c) = Awaited(p, c)
        BY <1>5, <1>6, <3>2
      <4>2. x \in Awaited(p, c) => q.handler[x] = p.handler[x]
        BY <1>5, <1>7, <3>2
      <4> QED
        BY <4>1, <4>2, SMT DEF HandlersGood
    <3> QED
      BY <3>1, <3>2
  <2>2. ASSUME NEW x \in Signals, \A c \in B : x \notin Awaited(q, c)
        PROVE  q.handler[x] = "own"
    <3>1. x \notin W /\ \A c \in B : x \notin Awaited(p, c)
      BY <1>6, <2>2 DEF W
    <3> QED
      BY <1>5, <3>1, SMT DEF HandlersGood
  <2>3. /\ \A c \in B : Awaited(q, c) \intersect Uncatchable = {}
        /\ \A c, d \in B : Awaited(q, c) # {} /\ Awaited(q, d) # {} => c = d
    BY <1>6 DEF HandlersGood
  <2> QED
    BY <1>5, <2>1, <2>2, <2>3 DEF HandlersGood
<1>9. BaseLed(p, B) => BaseLed(q, B)
  <2> SUFFICES ASSUME BaseLed(p, B), NEW c \in B, Awaited(q, c) # {}
               PROVE  q.base = c /\ q.sig[c].ev_signal_added = TRUE
    BY DEF BaseLed
  <2>1. Awaited(p, c) # {} /\ p.base = c /\ p.sig[c].ev_signal_added = TRUE
    BY <1>6 DEF BaseLed
  <2>2. CASE c = b
    BY <1>5, <2>1, <2>2 DEF W
  <2>3. CASE c # b
    <3>1. W = {}
      BY <1>7, <2>1, <2>3
    <3> QED
      BY <1>2, <1>5, <2>1, <2>3, <3>1
  <2> QED
    BY <2>2, <2>3
<1> QED
  BY <1>5, <1>8, <1>9 DEF q, t, W

-----------------------------------------------------------------------------
HandlersInv == life \in Lives /\ HandlersGood(Process, life.bases)

(* A signal is not lost only if evsig_base names the base that waits for   *)
(* it.  event_base_loop gives the place to any base that counts signals,   *)
(* so that the count must be right; event_reinit counts twice.             *)
ArrivalInv ==
    /\ HandlersInv /\ BaseLed(Process, life.bases)
    /\ life.reinits = 0 => SignalsCounted(Process, life.bases)
    /\ reinits \in Nat /\ owed \subseteq life.bases \X Signals
    /\ SignalsArrive

(* The programs of the theorems: one base at a time has signals, and the   *)
(* pipe can be polled.                                                     *)
CarefulLives == \A l \in Lives : l.both = FALSE /\ l.nomem = FALSE

(* A new state of signal.c, seen as a record. *)
LEMMA BecomesIs ==
    ASSUME NEW B, NEW q \in Processes(B), BecomesProcess(q)
    PROVE  Process' = q
BY DEF BecomesProcess, Process, Processes

(* The parts of the record are the variables. *)
LEMMA ProcessIs ==
    /\ Process.handler = handler /\ Process.base = evsig_base
    /\ Process.fd = evsig_base_fd /\ Process.sig = sig
BY DEF Process

(* A signal that base r waits for is in its pipe or read from it. *)
OnTheWay(r, s) == r.ev_signal_added = TRUE /\ s \in Range(r.pipe) \union r.ncaught

(* A step keeps the handlers good, and evsig_base and the counts right. *)
GoodKept == life' = life /\ HandlersInv'
LedKept == BaseLed(Process, life.bases) => BaseLed(Process', life.bases)
CountKept == SignalsCounted(Process, life.bases) => SignalsCounted(Process', life.bases)
NothingLost(c) == \A s \in Signals : OnTheWay(sig[c], s) => OnTheWay(sig'[c], s)

(* event_add of a signal event by the only base that may have any. *)
LEMMA AddStep ==
    ASSUME CarefulLives, HandlersInv, AddSignal
    PROVE  GoodKept /\ LedKept /\ CountKept /\ \A c \in life.bases : NothingLost(c)
<1> DEFINE B == life.bases
           p == Process
<1>1. HandlersGood(p, B) /\ life \in Lives
  BY DEF HandlersInv
<1>2. PICK b \in B, s \in Signals :
         /\ \A c \in B \ {b} : Awaited(p, c) = {}
         /\ BecomesProcess(evmap_signal_add_(p, b, s, FALSE))
  <2>1. life.both = FALSE /\ life.nomem = FALSE
    BY <1>1 DEF CarefulLives
  <2> HIDE DEF B, p
  <2>2. PICK b \in B, s \in Signals, nomem \in BOOLEAN :
           /\ nomem => life.nomem
           /\ life.both \/ \A c \in B \ {b} : Awaited(p, c) = {}
           /\ BecomesProcess(evmap_signal_add_(p, b, s, nomem))
    BY DEF AddSignal, B, p
  <2>3. nomem = FALSE
    BY <2>1, <2>2
  <2>4. BecomesProcess(evmap_signal_add_(p, b, s, FALSE))
    BY <2>2, <2>3
  <2>5. \A c \in B \ {b} : Awaited(p, c) = {}
    BY <2>1, <2>2
  <2> QED
    BY <2>4, <2>5
<1>3. life' = life
  BY DEF AddSignal
<1> DEFINE q == evmap_signal_add_(p, b, s, FALSE)
<1>4. p.sig = sig
  BY ProcessIs
<1> HIDE DEF p, B
<1>5. /\ HandlersGood(q, B) /\ (BaseLed(p, B) => BaseLed(q, B))
      /\ SignalsCounted(p, B) => SignalsCounted(q, B)
      /\ \A c \in B : /\ q.sig[c].pipe = p.sig[c].pipe
                      /\ q.sig[c].ncaught = p.sig[c].ncaught
                      /\ p.sig[c].ev_signal_added = TRUE => q.sig[c].ev_signal_added = TRUE
  BY <1>1, <1>2, AddKeeps
<1>6. BecomesProcess(q)
  BY <1>2
<1> HIDE DEF q
<1>7. Process' = q /\ sig' = q.sig
  BY <1>5, <1>6, BecomesIs DEF HandlersGood, BecomesProcess
<1>8. GoodKept
  BY <1>1, <1>3, <1>5, <1>7 DEF GoodKept, HandlersInv, B
<1>9. LedKept /\ CountKept
  BY <1>5, <1>7 DEF LedKept, CountKept, p, B
<1>10. \A c \in B : NothingLost(c)
  BY <1>4, <1>5, <1>7 DEF NothingLost, OnTheWay
<1> QED
  BY <1>8, <1>9, <1>10 DEF B

(* event_del of a signal event. *)
LEMMA DelStep ==
    ASSUME HandlersInv, DelSignal
    PROVE  GoodKept /\ LedKept /\ CountKept /\ \A c \in life.bases : NothingLost(c)
<1> DEFINE B == life.bases
           p == Process
<1>1. HandlersGood(p, B) /\ life \in Lives
  BY DEF HandlersInv
<1>2. PICK b \in B : \E s \in Awaited(p, b) : BecomesProcess(evmap_signal_del_(p, b, s))
  BY DEF DelSignal
<1>0. PICK s \in Awaited(p, b) : BecomesProcess(evmap_signal_del_(p, b, s))
  BY <1>2
<1>3. life' = life
  BY DEF DelSignal
<1> DEFINE q == evmap_signal_del_(p, b, s)
<1>4. p.sig = sig
  BY ProcessIs
<1> HIDE DEF p, B
<1>5. /\ HandlersGood(q, B) /\ (BaseLed(p, B) => BaseLed(q, B))
      /\ SignalsCounted(p, B) => SignalsCounted(q, B)
      /\ \A c \in B : /\ q.sig[c].pipe = p.sig[c].pipe
                      /\ q.sig[c].ncaught = p.sig[c].ncaught
                      /\ q.sig[c].ev_signal_added = p.sig[c].ev_signal_added
  BY <1>1, <1>2, DelKeeps, SMT
<1>6. BecomesProcess(q)
  BY <1>0
<1> HIDE DEF q
<1>7. Process' = q /\ sig' = q.sig
  BY <1>5, <1>6, BecomesIs DEF HandlersGood, BecomesProcess
<1>8. GoodKept
  BY <1>1, <1>3, <1>5, <1>7 DEF GoodKept, HandlersInv, B
<1>9. LedKept /\ CountKept
  BY <1>5, <1>7 DEF LedKept, CountKept, p, B
<1>10. \A c \in B : NothingLost(c)
  BY <1>4, <1>5, <1>7 DEF NothingLost, OnTheWay
<1> QED
  BY <1>8, <1>9, <1>10 DEF B

(* event_base_free: the other bases lose nothing. *)
LEMMA FreeStep ==
    ASSUME HandlersInv, FreeBase
    PROVE  /\ GoodKept /\ LedKept /\ CountKept
           /\ \E b \in life.bases : /\ owed' = {x \in owed : x[1] # b}
                                    /\ \A c \in life.bases \ {b} : NothingLost(c)
<1> DEFINE B == life.bases
           p == Process
<1>1. HandlersGood(p, B) /\ life \in Lives
  BY DEF HandlersInv
<1> DEFINE q(b) == Freed(p, b)
<1>2. PICK b \in B : BecomesProcess(q(b)) /\ owed' = {x \in owed : x[1] # b} /\ life' = life
  BY DEF FreeBase, Freed
<1>4. p.sig = sig
  BY ProcessIs
<1> HIDE DEF p, B
<1>5. /\ HandlersGood(q(b), B) /\ (BaseLed(p, B) => BaseLed(q(b), B))
      /\ SignalsCounted(p, B) => SignalsCounted(q(b), B)
      /\ \A c \in B \ {b} : q(b).sig[c] = p.sig[c]
  BY <1>1, FreeKeeps, SMT
<1> HIDE DEF q
<1>7. Process' = q(b) /\ sig' = q(b).sig
  BY <1>2, <1>5, BecomesIs DEF HandlersGood, BecomesProcess
<1>8. GoodKept
  BY <1>1, <1>2, <1>5, <1>7 DEF GoodKept, HandlersInv, B
<1>9. LedKept /\ CountKept
  BY <1>5, <1>7 DEF LedKept, CountKept, p, B
<1>10. \A c \in B \ {b} : NothingLost(c)
  BY <1>4, <1>5, <1>7 DEF NothingLost, OnTheWay
<1> QED
  BY <1>2, <1>8, <1>9, <1>10 DEF B

(* event_reinit: the other bases lose nothing. *)
LEMMA ReinitStep ==
    ASSUME HandlersInv, ReinitBase
    PROVE  /\ GoodKept /\ LedKept /\ reinits < life.reinits /\ reinits' = reinits + 1
           /\ \E b \in life.bases : /\ owed' = {x \in owed : x[1] # b}
                                    /\ \A c \in life.bases \ {b} : NothingLost(c)
<1> DEFINE B == life.bases
           p == Process
           q(b) == SigAdded(evsig_dealloc_(p, b), b, Awaited(p, b))
<1>1. HandlersGood(p, B) /\ life \in Lives
  BY DEF HandlersInv
<1>2. PICK b \in B : /\ BecomesProcess(q(b)) /\ owed' = {x \in owed : x[1] # b} /\ life' = life
                     /\ reinits < life.reinits /\ reinits' = reinits + 1
  BY DEF ReinitBase, SigAdded
<1>4. p.sig = sig
  BY ProcessIs
<1> HIDE DEF p, B
<1>5. /\ HandlersGood(q(b), B) /\ (BaseLed(p, B) => BaseLed(q(b), B))
      /\ \A c \in B \ {b} : q(b).sig[c] = p.sig[c]
  BY <1>1, ReinitKeeps, SMT
<1> HIDE DEF q
<1>7. Process' = q(b) /\ sig' = q(b).sig
  BY <1>2, <1>5, BecomesIs DEF HandlersGood, BecomesProcess
<1>8. GoodKept
  BY <1>1, <1>2, <1>5, <1>7 DEF GoodKept, HandlersInv, B
<1>9. LedKept
  BY <1>5, <1>7 DEF LedKept, p, B
<1>10. \A c \in B \ {b} : NothingLost(c)
  BY <1>4, <1>5, <1>7 DEF NothingLost, OnTheWay
<1> QED
  BY <1>2, <1>8, <1>9, <1>10 DEF B

-----------------------------------------------------------------------------
(* The steps of the signal handler and of the loop touch no handler. *)

(* Another base takes the place of sig[b], with the same events. *)
LEMMA BaseKept ==
    ASSUME HandlersInv, NEW b \in life.bases, NEW r \in SigBases,
           r.events = sig[b].events, r.sh_old = sig[b].sh_old,
           sig' = [sig EXCEPT ![b] = r],
           UNCHANGED <<life, handler, evsig_base, evsig_base_fd>>
    PROVE  /\ GoodKept /\ sig'[b] = r /\ \A c \in life.bases \ {b} : sig'[c] = sig[c]
           /\ r.ev_signal_added = sig[b].ev_signal_added => LedKept
           /\ r.ev_n_signals_added = sig[b].ev_n_signals_added => CountKept
<1> DEFINE B == life.bases
           p == Process
           q == Process'
<1>1. HandlersGood(p, B) /\ p \in Processes(B) /\ life \in Lives
  BY DEF HandlersInv, HandlersGood
<1>2. p.handler = handler /\ p.base = evsig_base /\ p.fd = evsig_base_fd /\ p.sig = sig
  BY ProcessIs
<1>3. q = [p EXCEPT !.sig = [p.sig EXCEPT ![b] = r]]
  BY SMT DEF Process
<1> HIDE DEF p, q, B
<1>4. b \in B
  BY DEF B
<1>5. /\ q \in Processes(B) /\ q.handler = p.handler /\ q.base = p.base /\ q.fd = p.fd
      /\ q.sig[b] = r /\ \A c \in B \ {b} : q.sig[c] = p.sig[c]
  BY <1>1, <1>3, <1>4, PutBase, SMT
<1>6. \A c \in B : q.sig[c].events = p.sig[c].events /\ q.sig[c].sh_old = p.sig[c].sh_old
  BY <1>2, <1>5
<1>7. p.fd = p.base
  BY <1>1 DEF HandlersGood
<1>8. HandlersGood(q, B) /\ \A c \in B : Awaited(q, c) = Awaited(p, c)
  BY <1>1, <1>5, <1>6, <1>7, HandlersKept, SMTT(20)
<1>9. GoodKept
  BY <1>1, <1>8 DEF GoodKept, HandlersInv, q, B
<1>10. r.ev_signal_added = sig[b].ev_signal_added => LedKept
  BY <1>2, <1>5, <1>8 DEF LedKept, BaseLed, p, q, B
<1>11. r.ev_n_signals_added = sig[b].ev_n_signals_added => CountKept
  BY <1>2, <1>5, <1>8 DEF CountKept, SignalsCounted, p, q, B
<1>12. sig'[b] = r /\ \A c \in life.bases \ {b} : sig'[c] = sig[c]
  BY <1>1, <1>2 DEF Processes, B
<1> QED
  BY <1>9, <1>10, <1>11, <1>12

(* What a pipe holds after a write. *)
LEMMA PipeHolds ==
    ASSUME NEW q \in Seq(Signals), NEW s \in Signals
    PROVE  /\ Append(q, s) \in Seq(Signals)
           /\ s \in Range(Append(q, s)) /\ Range(q) \subseteq Range(Append(q, s))
<1>1. /\ Append(q, s) \in Seq(Signals) /\ Len(Append(q, s)) = Len(q) + 1
      /\ Append(q, s)[Len(q) + 1] = s /\ \A i \in 1 .. Len(q) : Append(q, s)[i] = q[i]
  BY SMT
<1>2. DOMAIN Append(q, s) = 1 .. Len(q) + 1 /\ DOMAIN q = 1 .. Len(q) /\ Len(q) \in Nat
  BY <1>1, SMT
<1> DEFINE a == Append(q, s)
<1> HIDE DEF a
<1>3. s \in Range(a)
  <2>1. Len(q) + 1 \in DOMAIN a /\ a[Len(q) + 1] = s
    BY <1>1, <1>2, SMT DEF a
  <2> QED
    BY <2>1 DEF Range
<1>4. ASSUME NEW i \in DOMAIN q PROVE q[i] \in Range(a)
  <2>1. i \in DOMAIN a /\ a[i] = q[i]
    BY <1>1, <1>2, SMT DEF a
  <2> QED
    BY <2>1 DEF Range
<1> QED
  BY <1>1, <1>3, <1>4 DEF Range, a

(* A signal comes: whoever waits for it finds it in the pipe. *)
LEMMA HandlerStep ==
    ASSUME HandlersInv, evsig_handler
    PROVE  /\ GoodKept /\ LedKept /\ CountKept /\ reinits' = reinits
           /\ \A c \in life.bases : NothingLost(c)
           /\ BaseLed(Process, life.bases) =>
                 \A x \in owed' \ owed : /\ x \in life.bases \X Signals
                                         /\ OnTheWay(sig'[x[1]], x[2])
<1> DEFINE B == life.bases
           f == evsig_base_fd
           full == f # "none" /\ Len(sig[f].pipe) = PIPE
<1>1. PICK s \in Signals \ Uncatchable :
         /\ sig' = IF handler[s] = "evsig" /\ evsig_base # "none" /\ ~full
                   THEN [sig EXCEPT ![f].pipe = Append(@, s)] ELSE sig
         /\ owed' = IF full THEN owed
                    ELSE owed \union {<<b, s>> : b \in {c \in B : s \in Awaited(Process, c)}}
         /\ UNCHANGED <<life, handler, evsig_base, evsig_base_fd, reinits>>
  BY DEF evsig_handler
<1>2. /\ HandlersGood(Process, B) /\ life \in Lives /\ f = evsig_base /\ f \in B \union {"none"}
      /\ sig \in [B -> SigBases]
  BY ProcessIs DEF HandlersInv, HandlersGood, Processes
<1>3. CASE handler[s] = "evsig" /\ evsig_base # "none" /\ ~full
  <2> DEFINE a == Append(sig[f].pipe, s)
             r == [sig[f] EXCEPT !.pipe = a]
  <2>1. f \in B /\ sig[f] \in SigBases /\ sig[f].pipe \in Seq(Signals)
    BY <1>2, <1>3 DEF SigBases
  <2>2. a \in Seq(Signals) /\ s \in Range(a) /\ Range(sig[f].pipe) \subseteq Range(a)
    BY <2>1, PipeHolds
  <2>3. sig' = [sig EXCEPT ![f] = r]
    BY <1>1, <1>3
  <2> HIDE DEF a
  <2>4. /\ r \in SigBases /\ r.events = sig[f].events /\ r.sh_old = sig[f].sh_old /\ r.pipe = a
        /\ r.ev_signal_added = sig[f].ev_signal_added /\ r.ncaught = sig[f].ncaught
        /\ r.ev_n_signals_added = sig[f].ev_n_signals_added
    BY <2>1, <2>2 DEF SigBases
  <2> HIDE DEF r
  <2>5. /\ GoodKept /\ sig'[f] = r /\ \A c \in B \ {f} : sig'[c] = sig[c]
        /\ LedKept /\ CountKept
    BY <1>1, <2>1, <2>3, <2>4, BaseKept
  <2>6. \A c \in B : NothingLost(c)
    BY <2>2, <2>4, <2>5 DEF NothingLost, OnTheWay
  <2>7. ASSUME BaseLed(Process, B), NEW x \in owed' \ owed
        PROVE  x \in B \X Signals /\ OnTheWay(sig'[x[1]], x[2])
    <3>1. PICK b \in B : x = <<b, s>> /\ s \in Awaited(Process, b)
      BY <1>1, <2>7
    <3>2. b = f /\ sig[b].ev_signal_added = TRUE
      BY <1>2, <2>7, <3>1, ProcessIs DEF BaseLed
    <3> QED
      BY <2>2, <2>4, <2>5, <3>1, <3>2 DEF OnTheWay
  <2> QED
    BY <1>1, <2>5, <2>6, <2>7
<1>4. CASE ~(handler[s] = "evsig" /\ evsig_base # "none" /\ ~full)
  <2>1. sig' = sig
    BY <1>1, <1>4
  <2>2. Process' = Process
    BY <1>1, <2>1 DEF Process
  <2>3. GoodKept /\ LedKept /\ CountKept
    BY <1>1, <2>2 DEF GoodKept, LedKept, CountKept, HandlersInv
  <2>4. \A c \in B : NothingLost(c)
    BY <2>1 DEF NothingLost
  <2>5. ASSUME BaseLed(Process, B) PROVE owed' \ owed = {}
    <3>1. CASE full
      BY <1>1, <3>1
    <3>2. CASE ~full
      <4>1. ASSUME NEW b \in B PROVE s \notin Awaited(Process, b)
        <5> SUFFICES ASSUME s \in Awaited(Process, b) PROVE FALSE
          OBVIOUS
        <5>1. handler[s] = "evsig" /\ evsig_base = b
          BY <1>2, <2>5, ProcessIs DEF HandlersGood, BaseLed
        <5>2. b # "none"
          BY <1>2, SignalsAssumption
        <5> QED
          BY <1>4, <3>2, <5>1, <5>2
      <4> QED
        BY <1>1, <3>2, <4>1
    <3> QED
      BY <3>1, <3>2
  <2> QED
    BY <1>1, <2>3, <2>4, <2>5
<1> QED
  BY <1>3, <1>4

(* evsig_cb reads everything that is in the pipe. *)
LEMMA CbStep ==
    ASSUME HandlersInv, evsig_cb
    PROVE  /\ GoodKept /\ LedKept /\ CountKept /\ owed' = owed /\ reinits' = reinits
           /\ \A c \in life.bases : NothingLost(c)
<1> DEFINE caught(b) == Range(sig[b].pipe)
           empty == <<>>
<1>1. PICK b \in life.bases :
         /\ sig[b].ncaught = {}
         /\ sig' = [sig EXCEPT ![b].pipe = empty, ![b].ncaught = caught(b)]
         /\ UNCHANGED <<life, handler, evsig_base, evsig_base_fd, owed, reinits>>
  BY DEF evsig_cb, Caught
<1>2. sig \in [life.bases -> SigBases] /\ sig[b] \in SigBases
  BY ProcessIs DEF HandlersInv, HandlersGood, Processes
<1> DEFINE r == [sig[b] EXCEPT !.pipe = empty, !.ncaught = caught(b)]
<1>3. caught(b) \in SUBSET Signals /\ empty \in Seq(Signals)
  <2>1. sig[b].pipe \in Seq(Signals)
    BY <1>2 DEF SigBases
  <2>2. \A i \in DOMAIN sig[b].pipe : sig[b].pipe[i] \in Signals
    BY <2>1, SMT
  <2> QED
    BY <2>2, SMT DEF Range
<1> HIDE DEF caught, empty
<1>4. sig' = [sig EXCEPT ![b] = r]
  BY <1>1, <1>2
<1>5. /\ r \in SigBases /\ r.events = sig[b].events /\ r.sh_old = sig[b].sh_old
      /\ r.ev_signal_added = sig[b].ev_signal_added /\ r.ncaught = caught(b)
      /\ r.ev_n_signals_added = sig[b].ev_n_signals_added
  BY <1>2, <1>3 DEF SigBases
<1> HIDE DEF r
<1>6. /\ GoodKept /\ sig'[b] = r /\ \A c \in life.bases \ {b} : sig'[c] = sig[c]
      /\ LedKept /\ CountKept
  BY <1>1, <1>4, <1>5, BaseKept
<1>7. \A c \in life.bases : NothingLost(c)
  <2>1. ASSUME NEW s \in Signals, OnTheWay(sig[b], s)
        PROVE  OnTheWay(sig'[b], s)
    <3>1. sig[b].ev_signal_added = TRUE /\ s \in caught(b)
      BY <1>1, <2>1 DEF OnTheWay, caught
    <3> QED
      BY <1>5, <1>6, <3>1 DEF OnTheWay
  <2> QED
    BY <1>6, <2>1 DEF NothingLost
<1> QED
  BY <1>1, <1>6, <1>7

(* The loop activates the events of the signals that were read. *)
LEMMA ActiveStep ==
    ASSUME HandlersInv, evmap_signal_active_
    PROVE  /\ GoodKept /\ LedKept /\ CountKept /\ reinits' = reinits /\ owed' \subseteq owed
           /\ \A x \in owed' : x \in life.bases \X Signals =>
                 (OnTheWay(sig[x[1]], x[2]) => OnTheWay(sig'[x[1]], x[2]))
<1>1. PICK b \in life.bases :
         /\ sig' = [sig EXCEPT ![b].ncaught = {}] /\ owed' = owed \ ({b} \X sig[b].ncaught)
         /\ UNCHANGED <<life, handler, evsig_base, evsig_base_fd, reinits>>
  BY DEF evmap_signal_active_
<1>2. sig \in [life.bases -> SigBases] /\ sig[b] \in SigBases
  BY ProcessIs DEF HandlersInv, HandlersGood, Processes
<1> DEFINE r == [sig[b] EXCEPT !.ncaught = {}]
<1>4. sig' = [sig EXCEPT ![b] = r]
  BY <1>1, <1>2
<1>5. /\ r \in SigBases /\ r.events = sig[b].events /\ r.sh_old = sig[b].sh_old
      /\ r.ev_signal_added = sig[b].ev_signal_added /\ r.pipe = sig[b].pipe
      /\ r.ev_n_signals_added = sig[b].ev_n_signals_added
  BY <1>2 DEF SigBases
<1> HIDE DEF r
<1>6. /\ GoodKept /\ sig'[b] = r /\ \A c \in life.bases \ {b} : sig'[c] = sig[c]
      /\ LedKept /\ CountKept
  BY <1>1, <1>4, <1>5, BaseKept
<1>7. ASSUME NEW x \in owed', x \in life.bases \X Signals, OnTheWay(sig[x[1]], x[2])
      PROVE  OnTheWay(sig'[x[1]], x[2])
  <2>1. x[1] \in life.bases /\ x = <<x[1], x[2]>>
    BY <1>7, SMT
  <2>2. CASE x[1] = b
    <3>1. x[2] \notin sig[b].ncaught
      BY <1>1, <1>7, <2>1, <2>2
    <3> QED
      BY <1>5, <1>6, <1>7, <2>2, <3>1 DEF OnTheWay
  <2>3. CASE x[1] # b
    BY <1>6, <1>7, <2>1, <2>3
  <2> QED
    BY <2>2, <2>3
<1> QED
  BY <1>1, <1>6, <1>7

(* event_base_loop makes its base the one that signals are written to; if  *)
(* it counts signals, no other base waits for any.                         *)
LEMMA LoopBeginsStep ==
    ASSUME HandlersInv, LoopBegins
    PROVE  /\ GoodKept /\ CountKept /\ owed' = owed /\ reinits' = reinits
           /\ \A c \in life.bases : NothingLost(c)
           /\ SignalsCounted(Process, life.bases) \/ (\E b : life.bases = {b}) => LedKept
<1> DEFINE B == life.bases
           p == Process
           q(b) == evsig_set_base_(p, b)
<1>1. HandlersGood(p, B) /\ p \in Processes(B) /\ life \in Lives
  BY DEF HandlersInv, HandlersGood
<1>2. PICK b \in B : /\ sig[b].ev_n_signals_added > 0 /\ BecomesProcess(q(b))
                     /\ UNCHANGED <<life, owed, reinits>>
  BY DEF LoopBegins
<1>3. p.sig = sig
  BY ProcessIs
<1> HIDE DEF p, B
<1>4. /\ q(b) \in Processes(B) /\ q(b).fd = b /\ q(b).base = b
      /\ q(b).handler = p.handler /\ q(b).sig = p.sig
  BY <1>1 DEF evsig_set_base_, Processes
<1> HIDE DEF q
<1>5. HandlersGood(q(b), B) /\ \A c \in B : Awaited(q(b), c) = Awaited(p, c)
  BY <1>1, <1>4, HandlersKept, SMT
<1>6. Process' = q(b) /\ sig' = sig
  BY <1>2, <1>3, <1>4, BecomesIs DEF BecomesProcess
<1>7. GoodKept
  BY <1>1, <1>2, <1>5, <1>6 DEF GoodKept, HandlersInv, B
<1>8. CountKept
  BY <1>4, <1>5, <1>6 DEF CountKept, SignalsCounted, p, B
<1>9. \A c \in B : NothingLost(c)
  BY <1>6 DEF NothingLost
<1>10. ASSUME SignalsCounted(p, B) \/ (\E c : B = {c}), BaseLed(p, B) PROVE BaseLed(q(b), B)
  <2>1. ASSUME NEW c \in B, Awaited(p, c) # {} PROVE c = b
    <3>1. CASE \E d : B = {d}
      BY <3>1, SMT
    <3>2. CASE SignalsCounted(p, B)
      <4>1. Cardinality(Awaited(p, b)) > 0
        BY <1>2, <1>3, <3>2 DEF SignalsCounted
      <4>2. Awaited(p, b) # {}
        BY <4>1, FS_EmptySet, SMT
      <4> QED
        BY <1>1, <2>1, <4>2 DEF HandlersGood
    <3> QED
      BY <1>10, <3>1, <3>2
  <2> QED
    BY <1>4, <1>5, <1>10, <2>1 DEF BaseLed
<1>11. SignalsCounted(p, B) \/ (\E c : B = {c}) => LedKept
  BY <1>6, <1>10 DEF LedKept, p, B
<1> QED
  BY <1>2, <1>7, <1>8, <1>9, <1>11 DEF p, B

-----------------------------------------------------------------------------
(* No base has signals in the beginning. *)
LEMMA SigInitInv ==
    ASSUME SigInit
    PROVE  ArrivalInv
<1> DEFINE B == life.bases
           p == Process
<1>1. life \in Lives /\ owed = {} /\ reinits = 0
  BY DEF SigInit
<1>2. NewBase \in SigBases
  <2> DEFINE empty == <<>>
  <2>1. empty \in Seq(Signals)
    BY SMT
  <2>2. [s \in Signals |-> 0] \in [Signals -> Nat] /\ [s \in Signals |-> "null"] \in [Signals -> Handlers]
    BY DEF Handlers
  <2> QED
    BY <2>1, <2>2, SMT DEF NewBase, SigBases
<1>3. p \in Processes(B) /\ p.base = p.fd
  BY <1>2 DEF SigInit, Process, Processes, Handlers
<1>4. \A b \in B : p.sig[b] = NewBase
  BY DEF SigInit, Process
<1>5. \A b \in B : Awaited(p, b) = {}
  <2>1. \A s \in Signals : NewBase.events[s] = 0
    BY DEF NewBase
  <2> HIDE DEF p
  <2> QED
    BY <1>4, <2>1, SMT DEF Awaited
<1>6. \A s \in Signals : p.handler[s] = "own" /\ NewBase.sh_old[s] = "null"
  BY DEF SigInit, Process, NewBase
<1>7. NewBase.ev_n_signals_added = 0 /\ Cardinality({}) = 0
  BY FS_EmptySet DEF NewBase
<1> HIDE DEF p, B
<1>8. HandlersGood(p, B)
  BY <1>3, <1>4, <1>5, <1>6 DEF HandlersGood
<1>9. BaseLed(p, B) /\ SignalsCounted(p, B)
  BY <1>4, <1>5, <1>7 DEF BaseLed, SignalsCounted
<1> QED
  BY <1>1, <1>8, <1>9 DEF ArrivalInv, HandlersInv, SignalsArrive, p, B

(* Every step keeps the handlers good. *)
LEMMA HandlersStep ==
    ASSUME CarefulLives, HandlersInv, [SigNext]_sigvars
    PROVE  HandlersInv'
<1>1. CASE SigNext
  BY <1>1, AddStep, DelStep, HandlerStep, CbStep, ActiveStep, LoopBeginsStep, FreeStep, ReinitStep
     DEF SigNext, GoodKept
<1>2. CASE UNCHANGED sigvars
  BY <1>2 DEF sigvars, HandlersInv, Process
<1> QED
  BY <1>1, <1>2

(* In every program in which one base at a time has signals, and its pipe  *)
(* can be polled, a signal goes to libevent exactly while an event waits   *)
(* for it: evsig_del, evsig_dealloc_ and event_reinit put back what was    *)
(* there before.                                                           *)
THEOREM HandlersComeBack ==
    ASSUME CarefulLives
    PROVE  SigSpec => []HandlersRestored
<1>1. SigInit => HandlersInv
  BY SigInitInv DEF ArrivalInv
<1>2. HandlersInv /\ [SigNext]_sigvars => HandlersInv'
  BY HandlersStep
<1>3. HandlersInv => HandlersRestored
  <2> SUFFICES ASSUME HandlersInv, NEW s \in Signals
               PROVE  LET users == {b \in life.bases : sig[b].events[s] > 0}
                      IN  /\ handler[s] = (IF users = {} THEN "own" ELSE "evsig")
                          /\ \A b \in life.bases :
                                sig[b].sh_old[s] = (IF b \in users THEN "own" ELSE "null")
    BY DEF HandlersRestored
  <2>1. \A b \in life.bases : s \in Awaited(Process, b) <=> sig[b].events[s] > 0
    BY ProcessIs DEF Awaited
  <2> QED
    BY <2>1, ProcessIs DEF HandlersInv, HandlersGood
<1> QED
  BY <1>1, <1>2, <1>3, PTL DEF SigSpec

(* The flag of a base is a truth value. *)
LEMMA OnTheWayIs ==
    ASSUME NEW r \in SigBases, NEW s
    PROVE  OnTheWay(r, s) <=> (r.ev_signal_added /\ s \in Range(r.pipe) \union r.ncaught)
<1>1. r.ev_signal_added \in BOOLEAN
  BY DEF SigBases
<1> QED
  BY <1>1 DEF OnTheWay

(* What is owed is on its way after a step, if nothing of it was lost. *)
LEMMA StillArriving ==
    ASSUME ArrivalInv, GoodKept, LedKept, life.reinits = 0 => CountKept, reinits' \in Nat,
           \A x \in owed' \ owed : x \in life.bases \X Signals /\ OnTheWay(sig'[x[1]], x[2]),
           \A x \in owed' : x \in life.bases \X Signals =>
               (OnTheWay(sig[x[1]], x[2]) => OnTheWay(sig'[x[1]], x[2]))
    PROVE  ArrivalInv'
<1>1. life' = life /\ HandlersInv /\ HandlersInv'
  BY DEF GoodKept, ArrivalInv
<1>2. sig \in [life.bases -> SigBases] /\ sig' \in [life.bases -> SigBases]
  BY <1>1, ProcessIs DEF HandlersInv, HandlersGood, Processes, Process
<1>3. owed' \subseteq life.bases \X Signals
  BY DEF ArrivalInv
<1>4. ASSUME NEW x \in owed' PROVE OnTheWay(sig'[x[1]], x[2])
  <2>1. CASE x \in owed
    <3>1. x \in life.bases \X Signals /\ sig[x[1]] \in SigBases
      BY <1>2, <1>3
    <3>2. OnTheWay(sig[x[1]], x[2])
      BY <2>1, <3>1, OnTheWayIs DEF ArrivalInv, SignalsArrive
    <3> QED
      BY <3>1, <3>2
  <2>2. CASE x \notin owed
    BY <2>2
  <2> QED
    BY <2>1, <2>2
<1>5. SignalsArrive'
  <2> SUFFICES ASSUME NEW x \in owed'
               PROVE  /\ sig'[x[1]].ev_signal_added
                      /\ x[2] \in Range(sig'[x[1]].pipe) \union sig'[x[1]].ncaught
    BY DEF SignalsArrive
  <2>1. sig'[x[1]] \in SigBases
    BY <1>2, <1>3
  <2> QED
    BY <1>4, <2>1, OnTheWayIs
<1>6. BaseLed(Process, life.bases)' /\ (life.reinits = 0 => SignalsCounted(Process, life.bases)')
  BY <1>1 DEF ArrivalInv, LedKept, CountKept
<1> QED
  BY <1>1, <1>3, <1>5, <1>6 DEF ArrivalInv

(* A program in which event_reinit is called has a single base. *)
OneBaseIfReinit == \A l \in Lives : l.reinits = 0 \/ \E b : l.bases = {b}

(* Every step keeps signals on their way. *)
LEMMA ArrivalStep ==
    ASSUME CarefulLives, OneBaseIfReinit, ArrivalInv, [SigNext]_sigvars
    PROVE  ArrivalInv'
<1>0. /\ HandlersInv /\ life \in Lives /\ reinits \in Nat /\ owed \subseteq life.bases \X Signals
      /\ BaseLed(Process, life.bases) /\ (life.reinits = 0 => SignalsCounted(Process, life.bases))
  BY DEF ArrivalInv, HandlersInv
<1> DEFINE Kept == \A x \in owed' : x \in life.bases \X Signals =>
                      (OnTheWay(sig[x[1]], x[2]) => OnTheWay(sig'[x[1]], x[2]))
<1>1. ASSUME owed' \subseteq owed, \A c \in life.bases : NothingLost(c) PROVE Kept
  BY <1>1 DEF NothingLost
<1>2. ASSUME NEW b \in life.bases, owed' = {x \in owed : x[1] # b},
             \A c \in life.bases \ {b} : NothingLost(c)
      PROVE  Kept
  BY <1>2 DEF NothingLost
<1>3. CASE AddSignal
  <2>1. owed' = owed /\ reinits' = reinits
    BY <1>3 DEF AddSignal
  <2>2. GoodKept /\ LedKept /\ CountKept /\ \A c \in life.bases : NothingLost(c)
    BY <1>0, <1>3, AddStep
  <2>3. Kept
    BY <1>1, <2>1, <2>2
  <2> QED
    BY <1>0, <2>1, <2>2, <2>3, StillArriving
<1>4. CASE DelSignal
  <2>1. owed' \subseteq owed /\ reinits' = reinits
    BY <1>4 DEF DelSignal
  <2>2. GoodKept /\ LedKept /\ CountKept /\ \A c \in life.bases : NothingLost(c)
    BY <1>0, <1>4, DelStep
  <2>3. Kept
    BY <1>1, <2>1, <2>2
  <2> QED
    BY <1>0, <2>1, <2>2, <2>3, StillArriving
<1>5. CASE evsig_handler
  <2>1. /\ GoodKept /\ LedKept /\ CountKept /\ reinits' = reinits
        /\ \A c \in life.bases : NothingLost(c)
        /\ \A x \in owed' \ owed : x \in life.bases \X Signals /\ OnTheWay(sig'[x[1]], x[2])
    BY <1>0, <1>5, HandlerStep
  <2>2. Kept
    BY <2>1 DEF NothingLost
  <2> QED
    BY <1>0, <2>1, <2>2, StillArriving
<1>6. CASE evsig_cb
  <2>1. /\ GoodKept /\ LedKept /\ CountKept /\ owed' = owed /\ reinits' = reinits
        /\ \A c \in life.bases : NothingLost(c)
    BY <1>0, <1>6, CbStep
  <2>2. Kept
    BY <1>1, <2>1
  <2> QED
    BY <1>0, <2>1, <2>2, StillArriving
<1>7. CASE evmap_signal_active_
  <2>1. /\ GoodKept /\ LedKept /\ CountKept /\ reinits' = reinits /\ owed' \subseteq owed
        /\ Kept
    BY <1>0, <1>7, ActiveStep
  <2> QED
    BY <1>0, <2>1, StillArriving
<1>8. CASE LoopBegins
  <2>1. /\ GoodKept /\ CountKept /\ owed' = owed /\ reinits' = reinits
        /\ \A c \in life.bases : NothingLost(c)
        /\ SignalsCounted(Process, life.bases) \/ (\E b : life.bases = {b}) => LedKept
    BY <1>0, <1>8, LoopBeginsStep
  <2>2. LedKept
    BY <1>0, <2>1 DEF OneBaseIfReinit
  <2>3. Kept
    BY <1>1, <2>1
  <2> QED
    BY <1>0, <2>1, <2>2, <2>3, StillArriving
<1>9. CASE FreeBase
  <2>1. GoodKept /\ LedKept /\ CountKept
    BY <1>0, <1>9, FreeStep
  <2>2. Kept /\ owed' \subseteq owed
    BY <1>0, <1>2, <1>9, FreeStep
  <2>3. reinits' = reinits
    BY <1>9 DEF FreeBase
  <2> QED
    BY <1>0, <2>1, <2>2, <2>3, StillArriving
<1>10. CASE ReinitBase
  <2>1. GoodKept /\ LedKept /\ reinits < life.reinits /\ reinits' = reinits + 1
    BY <1>0, <1>10, ReinitStep
  <2>2. Kept /\ owed' \subseteq owed
    BY <1>0, <1>2, <1>10, ReinitStep
  <2>3. life.reinits # 0 /\ reinits' \in Nat
    BY <1>0, <2>1, SMT
  <2> QED
    BY <2>1, <2>2, <2>3, StillArriving
<1>11. CASE UNCHANGED sigvars
  BY <1>11 DEF sigvars, ArrivalInv, HandlersInv, Process, SignalsArrive
<1> QED
  BY <1>3, <1>4, <1>5, <1>6, <1>7, <1>8, <1>9, <1>10, <1>11 DEF SigNext

(* A signal that comes while a base waits for it is in the pipe which the  *)
(* loop of that base polls, or read from it, until its events are          *)
(* activated: adds, deletes, loops and event_base_free of any base lose    *)
(* none, and neither does event_reinit in a program with one base.         *)
THEOREM SignalsDoArrive ==
    ASSUME CarefulLives, OneBaseIfReinit
    PROVE  SigSpec => []SignalsArrive
<1>1. SigInit => ArrivalInv
  BY SigInitInv
<1>2. ArrivalInv /\ [SigNext]_sigvars => ArrivalInv'
  BY ArrivalStep
<1>3. ArrivalInv => SignalsArrive
  BY DEF ArrivalInv
<1> QED
  BY <1>1, <1>2, <1>3, PTL DEF SigSpec
=============================================================================
