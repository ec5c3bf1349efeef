------------------------------- MODULE Poller -------------------------------
(***************************************************************************)
(* What the event base asks of its backend: a wait reports the file        *)
(* descriptors that are ready for something an event waits for, and the    *)
(* events that wait for it, and no others, become active.  How the events  *)
(* of one descriptor are put together, when the kernel is told and what it *)
(* answers is the backend's business.                                      *)
(*                                                                         *)
(* EvMap is shown to implement this specification.                         *)
(***************************************************************************)
EXTENDS Naturals, FiniteSets

CONSTANTS
    Fds,            \* file descriptors
    Events,         \* the events of the program
    Of,             \* for each of them [fd, what, et]
    Conditions,     \* what may be true of a descriptor when the wait ends
    AtLeast         \* the reports a wait has room for

VARIABLES
    pending,        \* events that are added
    waits,          \* "no", "yes", or the wait is "over"
    asked,          \* what was wanted of each descriptor when the wait began
    forsaken,       \* descriptors closed with events pending on them
    ready,          \* what is true of the descriptors when the wait ends
    heard,          \* what the wait reports
    active          \* what the events that it activated are told

pvars == <<pending, waits, asked, forsaken, ready, heard, active>>

What == {"READ", "WRITE", "CLOSED"}

Nothing == [f \in Fds |-> {}]

On(f) == {e \in pending : Of[e].fd = f}

Wanted(f) == UNION {Of[e].what : e \in On(f)}

(* An error or a hang-up concerns readers and writers. *)
Told(conditions, wanted) ==
    LET seen == conditions \intersect (wanted \union {"ERR", "HUP"})
    IN  IF "ERR" \in seen \/ ("HUP" \in seen /\ "CLOSED" \notin seen) THEN {"READ", "WRITE"}
        ELSE seen \ {"HUP"}

PollerInit ==
    /\ pending = {} /\ waits = "no" /\ asked = Nothing /\ forsaken = {} /\ ready = Nothing /\ heard = Nothing
    /\ active = [e \in Events |-> {}]

PollerAdd(e) ==
    /\ e \notin pending
    /\ pending' = pending \union {e}
    /\ UNCHANGED <<waits, asked, forsaken, ready, heard, active>>

(* Once no event is left on a forsaken descriptor, it is as good as new,   *)
(* but a wait that has begun may still hear of it.                         *)
PollerDel(e) ==
    /\ e \in pending
    /\ pending' = pending \ {e}
    /\ forsaken' = IF waits = "yes" THEN forsaken
                   ELSE {f \in forsaken : \E d \in pending \ {e} : Of[d].fd = f}
    /\ UNCHANGED <<waits, asked, ready, heard, active>>

PollerClose(f) ==
    /\ asked' = [asked EXCEPT ![f] = {}]
    /\ forsaken' = IF On(f) = {} THEN forsaken ELSE forsaken \union {f}
    /\ UNCHANGED <<pending, waits, ready, heard, active>>

(* After a fork the child asks anew. *)
PollerRenew ==
    /\ forsaken' \in SUBSET forsaken
    /\ UNCHANGED <<pending, waits, asked, ready, heard, active>>

PollerBegin ==
    /\ waits = "no" /\ waits' = "yes"
    /\ asked' = [f \in Fds |-> Wanted(f)]
    /\ UNCHANGED <<pending, forsaken, ready, heard, active>>

(* What other threads add and delete while the loop waits may count or     *)
(* not, but a descriptor that is ready for what was wanted all along, and  *)
(* still is, is reported.                                                  *)
PollerWait ==
    /\ waits = "yes" /\ waits' = "over"
    /\ ready' \in [Fds -> Conditions]
    /\ heard' \in [Fds -> SUBSET What]
    /\ LET seen(f, wanted) == IF wanted = {} THEN {} ELSE Told(ready'[f], wanted)
           due == {f \in Fds \ forsaken : seen(f, asked[f]) # {} /\ seen(f, Wanted(f)) # {}}
           said == {f \in Fds : heard'[f] # {}}
       IN  /\ due \subseteq said \/ Cardinality(said) >= AtLeast
           /\ \A f \in said \ forsaken : heard'[f] \in {seen(f, asked[f]), seen(f, Wanted(f))}
    /\ asked' = Nothing
    /\ forsaken' = {f \in forsaken : On(f) # {}}
    /\ UNCHANGED <<pending, active>>

(* Events that were added or deleted since the wait ended count as they    *)
(* are now.                                                                *)
PollerReport ==
    /\ waits = "over" /\ waits' = "no"
    /\ active' = [e \in Events |-> IF e \in pending THEN Of[e].what \intersect heard[Of[e].fd] ELSE {}]
    /\ asked' = Nothing /\ ready' = Nothing /\ heard' = Nothing
    /\ UNCHANGED <<pending, forsaken>>

PollerRun ==
    /\ active' = [e \in Events |-> {}]
    /\ UNCHANGED <<pending, waits, asked, forsaken, ready, heard>>

PollerNext ==
    \/ \E e \in Events : PollerAdd(e) \/ PollerDel(e)
    \/ \E f \in Fds : PollerClose(f)
    \/ PollerRenew \/ PollerBegin \/ PollerWait \/ PollerReport \/ PollerRun

PollerSpec == PollerInit /\ [][PollerNext]_pvars
=============================================================================
