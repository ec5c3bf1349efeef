-------------------------------- MODULE EvMap --------------------------------
(***************************************************************************)
(* The events on file descriptors and the epoll backend: evmap.c with its  *)
(* changelist, epoll.c with its table of operations, and what the kernel   *)
(* keeps per epoll descriptor.                                             *)
(*                                                                         *)
(* The base's lock is held over every operation but epoll_wait: other      *)
(* threads add and delete events while the loop waits.  Files are not      *)
(* duplicated, so that closing the descriptor also takes it out of epoll;  *)
(* the program may close it with events pending on it.                     *)
(***************************************************************************)
EXTENDS SequencesExt, Integers, FiniteSets

CONSTANTS
    Fds,            \* file descriptors
    Events,         \* the events of the program
    Of,             \* event_assign: for each of them [fd, what, et]
    Conditions,     \* what may be true of a descriptor: sets of READ,
                    \* WRITE, CLOSED (POLLRDHUP), HUP and ERR
    INITIAL_NEVENT, MAX_NEVENT

VARIABLES
    listed,     \* EVENT_BASE_FLAG_EPOLL_USE_CHANGELIST
    io,         \* base->io, per descriptor: events, counts, idxplus1
    changes,    \* base->changelist
    items,      \* the kernel's: the interest in each descriptor
    open,       \* descriptors that are open
    nevents,    \* epollop->nevents
    ready,      \* what was true of the descriptors when epoll_wait ended
    got,        \* what epoll_wait has written to epollop->events, per descriptor
    waits,      \* the loop is in epoll_wait: "no", "yes", or it is "over"
    asked,      \* what the events wanted when it began to wait
    active,     \* what each event was last told by epoll_dispatch
    forsaken    \* descriptors closed with events pending on them, while
                \* there are any and until the wait is over

iovars == <<listed, io, changes, items, open, nevents, ready, got, waits, asked, active, forsaken>>

What == {"READ", "WRITE", "CLOSED"}

NoItem == [what |-> {}, et |-> FALSE]

Quiet == [e \in Events |-> {}]

Nothing == [f \in Fds |-> {}]

Slot == [events |-> <<>>, n |-> [w \in What |-> 0], idxplus1 |-> 0]

World == [io |-> io, changes |-> changes, items |-> items, open |-> open]

BecomesWorld(s) == io' = s.io /\ changes' = s.changes /\ items' = s.items

-----------------------------------------------------------------------------
(* The kernel.  nomem: there is no memory for one more item.               *)
epoll_ctl(s, op, f, item, nomem) ==
    LET known == s.items[f] # NoItem
        fails(err) == [err |-> err, s |-> s]
        set(i) == [err |-> "no", s |-> [s EXCEPT !.items[f] = i]]
    IN  CASE f \notin s.open -> fails("EBADF")
          [] f \in s.open /\ op = "ADD" -> IF known THEN fails("EEXIST")
                                           ELSE IF nomem THEN fails("ENOMEM") ELSE set(item)
          [] f \in s.open /\ op = "MOD" -> IF known THEN set(item) ELSE fails("ENOENT")
          [] f \in s.open /\ op = "DEL" -> IF known THEN set(NoItem) ELSE fails("ENOENT")

(* A change: the descriptor, the events it had before, and per kind of     *)
(* event "add", "del" or nothing.                                          *)
Change(f, old) == [fd |-> f, old |-> old, change |-> [w \in What |-> "no"], et |-> [w \in What |-> FALSE]]

(* Mutant: a delete that leaves something is a delete all the same.        *)
op_table_deletes(ch) ==
    LET add == {w \in What : ch.change[w] = "add"}
        del == {w \in What : ch.change[w] = "del"}
    IN  IF add # {}
        THEN [op |-> IF ch.old = {} THEN "ADD" ELSE "MOD", what |-> add \union (ch.old \ del)]
        ELSE IF del # {} THEN [op |-> "DEL", what |-> del]
        ELSE [op |-> "none", what |-> {}]

(* The 512 rows of the table, but for the impossible ones. *)
epoll_op_table(ch) ==
    LET add == {w \in What : ch.change[w] = "add"}
        del == {w \in What : ch.change[w] = "del"}
        rest == ch.old \ del
    IN  IF add # {} THEN [op |-> IF ch.old = {} THEN "ADD" ELSE "MOD", what |-> add \union rest]
        ELSE IF del # {} /\ rest # {} THEN [op |-> "MOD", what |-> rest]
        ELSE IF del # {} THEN [op |-> "DEL", what |-> del]
        ELSE [op |-> "none", what |-> {}]

epoll_apply_one_change(s, ch, nomem) ==
    LET row == epoll_op_table(ch)
        item == [what |-> row.what, et |-> \E w \in What : ch.et[w]]
        first == epoll_ctl(s, row.op, ch.fd, item, nomem)
        done(r) == [ret |-> IF r.err = "no" THEN 0 ELSE -1, s |-> r.s]
    IN  IF row.op = "none" THEN [ret |-> 0, s |-> s]
        ELSE CASE row.op = "MOD" /\ first.err = "ENOENT" ->
                    done(epoll_ctl(s, "ADD", ch.fd, item, nomem))
               [] row.op = "ADD" /\ first.err = "EEXIST" ->
                    done(epoll_ctl(s, "MOD", ch.fd, item, nomem))
               [] row.op = "DEL" /\ first.err \in {"ENOENT", "EBADF"} -> [ret |-> 0, s |-> s]
               [] OTHER -> done(first)

(* What fails is only warned of. *)
epoll_apply_changes(s) ==
    FoldLeft(LAMBDA t, ch : epoll_apply_one_change(t, ch, FALSE).s, s, s.changes)

epoll_nochangelist(s, f, old, what, et, how, nomem) ==
    epoll_apply_one_change(
        s, [Change(f, old) EXCEPT !.change = [w \in What |-> IF w \in what THEN how ELSE "no"],
                                  !.et = [w \in What |-> w \in what /\ et]], nomem)

-----------------------------------------------------------------------------
(* The changelist. *)

event_changelist_get_or_construct(s, f, old) ==
    IF s.io[f].idxplus1 # 0 THEN s
    ELSE [s EXCEPT !.changes = Append(@, Change(f, old)),
                   !.io[f].idxplus1 = Len(s.changes) + 1]

event_changelist_add_(s, f, old, what, et) ==
    LET t == event_changelist_get_or_construct(s, f, old)
    IN  [t EXCEPT !.changes[t.io[f].idxplus1] =
            [@ EXCEPT !.change = [w \in What |-> IF w \in what THEN "add" ELSE @[w]],
                      !.et = [w \in What |-> IF w \in what THEN et ELSE @[w]]]]

(* A delete of what was not there before takes the add back. *)
event_changelist_del_(s, f, old, what, et) ==
    LET t == event_changelist_get_or_construct(s, f, old)
        i == t.io[f].idxplus1
        to(w) == IF w \in t.changes[i].old THEN "del" ELSE "no"
    IN  [t EXCEPT !.changes[i] =
            [@ EXCEPT !.change = [w \in What |-> IF w \in what THEN to(w) ELSE @[w]],
                      !.et = [w \in What |-> IF w \in what THEN et /\ to(w) = "del" ELSE @[w]]]]

event_changelist_remove_all_(s) ==
    [s EXCEPT !.changes = <<>>,
              !.io = [f \in Fds |-> IF \E i \in DOMAIN s.changes : s.changes[i].fd = f
                                    THEN [s.io[f] EXCEPT !.idxplus1 = 0] ELSE s.io[f]]]

(* evsel->add and evsel->del *)
evsel_add(s, f, old, what, et, nomem) ==
    IF listed THEN [ret |-> 0, s |-> event_changelist_add_(s, f, old, what, et)]
    ELSE epoll_nochangelist(s, f, old, what, et, "add", nomem)

evsel_del(s, f, old, what, et) ==
    IF listed THEN [ret |-> 0, s |-> event_changelist_del_(s, f, old, what, et)]
    ELSE epoll_nochangelist(s, f, old, what, et, "del", FALSE)

-----------------------------------------------------------------------------
(* The map. *)

Counted(n) == {w \in What : n[w] > 0}

evmap_io_add_(s, e, nomem) ==
    LET ev == Of[e]
        slot == s.io[ev.fd]
        n == [w \in What |-> slot.n[w] + (IF w \in ev.what THEN 1 ELSE 0)]
        res == {w \in ev.what : n[w] = 1}
        told == evsel_add(s, ev.fd, Counted(slot.n), res, ev.et, nomem)
        in(t) == [t EXCEPT !.io[ev.fd].n = n, !.io[ev.fd].events = <<e>> \o @]
    IN  IF res = {} THEN [ret |-> 0, s |-> in(s)]
        ELSE IF told.ret = -1 THEN [ret |-> -1, s |-> s]
        ELSE [ret |-> 1, s |-> in(told.s)]

evmap_io_del_(s, e) ==
    LET ev == Of[e]
        slot == s.io[ev.fd]
        n == [w \in What |-> slot.n[w] - (IF w \in ev.what THEN 1 ELSE 0)]
        res == {w \in ev.what : n[w] = 0}
        t == IF res = {} THEN s ELSE evsel_del(s, ev.fd, Counted(slot.n), res, ev.et).s
    IN  [t EXCEPT !.io[ev.fd].n = n, !.io[ev.fd].events = SelectSeq(@, LAMBDA d : d # e)]

(* res of the events on f that are told of what *)
evmap_io_active_(told, f, what) ==
    [e \in Events |-> IF Contains(io[f].events, e) /\ Of[e].what \intersect what # {}
                      THEN told[e] \union (Of[e].what \intersect what) ELSE told[e]]

evmap_io_reinit_iter_fn(s, f) ==
    LET slot == s.io[f]
        events == Counted(slot.n)
        et == events # {} /\ slot.events # <<>> /\ Of[Head(slot.events)].et
    IN  evsel_add([s EXCEPT !.io[f].idxplus1 = 0], f, {}, events, et, FALSE).s

-----------------------------------------------------------------------------
IoInit ==
    /\ listed \in BOOLEAN
    /\ io = [f \in Fds |-> Slot] /\ changes = <<>>
    /\ items = [f \in Fds |-> NoItem] /\ open = Fds
    /\ nevents = INITIAL_NEVENT
    /\ ready = Nothing /\ got = Nothing /\ waits = "no" /\ asked = Nothing
    /\ active = Quiet /\ forsaken = {}

Pending == UNION {Range(io[f].events) : f \in Fds}

Wanted(f) == UNION {Of[e].what : e \in Range(io[f].events)}

(* event_add and event_del, as far as the map goes *)
Add ==
    \E e \in Events \ Pending, nomem \in BOOLEAN :
        /\ active = Quiet /\ Of[e].fd \in open
        /\ nomem => ~listed
        /\ BecomesWorld(evmap_io_add_(World, e, nomem).s)
        /\ UNCHANGED <<listed, open, nevents, ready, got, waits, asked, active, forsaken>>

Del ==
    \E e \in Pending :
        /\ active = Quiet
        /\ BecomesWorld(evmap_io_del_(World, e))
        /\ forsaken' = IF waits = "yes" THEN forsaken
                       ELSE {f \in forsaken : \E d \in Pending \ {e} : Of[d].fd = f}
        /\ UNCHANGED <<listed, open, nevents, ready, got, waits, asked, active>>

(* The program closes a descriptor, and opens a file that gets its number. *)
Close ==
    \E f \in open :
        /\ active = Quiet
        /\ open' = open \ {f}
        /\ asked' = [asked EXCEPT ![f] = {}]
        /\ items' = [items EXCEPT ![f] = NoItem]
        /\ forsaken' = IF io[f].events = <<>> THEN forsaken ELSE forsaken \union {f}
        /\ UNCHANGED <<listed, io, changes, nevents, ready, got, waits, active>>

Open ==
    \E f \in Fds \ open :
        /\ active = Quiet
        /\ open' = open \union {f}
        /\ UNCHANGED <<listed, io, changes, items, nevents, ready, got, waits, asked, active, forsaken>>

(* epoll_dispatch up to where it lets go of the lock ... *)
epoll_dispatch ==
    /\ waits = "no" /\ active = Quiet
    /\ BecomesWorld(event_changelist_remove_all_(epoll_apply_changes(World)))
    /\ waits' = "yes"
    /\ asked' = [f \in Fds |-> Wanted(f)]
    /\ UNCHANGED <<listed, open, nevents, ready, got, active, forsaken>>

(* ... the kernel, which fills the array as far as it goes, with nothing   *)
(* if the timeout or a signal ends the wait ...                            *)
Seen(f, conditions) ==
    IF items[f] = NoItem THEN {} ELSE conditions \intersect (items[f].what \union {"ERR", "HUP"})

epoll_wait ==
    /\ waits = "yes" /\ waits' = "over"
    /\ \E conditions \in [Fds -> Conditions] :
          LET due == {f \in Fds : Seen(f, conditions[f]) # {}}
          IN  \E some \in SUBSET due :
                    /\ Cardinality(some) = (IF Cardinality(due) < nevents THEN Cardinality(due)
                                            ELSE nevents)
                    /\ ready' = conditions
                    /\ got' = [f \in Fds |-> IF f \in some THEN Seen(f, conditions[f]) ELSE {}]
    /\ asked' = Nothing
    /\ forsaken' = {f \in forsaken : io[f].events # <<>>}
    /\ UNCHANGED <<listed, io, changes, items, open, nevents, active>>

(* Mutant: whoever hangs up has only closed. *)
ev_of_mask_halved(seen) == IF "ERR" \in seen THEN What \ {"CLOSED"} ELSE seen \ {"HUP"}

ev_of_mask(seen) ==
    IF "ERR" \in seen \/ ("HUP" \in seen /\ "CLOSED" \notin seen) THEN {"READ", "WRITE"}
    ELSE seen \ {"HUP"}

(* ... and the rest of epoll_dispatch.                                     *)
epoll_dispatch_returns ==
    /\ waits = "over"
    /\ LET res == {f \in Fds : got[f] # {}}
       IN  /\ active' = FoldLeft(LAMBDA told, f : evmap_io_active_(told, f, ev_of_mask(got[f])),
                                 Quiet, SetToSeq(res))
           /\ nevents' = IF Cardinality(res) = nevents /\ nevents < MAX_NEVENT
                         THEN 2 * nevents ELSE nevents
    /\ ready' = Nothing /\ got' = Nothing /\ waits' = "no" /\ asked' = Nothing
    /\ UNCHANGED <<listed, io, changes, items, open, forsaken>>

(* The callbacks run: what they do and what other threads do are the       *)
(* actions above.                                                          *)
event_process_active ==
    /\ active # Quiet /\ active' = Quiet
    /\ UNCHANGED <<listed, io, changes, items, open, nevents, ready, got, waits, asked, forsaken>>

(* event_reinit in the child of a fork: a new epoll descriptor. *)
evmap_reinit_ ==
    /\ waits = "no" /\ active = Quiet
    /\ BecomesWorld(FoldLeft(evmap_io_reinit_iter_fn,
                             [World EXCEPT !.items = [f \in Fds |-> NoItem], !.changes = <<>>],
                             SetToSeq(Fds)))
    /\ nevents' = INITIAL_NEVENT
    /\ forsaken' = {f \in forsaken : f \notin open}
    /\ UNCHANGED <<listed, open, ready, got, waits, asked, active>>

IoNext ==
    \/ Add \/ Del \/ Close \/ Open \/ epoll_dispatch \/ epoll_wait
    \/ epoll_dispatch_returns \/ event_process_active \/ evmap_reinit_

-----------------------------------------------------------------------------
(* evmap_check_integrity_ and event_changelist_assert_ok, at every step:   *)
(* the counts are those of the events in the list, the list has no event   *)
(* twice, a change and its descriptor point at each other.                 *)
MapIsSound ==
    /\ \A f \in Fds :
          LET slot == io[f]
          IN  /\ \A w \in What :
                    slot.n[w] = Cardinality({i \in DOMAIN slot.events : w \in Of[slot.events[i]].what})
              /\ IsInjective(slot.events) /\ \A e \in Range(slot.events) : Of[e].fd = f
              /\ slot.idxplus1 # 0 => /\ slot.idxplus1 \in DOMAIN changes
                                      /\ changes[slot.idxplus1].fd = f
    /\ \A i \in DOMAIN changes : io[changes[i].fd].idxplus1 = i

(* Once the changes that are queued have been made, the kernel looks for   *)
(* exactly what the events on a descriptor want, edge-triggered if they    *)
(* are, whatever was added, deleted, closed and opened again in between.   *)
KernelAgrees ==
    \A f \in open \ forsaken :
        epoll_apply_changes(World).items[f] =
            [what |-> Wanted(f), et |-> \E e \in Range(io[f].events) : Of[e].et]

(* The map is sound and the kernel has been told of it. *)
MapAgrees == MapIsSound /\ KernelAgrees

(* EvMap as an implementation of Poller: heard is what ev_of_mask makes of *)
(* the answer of the kernel.                                               *)
P == INSTANCE Poller WITH pending <- Pending, AtLeast <- INITIAL_NEVENT,
        heard <- [f \in Fds |-> IF got[f] = {} THEN {} ELSE ev_of_mask(got[f])]

(* What epoll_dispatch activates is what Poller says: the events whose     *)
(* descriptors are ready for what they wait for, whatever was added,       *)
(* deleted, closed and opened while the loop waited.                       *)
ImplementsPoller == P!PollerSpec
=============================================================================
