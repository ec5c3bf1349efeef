------------------------------- MODULE EvDns -------------------------------
(***************************************************************************)
(* The stub resolver: one struct evdns_base with its nameservers and the   *)
(* lookups of the program (evdns.c).  Every function below runs with the   *)
(* base's lock held from the entry point that called it, so an entry point *)
(* is one action.  User callbacks never run under the lock: they are       *)
(* deferred to the event loop.                                             *)
(*                                                                         *)
(* A struct request is named by its handle: a search that goes on to the   *)
(* next name frees the old request before it submits the new one.          *)
(* Transaction ids are left out: an answer carries the id of a request in  *)
(* flight, or is dropped without effect.                                   *)
(***************************************************************************)
EXTENDS SequencesExt, Integers

CONSTANTS
    Lookups,        \* handles of the program's lookups
    Probes,         \* handles of probes (bound: probes at one time)
    NS,             \* nameserver structures the base may allocate
    InitNS,         \* the ones resolv.conf names, in order
    NoNS,           \* the null nameserver
    NoHandle,       \* the null handle
    NoSearch,       \* the lookups made with DNS_QUERY_NO_SEARCH
    Dotted,         \* the lookups whose name has ndots dots or more
    num_domains,    \* domains on the search list
    global_max_requests_inflight,
    global_max_reissues,
    global_max_retransmits,
    global_max_nameserver_timeout,
    disable_when_inactive,
    NetModes,       \* what sendto may do: "ok", "again", "err"
    Flaky,          \* the nameservers whose sockets do not always take a packet
    Replies,        \* the answers a nameserver may give
    Ops             \* the API calls the program makes

Handles == Lookups \cup Probes

ASSUME EvDnsAssumption ==
    /\ Lookups \cap Probes = {} /\ NoHandle \notin Handles /\ NoNS \notin NS
    /\ InitNS \in Seq(NS) /\ Dotted \subseteq Lookups /\ NoSearch \subseteq Lookups
    /\ num_domains \in Nat
    /\ global_max_requests_inflight \in Nat \ {0}
    /\ global_max_reissues \in Nat /\ global_max_retransmits \in Nat
    /\ global_max_nameserver_timeout \in Nat /\ disable_when_inactive \in BOOLEAN
    /\ Flaky \subseteq NS /\ "ok" \in NetModes /\ NetModes \subseteq {"ok", "again", "err"}
    /\ Replies \subseteq {"answer", "notexist", "format", "refused", "servfail"}

VARIABLES
    base,       \* the lists and counters of struct evdns_base
    ns,         \* struct nameserver
    req,        \* struct request, by handle
    hd,         \* struct evdns_request: the handles
    deferred,   \* the deferred callbacks, in order
    net         \* what the next sendto on each socket will do

vars == <<base, ns, req, hd, deferred, net>>

State == [base |-> base, ns |-> ns, req |-> req, hd |-> hd,
          deferred |-> deferred, net |-> net]
Becomes(s) ==
    /\ base' = s.base /\ ns' = s.ns /\ req' = s.req /\ hd' = s.hd
    /\ deferred' = s.deferred /\ net' = s.net

(* Reads or writes nameserver n: wild once the structure was freed.        *)
Touch(s, n) == IF s.ns[n].mem = "freed" THEN [s EXCEPT !.base.wild = TRUE] ELSE s

Rotate(q, k) == SubSeq(q, k + 1, Len(q)) \o SubSeq(q, 1, k)
Over(F(_, _), q, s) ==
    LET f[i \in 0..Len(q)] == IF i = 0 THEN s ELSE F(f[i - 1], q[i]) IN f[Len(q)]
Repeat(F(_), k, s) ==
    LET f[i \in 0..k] == IF i = 0 THEN s ELSE F(f[i - 1]) IN f[k]

NewRequest == [ns |-> NoNS, tx |-> 0, reissue |-> 0, transmit_me |-> FALSE,
               timer |-> FALSE, sent |-> {}]
RawName == -1
SearchOff == -2

-----------------------------------------------------------------------------
(* Nameservers.  base.ring is the circular list from server_head on.       *)

(* The next good nameserver in the ring, or just the next one when none is *)
(* good; server_head moves past it.                                        *)
nameserver_pick(s) ==
    LET ring == s.base.ring
        up   == {i \in DOMAIN ring : s.ns[ring[i]].state}
        k    == IF s.base.good = 0 \/ up = {} THEN 1
                ELSE CHOOSE i \in up : \A j \in up : i <= j
        t    == [s EXCEPT !.base.ring = Rotate(ring, k),
                          !.base.assert = @ /\ (s.base.good = 0 \/ up # {})]
    IN  IF ring = <<>> THEN [n |-> NoNS, s |-> s]
        ELSE IF s.base.good = 0
        THEN [n |-> Head(t.base.ring), s |-> Touch(t, Head(t.base.ring))]
        ELSE [n |-> ring[k], s |-> Touch(t, ring[k])]

(* Mutant: the counters of the two nameservers are forgotten.              *)
swap_ns_only(s, h, n) == IF n = NoNS THEN s ELSE [s EXCEPT !.req[h].ns = n]

(* Moves the request of h to nameserver n.                                 *)
request_swap_ns(s, h, n) ==
    LET old == s.req[h].ns IN
    IF n = NoNS \/ n = old THEN s
    ELSE [s EXCEPT !.base.assert = @ /\ s.ns[old].inflight > 0,
                   !.ns[old].inflight = @ - 1, !.ns[n].inflight = @ + 1,
                   !.req[h].ns = n]

(* Moves the request of h to whatever nameserver_pick returns.             *)
swap_to_pick(s, h) == LET p == nameserver_pick(s) IN request_swap_ns(p.s, h, p.n)

(* n is deemed down: it will be probed, and what was never sent to it goes *)
(* to another nameserver.                                                  *)
nameserver_failed(s, n) ==
    LET t == [s EXCEPT !.base.good = @ - 1, !.base.assert = @ /\ s.base.good > 0,
                       !.ns[n].state = FALSE, !.ns[n].timer = TRUE]
    IN  IF ~s.ns[n].state THEN s
        ELSE IF t.base.good = 0 THEN t
        ELSE Over(LAMBDA u, h : IF u.req[h].tx = 0 /\ u.req[h].ns = n
                                THEN swap_to_pick(u, h) ELSE u,
                  s.base.inflight, t)

(* Asks for writability of n's socket, or stops asking.                    *)
nameserver_write_waiting(s, n, waiting) ==
    IF s.ns[n].write_waiting = waiting THEN s
    ELSE [s EXCEPT !.ns[n].write_waiting = waiting, !.ns[n].event = TRUE]

-----------------------------------------------------------------------------
(* Sending.                                                                *)

(* After a successful or a hopeless sendto the request waits for a timeout *)
sent_or_lost(s, h) ==
    [s EXCEPT !.req[h].timer = TRUE, !.req[h].tx = @ + 1, !.req[h].transmit_me = FALSE]

evdns_request_transmit_to(s, h, n) ==
    LET t == IF s.ns[n].inflight = 1 /\ disable_when_inactive
             THEN [s EXCEPT !.ns[n].event = TRUE] ELSE s
    IN  CASE s.net[n] = "again" ->
                 nameserver_write_waiting([t EXCEPT !.ns[n].choked = TRUE], n, TRUE)
          [] s.net[n] = "err" -> sent_or_lost(nameserver_failed(t, n), h)
          [] s.net[n] = "ok" -> sent_or_lost([t EXCEPT !.req[h].sent = @ \cup {n}], h)

evdns_request_transmit(s, h) ==
    LET n == s.req[h].ns
        t == [s EXCEPT !.req[h].transmit_me = TRUE]
    IN  IF n = NoNS THEN t
        ELSE IF s.ns[n].choked THEN Touch(t, n)
        ELSE evdns_request_transmit_to(Touch(t, n), h, n)

(* Sends every request in flight that is marked for it.                    *)
evdns_transmit(s) ==
    Over(LAMBDA t, h : IF t.req[h].transmit_me THEN evdns_request_transmit(t, h) ELSE t,
         s.base.inflight, s)

(* The lists of requests in flight and waiting.                            *)
evdns_request_insert(q, h) == Append(q, h)
evdns_request_remove(q, h) == SelectSeq(q, LAMBDA x : x # h)

(* One round of the loop of evdns_requests_pump_waiting_queue.             *)
pump_one(s) ==
    LET h == Head(s.base.waiting)
        p == nameserver_pick(s)
        t == [p.s EXCEPT !.req[h].ns = p.n, !.req[h].sent = {},
                         !.ns[p.n].inflight = @ + 1,
                         !.base.waiting = evdns_request_remove(@, h), !.base.nwaiting = @ - 1,
                         !.base.inflight = evdns_request_insert(@, h), !.base.ninflight = @ + 1]
    IN  IF s.base.ninflight >= global_max_requests_inflight \/ s.base.waiting = <<>>
        THEN s
        ELSE IF p.n = NoNS THEN p.s
        ELSE evdns_transmit(evdns_request_transmit(t, h))

(* Promotes waiting requests while there is room in flight.                *)
evdns_requests_pump_waiting_queue(s) ==
    Repeat(pump_one, Len(s.base.waiting), s)

-----------------------------------------------------------------------------
(* The end of a request.                                                   *)

(* Queues the callback of h; from now on the handle outlives the request.  *)
reply_schedule_callback(s, h, err) ==
    [s EXCEPT !.hd[h].pending = TRUE, !.deferred = Append(@, [h |-> h, err |-> err])]

(* Takes the request of h off the lists and frees it, and its handle too   *)
(* unless a callback is to come; then the queue moves on.                  *)
request_finished(s, h, was_inflight, free_handle) ==
    LET n  == s.req[h].ns
        t1 == IF was_inflight
              THEN Touch([s EXCEPT !.base.inflight = evdns_request_remove(@, h), !.base.ninflight = @ - 1,
                                   !.ns[n].inflight = @ - 1], n)
              ELSE [s EXCEPT !.base.waiting = evdns_request_remove(@, h), !.base.nwaiting = @ - 1]
        t2 == IF n # NoNS /\ disable_when_inactive /\ t1.ns[n].inflight = 0
              THEN [t1 EXCEPT !.ns[n].event = FALSE, !.ns[n].timer = FALSE] ELSE t1
        t3 == [t2 EXCEPT !.req[h] = NewRequest, !.hd[h].current = FALSE,
                         !.base.assert = @ /\ s.hd[h].current]
        t4 == IF free_handle
              THEN [t3 EXCEPT !.hd[h].search = SearchOff,
                              !.hd[h].st = IF t3.hd[h].pending THEN "live" ELSE "gone"]
              ELSE t3
    IN  evdns_requests_pump_waiting_queue(t4)

(* Mutant: a handle whose callback is pending may still be canceled.       *)
cancel_again(s, h) ==
    IF ~s.hd[h].pending /\ ~s.hd[h].current THEN s
    ELSE reply_schedule_callback(s, h, "cancel")

(* Too late once the callback is pending: then it does nothing.            *)
evdns_cancel_request(s, h) ==
    IF ~s.hd[h].current \/ s.hd[h].pending THEN s
    ELSE request_finished(reply_schedule_callback(s, h, "cancel"), h,
                          s.req[h].ns # NoNS, TRUE)

cancel_probe(s, n) ==
    IF s.ns[n].probe = NoHandle THEN s
    ELSE [evdns_cancel_request(s, s.ns[n].probe) EXCEPT !.ns[n].probe = NoHandle]

nameserver_up(s, n) ==
    IF s.ns[n].state THEN s
    ELSE [cancel_probe([s EXCEPT !.ns[n].timer = FALSE], n)
             EXCEPT !.ns[n].state = TRUE, !.ns[n].timedout = 0, !.base.good = @ + 1]

(* Mutant: one failed probe is the last.                                   *)
probe_failed_for_good(s, n) == [s EXCEPT !.ns[n].timer = FALSE]

(* The probe failed: try again later, unless other answers came meanwhile. *)
nameserver_probe_failed(s, n) == [s EXCEPT !.ns[n].timer = ~s.ns[n].state]

-----------------------------------------------------------------------------
(* The start of a request.                                                 *)

(* A request for the name that the search index i stands for; it gets a    *)
(* nameserver at once when there is room in flight.                        *)
request_new(s, h, i) ==
    LET p == IF s.base.ninflight < global_max_requests_inflight
             THEN nameserver_pick(s) ELSE [n |-> NoNS, s |-> s]
    IN  [n |-> p.n, s |-> [p.s EXCEPT !.hd[h].tried = Append(@, i)]]

(* Into flight when it has a nameserver, else to the end of the queue.     *)
request_submit(s, h, n) ==
    LET t == [s EXCEPT !.req[h] = [NewRequest EXCEPT !.ns = n], !.hd[h].st = "live",
                       !.hd[h].current = TRUE]
    IN  IF n = NoNS
        THEN [t EXCEPT !.base.waiting = evdns_request_insert(@, h), !.base.nwaiting = @ + 1]
        ELSE evdns_request_transmit(
                 [t EXCEPT !.base.inflight = evdns_request_insert(@, h), !.base.ninflight = @ + 1,
                           !.ns[n].inflight = @ + 1], h)

(* A name with dots is tried as it is first, another one in the first      *)
(* domain of the search list.                                              *)
search_request_new(s, h) ==
    LET searching == h \notin NoSearch /\ num_domains > 0
        first     == IF searching /\ h \notin Dotted THEN 0 ELSE RawName
        p         == request_new(s, h, first)
        t         == [p.s EXCEPT !.hd[h].search = IF searching THEN first ELSE SearchOff]
    IN  request_submit(t, h, p.n)

(* Mutant: the name itself is never tried after the search list.           *)
search_try_next_no_raw(s, h) ==
    LET i == s.hd[h].search + 1
        p == request_new(s, h, i)
        t == request_finished([p.s EXCEPT !.hd[h].search = i], h, TRUE, FALSE)
    IN  IF s.hd[h].search = SearchOff \/ i >= num_domains THEN [more |-> FALSE, s |-> s]
        ELSE [more |-> TRUE, s |-> request_submit(t, h, p.n)]

(* Goes on to the next name of the search: more is FALSE at its end.  The  *)
(* new request is made, and its nameserver picked, before the old one      *)
(* leaves the inflight list.                                               *)
search_try_next(s, h) ==
    LET i   == s.hd[h].search + 1
        raw == i >= num_domains
        p   == request_new(s, h, IF raw THEN RawName ELSE i)
        t   == request_finished([p.s EXCEPT !.hd[h].search = IF raw THEN SearchOff ELSE i],
                                h, TRUE, FALSE)
    IN  IF s.hd[h].search = SearchOff THEN [more |-> FALSE, s |-> s]
        ELSE IF raw /\ h \in Dotted
        THEN [more |-> FALSE, s |-> [s EXCEPT !.hd[h].search = i]]
        ELSE [more |-> TRUE, s |-> request_submit(t, h, p.n)]

-----------------------------------------------------------------------------
(* Answers and timeouts.                                                   *)

(* Gives up after enough transmissions; else sends to the next nameserver. *)
evdns_request_timeout_callback(s, h) ==
    LET n  == s.req[h].ns
        u  == request_finished(reply_schedule_callback(s, h, "timeout"), h, TRUE, TRUE)
        t  == evdns_request_transmit(
                  swap_to_pick([s EXCEPT !.req[h].timer = FALSE], h), h)
        m  == t.req[h].ns
        t2 == [t EXCEPT !.ns[m].timedout = @ + 1]
    IN  IF s.req[h].tx >= global_max_retransmits
        THEN nameserver_failed(Touch(u, n), n)
        ELSE IF t2.ns[m].timedout > global_max_nameserver_timeout
        THEN nameserver_failed([t2 EXCEPT !.ns[m].timedout = 0], m)
        ELSE t2

(* Another nameserver gets the request: it goes out with the next round of *)
(* evdns_transmit, or when the timer it still has expires.                 *)
request_reissue(s, h) ==
    LET last == s.req[h].ns
        t    == swap_to_pick(s, h)
    IN  IF t.req[h].ns = last THEN [again |-> FALSE, s |-> t]
        ELSE [again |-> TRUE,
              s |-> [t EXCEPT !.req[h].reissue = @ + 1, !.req[h].tx = 0,
                              !.req[h].transmit_me = TRUE]]

(* n has answered: it is up, and a probe of it needs no cancellation.      *)
good_reply(s, h) ==
    LET n == s.req[h].ns
        t == IF s.ns[n].probe = h THEN [s EXCEPT !.ns[n].probe = NoHandle] ELSE s
    IN  nameserver_up(t, n)

(* The next name of the search, or the failure goes up.                    *)
next_or_fail(s, h, err) ==
    LET nx == search_try_next(s, h)
    IN  IF nx.more THEN nx.s
        ELSE request_finished(reply_schedule_callback(nx.s, h, err), h, TRUE, TRUE)

reply_handle(s, h, r) ==
    LET n == s.req[h].ns
        f == request_reissue(nameserver_failed(s, n), h)
    IN  CASE r = "answer" ->
                 request_finished(good_reply(reply_schedule_callback(s, h, r), h),
                                  h, TRUE, TRUE)
          [] r = "refused" ->
                 IF s.req[h].reissue >= global_max_reissues THEN next_or_fail(s, h, r)
                 ELSE IF f.again THEN f.s ELSE next_or_fail(f.s, h, r)
          [] r = "servfail" -> evdns_request_timeout_callback(s, h)
          [] r \in {"notexist", "format"} -> next_or_fail(good_reply(s, h), h, r)

-----------------------------------------------------------------------------
(* Entry points.                                                           *)

Init ==
    LET up == Range(InitNS) IN
    /\ base = [ring |-> InitNS, good |-> Len(InitNS), inflight |-> <<>>, waiting |-> <<>>,
               ninflight |-> 0, nwaiting |-> 0, freed |-> FALSE, assert |-> TRUE,
               wild |-> FALSE]
    /\ ns = [n \in NS |->
               [mem |-> IF n \in up THEN "live" ELSE "none", state |-> n \in up,
                event |-> n \in up /\ ~disable_when_inactive, write_waiting |-> FALSE,
                choked |-> FALSE, timer |-> FALSE, probe |-> NoHandle,
                inflight |-> 0, timedout |-> 0]]
    /\ req = [h \in Handles |-> NewRequest]
    /\ hd = [h \in Handles |->
               [st |-> "idle", current |-> FALSE, pending |-> FALSE, search |-> SearchOff,
                target |-> NoNS, tried |-> <<>>]]
    /\ deferred = <<>>
    /\ net = [n \in NS |-> "ok"]

Usable == ~base.freed /\ ~base.wild

(* A lookup by name; evdns_base_resolve_ipv6 does the same.                *)
evdns_base_resolve_ipv4(h) ==
    /\ Usable /\ hd[h].st = "idle"
    /\ Becomes(search_request_new(State, h))

(* A lookup by address, which searches nothing.                            *)
evdns_base_resolve_reverse(h) ==
    /\ Usable /\ hd[h].st = "idle" /\ h \in NoSearch
    /\ LET p == request_new(State, h, RawName) IN Becomes(request_submit(p.s, h, p.n))

(* The program cancels a lookup whose callback has not run.                *)
cancel_request(h) ==
    /\ "cancel" \in Ops
    /\ Usable /\ hd[h].st = "live"
    /\ Becomes(evdns_cancel_request(State, h))

evdns_nameserver_add_impl_(n) ==
    /\ "add" \in Ops
    /\ Usable /\ ns[n].mem = "none"
    /\ LET r == base.ring IN
       base' = [base EXCEPT !.good = @ + 1,
                            !.ring = IF r = <<>> THEN <<n>> ELSE <<Head(r), n>> \o Tail(r)]
    /\ ns' = [ns EXCEPT ![n].mem = "live", ![n].state = TRUE,
                        ![n].event = ~disable_when_inactive]
    /\ UNCHANGED <<req, hd, deferred, net>>

(* Frees one nameserver: its probe is canceled first, which may promote    *)
(* waiting requests to nameservers that are about to go, or already gone.  *)
clear_nameserver(s, n) ==
    [cancel_probe([s EXCEPT !.ns[n].event = FALSE, !.ns[n].timer = FALSE], n)
        EXCEPT !.ns[n].mem = "freed", !.ns[n].state = FALSE]

(* A request in flight goes back to the front of the waiting queue.        *)
suspend_request(s, h) ==
    [s EXCEPT !.req[h] = NewRequest, !.base.nwaiting = @ + 1,
              !.base.waiting = <<h>> \o @]

evdns_base_clear_nameservers_and_suspend ==
    /\ "clear" \in Ops
    /\ Usable /\ base.ring # <<>>
    /\ LET t == Over(clear_nameserver, base.ring, State)
           u == Over(suspend_request, t.base.inflight, t)
       IN  Becomes([u EXCEPT !.base.ring = <<>>, !.base.good = 0,
                             !.base.inflight = <<>>, !.base.ninflight = 0])

evdns_base_resume ==
    /\ "clear" \in Ops
    /\ Usable
    /\ Becomes(evdns_requests_pump_waiting_queue(State))

(* Ends the first request of the base, if there is one.                    *)
fail_first(s, fail_requests) ==
    LET w == s.base.waiting # <<>>
        h == Head(IF w THEN s.base.waiting ELSE s.base.inflight)
        t == IF fail_requests THEN reply_schedule_callback(s, h, "shutdown") ELSE s
    IN  IF s.base.waiting \o s.base.inflight = <<>> THEN s
        ELSE request_finished(t, h, ~w, TRUE)

evdns_nameserver_free(r) ==
    [r EXCEPT !.mem = "freed", !.event = FALSE, !.timer = FALSE, !.state = FALSE,
              !.probe = NoHandle]

(* All lookups end, then the nameservers go.  Requests are ended from the  *)
(* waiting queue first: each makes room that the next is promoted to.      *)
evdns_base_free(fail_requests) ==
    /\ "free" \in Ops
    /\ Usable
    /\ LET t == Repeat(LAMBDA s : fail_first(s, fail_requests),
                       Len(base.waiting) + Len(base.inflight), State)
       IN  Becomes([t EXCEPT !.base.freed = TRUE, !.base.ring = <<>>, !.base.good = 0,
                             !.base.ninflight = 0, !.base.nwaiting = 0,
                             !.ns = [n \in NS |-> IF n \in Range(base.ring)
                                                   THEN evdns_nameserver_free(t.ns[n])
                                                   ELSE t.ns[n]]])

(* The timer of a request expires.                                         *)
request_timeout(h) ==
    /\ ~base.wild /\ req[h].timer
    /\ Becomes(evdns_request_timeout_callback(State, h))

(* A probe is sent to n, in flight whatever the limit.                     *)
nameserver_send_probe(s, n, h) ==
    LET t == request_new(s, h, RawName).s
    IN  request_submit([t EXCEPT !.ns[n].probe = h, !.hd[h].target = n], h, n)

(* The timer of a nameserver that is down expires.                         *)
nameserver_prod_callback(n) ==
    /\ ~base.wild /\ ns[n].timer
    /\ \E h \in Probes :
         /\ hd[h].st = "idle"
         /\ Becomes(nameserver_send_probe([State EXCEPT !.ns[n].timer = FALSE], n, h))

(* What a socket event makes of the state: first the write half ...        *)
ready_write(s, n, w) ==
    LET t == evdns_transmit([s EXCEPT !.ns[n].choked = FALSE])
        tried == \E h \in Range(s.base.inflight) : s.req[h].transmit_me
    IN  IF ~w THEN s
        ELSE IF tried THEN t ELSE nameserver_write_waiting(t, n, FALSE)

(* ... then the packets.  A packet from n is an answer to what was sent to *)
(* n; it is accepted for any request in flight with its id, whichever      *)
(* nameserver has that request by now, and else dropped.                   *)
request_find_from_trans_id(s, n) == {h \in Range(s.base.inflight) : n \in s.req[h].sent}

reply_parse(s, n) ==
    {s} \cup {reply_handle(s, h, r) : h \in request_find_from_trans_id(s, n), r \in Replies}

(* The states a read of n's socket may lead to: nothing, an error, or a    *)
(* packet, which shows that n answers.                                     *)
nameserver_read(s, n) ==
    {s} \cup (IF s.net[n] = "err" THEN {nameserver_failed(s, n)} ELSE {})
        \cup reply_parse([s EXCEPT !.ns[n].timedout = 0], n)

nameserver_ready_callback(n) ==
    /\ ~base.wild /\ ns[n].event
    /\ \E w \in BOOLEAN :
         /\ w => ns[n].write_waiting /\ net[n] # "again"
         /\ \E t \in nameserver_read(ready_write(State, n, w), n) : Becomes(t)

(* A canceled probe says nothing about its nameserver.                     *)
nameserver_probe_callback(s, h, err) ==
    LET n == s.hd[h].target
        t == [Touch(s, n) EXCEPT !.ns[n].probe = NoHandle]
    IN  IF err = "cancel" THEN s
        ELSE IF err \in {"answer", "notexist"} THEN nameserver_up(t, n)
        ELSE nameserver_probe_failed(t, n)

(* The event loop runs the first deferred callback; the handle goes.       *)
reply_run_callback ==
    /\ ~base.wild /\ deferred # <<>>
    /\ LET d == Head(deferred)
           s == [State EXCEPT !.deferred = Tail(@)]
       IN  IF d.h \in Probes
           THEN Becomes([nameserver_probe_callback(s, d.h, d.err)
                            EXCEPT !.hd[d.h] = [@ EXCEPT !.st = "idle", !.pending = FALSE,
                                                         !.tried = <<>>, !.target = NoNS]])
           ELSE Becomes([s EXCEPT !.hd[d.h].st = "gone", !.hd[d.h].tried = <<>>])

(* The network changes its mind.                                           *)
NetChange(n, m) ==
    /\ ~base.wild /\ ns[n].mem = "live" /\ n \in Flaky /\ net[n] # m
    /\ net' = [net EXCEPT ![n] = m]
    /\ UNCHANGED <<base, ns, req, hd, deferred>>

(* After a use of freed memory nothing more is said.                       *)
Undefined == base.wild /\ UNCHANGED vars

Next ==
    \/ \E h \in Lookups : evdns_base_resolve_ipv4(h) \/ evdns_base_resolve_reverse(h) \/ cancel_request(h)
    \/ \E h \in Handles : request_timeout(h)
    \/ \E n \in NS :
           \/ evdns_nameserver_add_impl_(n)
           \/ nameserver_prod_callback(n)
           \/ nameserver_ready_callback(n)
           \/ \E m \in NetModes : NetChange(n, m)
    \/ evdns_base_clear_nameservers_and_suspend
    \/ evdns_base_resume
    \/ \E f \in BOOLEAN : evdns_base_free(f)
    \/ reply_run_callback
    \/ Undefined

Spec == Init /\ [][Next]_vars

-----------------------------------------------------------------------------
(* Properties.                                                             *)

(* The counters that steer the queue agree with the lists they count:      *)
(* global_requests_inflight and _waiting, requests_inflight of every       *)
(* nameserver and global_good_nameservers, which nameserver_pick trusts;   *)
(* every request is on exactly one list, in flight exactly when it has a   *)
(* nameserver of the ring; and no EVUTIL_ASSERT of evdns.c has failed.     *)
CountersAgree ==
    ~base.wild /\ ~base.freed =>
        /\ base.assert
        /\ base.ninflight = Len(base.inflight) /\ base.nwaiting = Len(base.waiting)
        /\ IsInjective(base.inflight \o base.waiting)
        /\ Range(base.inflight \o base.waiting) = {h \in Handles : hd[h].current}
        /\ \A h \in Range(base.inflight) : req[h].ns \in Range(base.ring)
        /\ \A h \in Range(base.waiting) : req[h] = NewRequest
        /\ \A n \in Range(base.ring) :
             ns[n].inflight = Cardinality({h \in Range(base.inflight) : req[h].ns = n})
        /\ base.good = Cardinality({n \in Range(base.ring) : ns[n].state})

(* The timer of a request in flight is pending, or the request waits for   *)
(* evdns_transmit and some socket is watched for writability.              *)
RequestMoves(h) ==
    \/ req[h].timer
    \/ req[h].transmit_me /\ \E n \in NS : ns[n].event /\ ns[n].write_waiting

(* The timer of a nameserver that is down is pending, or a probe of it is  *)
(* under way whose callback will decide.                                   *)
IsProbed(n) ==
    \/ ns[n].timer
    \/ \E h \in Probes : /\ hd[h].st = "live" /\ hd[h].target = n
                         /\ [h |-> h, err |-> "cancel"] \notin Range(deferred)

(* Nothing is forgotten: every request in flight can move on, and every    *)
(* nameserver that nameserver_failed took out of service is probed again,  *)
(* whatever was sent again, cancelled, cleared or lost in between.         *)
NothingStalls ==
    ~base.wild =>
        /\ \A h \in Range(base.inflight) : RequestMoves(h)
        /\ \A n \in Range(base.ring) : ns[n].state \/ IsProbed(n)

(* The names the search list stands for, in the order they are to be tried *)
NamesOf(h) ==
    IF h \in NoSearch \/ num_domains = 0 THEN <<RawName>>
    ELSE LET doms == [i \in 1..num_domains |-> i - 1]
         IN  IF h \in Dotted THEN <<RawName>> \o doms ELSE Append(doms, RawName)

(* Names are asked in the order of the search list, none of them twice,    *)
(* and a lookup fails because the name does not exist only when every one  *)
(* of them was asked, across retransmissions and suspensions.              *)
SearchIsExhaustive ==
    \A h \in Lookups :
        /\ IsPrefix(hd[h].tried, NamesOf(h))
        /\ (\E d \in Range(deferred) : d = [h |-> h, err |-> "notexist"])
             => hd[h].tried = NamesOf(h)

(* How a handle looks to its owner, in terms of Resolver.                  *)
Status(h) ==
    CASE hd[h].st = "idle" -> "idle"
      [] hd[h].st = "live" -> IF hd[h].pending THEN "decided" ELSE "active"
      [] hd[h].st = "gone" -> IF hd[h].pending THEN "reported" ELSE "forgotten"
Outcome(h) ==
    LET ds == {d \in Range(deferred) : d.h = h} IN
    IF ds # {} THEN (CHOOSE d \in ds : TRUE).err ELSE "none"

R == INSTANCE Resolver WITH
        Outcomes <- Replies \cup {"timeout", "cancel", "shutdown"}, Undecided <- "none",
        status <- [h \in Lookups |-> Status(h)], outcome <- [h \in Lookups |-> Outcome(h)]

(* The resolver keeps the promises of Resolver, whatever the nameservers   *)
(* and the network do: one decision and one callback for every lookup.     *)
ImplementsResolver == R!ResolverSpec
=============================================================================
