---------------------------- MODULE BufferEvent ----------------------------
(***************************************************************************)
(* Bufferevents: what all of them share (bufferevent.c), the ones on a     *)
(* socket (bufferevent_sock.c), in a pair (bufferevent_pair.c) and over    *)
(* another bufferevent (bufferevent_filter.c), and their rate limits       *)
(* (bufferevent_ratelim.c).                                                *)
(*                                                                         *)
(* A handler holds the bufferevent's lock from its first to its last line  *)
(* and is one action.  Buffers are the numbers of bytes in them; R and W   *)
(* are EV_READ and EV_WRITE.  The event loop polls when it has run what    *)
(* the last poll activated, and appends what is activated meanwhile.       *)
(* A second thread, where the program has one, makes the program's calls   *)
(* while the loop has taken an event off its queue but does not have the   *)
(* bufferevent's lock yet, and it may keep a lock over several calls.      *)
(***************************************************************************)
EXTENDS SequencesExt, Integers, FiniteSets

CONSTANTS
    Bevs,       \* the bufferevents
    NoBev,      \* NULL
    Programs,   \* see Program
    MaxLag,     \* bound: ticks that pass without an update of a bucket
    MaxBatch,   \* bound: events one poll activates
    MaxLength,  \* bound: bytes the program and its peers leave in a buffer
    MaxSingle   \* max_single_read and max_single_write

R == "R"
W == "W"
Dirs == {R, W}

(* A program: how its bufferevents are made, the calls it makes and how    *)
(* many of them, what its callbacks do (a sequence of calls), and what     *)
(* happens at the other ends.                                              *)
(* threads: calls are made by a thread that does not run the loop.         *)
VARIABLES
    does,       \* the program
    left,       \* calls it may still make
    bev,        \* struct bufferevent_private
    grp,        \* the struct bufferevent_rate_limit_group
    queue,      \* the base's active callbacks
    cur,        \* base->current_event, when it waits for a lock
    look,       \* the lookups under way
    held,       \* locks the program's thread keeps
    net,        \* the sockets: bytes to read, room to write, and state
    broken      \* "no", or what went wrong

vars == <<does, left, bev, grp, queue, cur, look, held, net, broken>>

(* by is the thread that makes the step: "loop" or "user". *)
State(by) == [does |-> does, left |-> left, bev |-> bev, grp |-> grp, queue |-> queue, cur |-> cur,
              look |-> look, held |-> held, net |-> net, broken |-> broken, by |-> by]

Becomes(s) ==
    /\ does' = s.does /\ left' = s.left /\ bev' = s.bev /\ grp' = s.grp /\ queue' = s.queue
    /\ cur' = s.cur /\ look' = s.look /\ held' = s.held /\ net' = s.net /\ broken' = s.broken

Breaks(s, how) == [s EXCEPT !.broken = IF @ = "no" THEN how ELSE @]

RECURSIVE Over(_, _, _)

Over(F(_, _), q, s) == IF q = <<>> THEN s ELSE Over(F, Tail(q), F(s, Head(q)))

Least(i, j) == IF i < j THEN i ELSE j

NoCfg == [rate |-> 0, maximum |-> 0]

Idle == <<"idle", NoBev, "">>

(* The lock of a pair is shared, and so is the one of a filter. *)
Lock(s, b) == s.bev[b].lock

(* EVLOCK_TRY_LOCK_: the loop's thread fails where the other one has it. *)
TryLock(s, b) == ~(s.by = "loop" /\ Lock(s, b) \in s.held)

-----------------------------------------------------------------------------
(* Events and callbacks of the base, as far as bufferevents use them.      *)
(* ev is "off", "on", or "timed" when it also has a timeout.  The event    *)
(* that waits for bufferevent_finalize_cb_ can be neither added nor        *)
(* deleted.  All of them are EV_FINALIZE, so that event_del never waits.   *)

Without(q, kind, b) == SelectSeq(q, LAMBDA e : ~(e[1] = kind /\ e[2] = b))

Queued(s, kind, b) == \E i \in DOMAIN s.queue : s.queue[i][1] = kind /\ s.queue[i][2] = b

(* A new timeout also takes back one that has fired but has not run. *)
event_add(s, b, d, timeout) ==
    IF s.bev[b].fin = d THEN s
    ELSE [s EXCEPT !.bev[b].ev[d] = IF timeout \/ @ = "timed" THEN "timed" ELSE "on",
                   !.queue = IF timeout THEN SelectSeq(@, LAMBDA e : e # <<d, b, "timeout">>)
                             ELSE @]

event_del(s, b, d) ==
    IF s.bev[b].fin = d THEN s
    ELSE [s EXCEPT !.bev[b].ev[d] = "off", !.queue = Without(@, d, b)]

bufferevent_add_event_(s, b, d) == event_add(s, b, d, d \in s.bev[b].timeout)

(* event_add and event_del of refill_bucket_event *)
refill_add(s, b) == IF s.bev[b].fin = "refill" THEN s
                    ELSE [s EXCEPT !.bev[b].refill = "added", !.queue = Without(@, "refill", b)]

refill_del(s, b) == IF s.bev[b].fin = "refill" THEN s
                    ELSE [s EXCEPT !.bev[b].refill = "off", !.queue = Without(@, "refill", b)]

(* One callback of the bufferevent, the one that is running if there is    *)
(* one, stays to run the finalizer; the others are cancelled.              *)
event_callback_finalize_many_(s, b) ==
    LET last == IF s.cur[2] = b /\ s.cur[1] \in {R, W, "D", "refill"} THEN s.cur[1] ELSE R
        del(t, d) == event_del(t, b, d)
        cancelled == [refill_del(Over(del, <<R, W>>, s), b)
                        EXCEPT !.queue = Without(@, "D", b)]
    IN  IF s.bev[b].fin # "no" THEN cancelled
        ELSE [cancelled EXCEPT !.bev[b].fin = last, !.queue = Append(@, <<"F", b, "">>)]

(* BEV_RESET_GENERIC_READ_TIMEOUT and its like: ev_read and ev_write of    *)
(* pairs and filters are timers.                                           *)
reset_generic_timeout(s, b, d) ==
    IF d \in s.bev[b].timeout THEN event_add(s, b, d, TRUE) ELSE s

-----------------------------------------------------------------------------
(* The operations of the three kinds call each other, through be_ops, the  *)
(* callbacks of their buffers and those of the program: enter is defined   *)
(* when all of them are.                                                   *)
RECURSIVE enter(_, _, _, _)

be_enable(s, b, D) == enter("enable", s, b, <<D>>)
be_disable(s, b, D) == enter("disable", s, b, <<D>>)
flush(s, b, io, mode) == enter("flush", s, b, <<io, mode>>)
input_changed(s, b) == enter("input", s, b, <<>>)
output_changed(s, b, added) == enter("output", s, b, <<added>>)
invoke(s, b, which, what) == enter("invoke", s, b, <<which, what>>)
free(s, b) == enter("free", s, b, <<>>)
decref(s, b) == enter("decref", s, b, <<>>)
call(s, c) == enter("call", s, c[2], c)

(* suspend and unsuspend of reading and of writing; what is the reason. *)
bufferevent_suspend_(s, b, d, what) ==
    LET flagged(t) == [t EXCEPT !.bev[b].susp[d] = @ \union {what}]
    IN  flagged(IF s.bev[b].susp[d] = {} THEN be_disable(s, b, {d}) ELSE s)

bufferevent_unsuspend_(s, b, d, what) ==
    LET on(t) == IF t.bev[b].susp[d] = {} /\ d \in t.bev[b].enabled THEN be_enable(t, b, {d}) ELSE t
    IN  on([s EXCEPT !.bev[b].susp[d] = @ \ {what}])

bufferevent_incref_(s, b) == [s EXCEPT !.bev[b].refcnt = @ + 1]

SCHEDULE_DEFERRED(s, b) ==
    IF Queued(s, "D", b) \/ s.bev[b].fin = "D" THEN s
    ELSE bufferevent_incref_([s EXCEPT !.queue = Append(@, <<"D", b, "">>)], b)

Deferred(s, b, options) == "defer" \in s.bev[b].options \union options

bufferevent_run_writecb_(s, b, options) ==
    IF s.bev[b].cb = "none" THEN s
    ELSE IF Deferred(s, b, options)
         THEN SCHEDULE_DEFERRED([s EXCEPT !.bev[b].pending = @ \union {"write"}], b)
    ELSE invoke(s, b, "write", {})

bufferevent_run_eventcb_(s, b, what, options) ==
    IF s.bev[b].cb = "none" THEN s
    ELSE IF Deferred(s, b, options)
         THEN SCHEDULE_DEFERRED([s EXCEPT !.bev[b].eventcb_pending = @ \union what], b)
    ELSE invoke(s, b, "event", what)

(* The read callback is to be called again while input is at the mark.     *)
(* The trigger is a deferred one, so that it calls nothing from here.      *)
bufferevent_inbuf_wm_check(s, b) ==
    LET x == s.bev[b]
    IN  IF x.high = 0 \/ R \notin x.enabled \/ x.input < x.high \/ x.input < x.low[R]
           \/ x.cb = "none"
        THEN s ELSE SCHEDULE_DEFERRED([s EXCEPT !.bev[b].pending = @ \union {"read"}], b)

bufferevent_run_readcb_(s, b, options) ==
    IF s.bev[b].cb = "none" THEN s
    ELSE IF Deferred(s, b, options)
         THEN SCHEDULE_DEFERRED([s EXCEPT !.bev[b].pending = @ \union {"read"}], b)
    ELSE bufferevent_inbuf_wm_check(invoke(s, b, "read", {}), b)

bufferevent_trigger_nolock_(s, b, io, options) ==
    LET any == "ignore_watermarks" \in options
        write(t) == IF W \in io /\ (any \/ t.bev[b].output <= t.bev[b].low[W])
                    THEN bufferevent_run_writecb_(t, b, options) ELSE t
    IN  write(IF R \in io /\ (any \/ s.bev[b].input >= s.bev[b].low[R])
              THEN bufferevent_run_readcb_(s, b, options) ELSE s)

bufferevent_inbuf_wm_cb(s, b) ==
    IF s.bev[b].input >= s.bev[b].high THEN bufferevent_suspend_(s, b, R, "WM")
    ELSE bufferevent_unsuspend_(s, b, R, "WM")

(* A parameter stands for the four parts of a deferred callback and the    *)
(* end of it, in turn.  Between the parts BEV_OPT_UNLOCK_CALLBACKS has     *)
(* them let go of the lock, see Run.                                       *)
DeferredParts == <<"connected", "read", "write", "event", "decref">>

run_deferred_callback(s, b, part) ==
    LET x == s.bev[b]
        set == x.cb # "none"
    IN  CASE part = "connected" ->
               IF set /\ "CONNECTED" \in x.eventcb_pending
               THEN invoke([s EXCEPT !.bev[b].eventcb_pending = @ \ {"CONNECTED"}],
                           b, "event", {"CONNECTED"})
               ELSE s
          [] part = "read" ->
               IF set /\ "read" \in x.pending
               THEN bufferevent_inbuf_wm_check(
                      invoke([s EXCEPT !.bev[b].pending = @ \ {"read"}], b, "read", {}), b)
               ELSE s
          [] part = "write" ->
               IF set /\ "write" \in x.pending
               THEN invoke([s EXCEPT !.bev[b].pending = @ \ {"write"}], b, "write", {})
               ELSE s
          [] part = "event" ->
               IF set /\ x.eventcb_pending # {}
               THEN invoke([s EXCEPT !.bev[b].eventcb_pending = {}], b, "event", x.eventcb_pending)
               ELSE s
          [] part = "decref" -> decref(s, b)

bufferevent_enable(s, b, D) ==
    LET now == {d \in D : s.bev[b].susp[d] = {}}
        on == [s EXCEPT !.bev[b].enabled = @ \union D]
    IN  IF now = {} THEN on ELSE be_enable(on, b, now)

bufferevent_disable(s, b, D) == be_disable([s EXCEPT !.bev[b].enabled = @ \ D], b, D)

bufferevent_disable_hard_(s, b, D) ==
    be_disable([s EXCEPT !.bev[b].enabled = @ \ D, !.bev[b].connecting = FALSE], b, D)

bufferevent_setwatermark(s, b, D, low, high) ==
    LET write == IF W \in D THEN [s EXCEPT !.bev[b].low[W] = low, !.bev[b].high_write = high] ELSE s
        read == [write EXCEPT !.bev[b].low[R] = low, !.bev[b].high = high]
    IN  IF R \notin D THEN write
        ELSE IF high # 0 THEN bufferevent_inbuf_wm_cb(read, b)
        ELSE bufferevent_unsuspend_(read, b, R, "WM")

-----------------------------------------------------------------------------
(* Rate limits.  A bucket has, per direction, the bytes that may still     *)
(* pass, and the ticks that went by since last_updated.  A cfg has one     *)
(* rate and one burst for both directions.                                 *)

ev_token_bucket_init_(bucket, cfg, reinitialize) ==
    IF reinitialize
    THEN [bucket EXCEPT !.limit = [d \in Dirs |-> Least(bucket.limit[d], cfg.maximum)]]
    ELSE [limit |-> [d \in Dirs |-> cfg.rate], lag |-> 0]

(* maximum - limit is a difference of unsigned numbers: where the limit is *)
(* above the maximum it is enormous, and so is the quotient.               *)
ev_token_bucket_update_(bucket, cfg) ==
    LET n == bucket.lag
        filled(l) == IF l <= cfg.maximum /\ (cfg.maximum - l) \div n < cfg.rate
                     THEN cfg.maximum ELSE l + n * cfg.rate
    IN  IF n = 0 THEN bucket
        ELSE [limit |-> [d \in Dirs |-> filled(bucket.limit[d])], lag |-> 0]

bufferevent_update_buckets(s, b) ==
    IF s.bev[b].cfg = NoCfg THEN s
    ELSE [s EXCEPT !.bev[b].bucket = ev_token_bucket_update_(@, s.bev[b].cfg)]

bev_group_suspend_(s, d) ==
    LET one(t, b) == IF TryLock(t, b) THEN bufferevent_suspend_(t, b, d, "GROUP") ELSE t
    IN  Over(one, s.grp.members,
             [s EXCEPT !.grp.suspended = @ \union {d}, !.grp.pending_unsuspend = @ \ {d}])

(* Mutant: a member whose lock is taken is forgotten. *)
group_unsuspend_once(s, d) ==
    LET one(t, b) == IF TryLock(t, b) THEN bufferevent_unsuspend_(t, b, d, "GROUP") ELSE t
    IN  Over(one, s.grp.members, [s EXCEPT !.grp.suspended = @ \ {d}, !.grp.pending_unsuspend = @ \ {d}])

(* The random order only makes it fair. *)
bev_group_unsuspend_(s, d) ==
    LET one(t, b) == IF TryLock(t, b) THEN bufferevent_unsuspend_(t, b, d, "GROUP") ELSE t
        again(t) == IF \E i \in DOMAIN t.grp.members : ~TryLock(t, t.grp.members[i])
                    THEN [t EXCEPT !.grp.pending_unsuspend = @ \union {d}]
                    ELSE [t EXCEPT !.grp.pending_unsuspend = @ \ {d}]
    IN  again(Over(one, s.grp.members, [s EXCEPT !.grp.suspended = @ \ {d}]))

(* bufferevent_get_rlim_max_: what it does, and then what it returns *)
rlim_update(s, b, d) ==
    LET group(t) == IF t.bev[b].grouped /\ d \in t.grp.suspended
                    THEN bufferevent_suspend_(t, b, d, "GROUP") ELSE t
    IN  group(bufferevent_update_buckets(s, b))

(* Mutant: the bufferevent's own bucket does not count. *)
rlim_max_grouped(s, b, d) ==
    LET part == s.grp.bucket.limit[d] \div Len(s.grp.members)
    IN  IF ~s.bev[b].grouped THEN MaxSingle
        ELSE IF d \in s.grp.suspended THEN 0
        ELSE IF part < s.grp.min_share THEN s.grp.min_share ELSE part

bufferevent_get_rlim_max_(s, b, d) ==
    LET x == s.bev[b]
        own == IF x.cfg # NoCfg THEN x.bucket.limit[d] ELSE MaxSingle
        part == s.grp.bucket.limit[d] \div Len(s.grp.members)
        share == IF d \in s.grp.suspended THEN 0
                 ELSE IF part < s.grp.min_share THEN s.grp.min_share ELSE part
        most == IF x.grouped THEN Least(own, share) ELSE own
    IN  IF most < 0 THEN 0 ELSE most

Other(d) == IF d = R THEN W ELSE R

(* limits that may resume are decided by now (is the bucket above zero)    *)
(* and by was, which is the only difference between the two callers.       *)
resume(s, b, d) ==
    bufferevent_unsuspend_(IF "BW" \in s.bev[b].susp[Other(d)] THEN s ELSE refill_del(s, b),
                           b, d, "BW")

exhaust(s, b, d) == refill_add(bufferevent_suspend_(s, b, d, "BW"), b)

bufferevent_decrement_buckets_(s, b, d, n) ==
    LET own(t) == IF t.bev[b].bucket.limit[d] <= 0 THEN exhaust(t, b, d)
                  ELSE IF "BW" \in t.bev[b].susp[d] THEN resume(t, b, d) ELSE t
        group(t) == IF t.grp.bucket.limit[d] <= 0 THEN bev_group_suspend_(t, d)
                    ELSE IF d \in t.grp.suspended THEN bev_group_unsuspend_(t, d) ELSE t
        mine(t) == IF t.bev[b].cfg = NoCfg THEN t
                   ELSE own([t EXCEPT !.bev[b].bucket.limit[d] = @ - n])
        ours(t) == IF ~t.bev[b].grouped THEN t
                   ELSE group([t EXCEPT !.grp.bucket.limit[d] = @ - n])
    IN  ours(mine(s))

bufferevent_decrement_limit(s, b, d, n) ==
    LET old == s.bev[b].bucket.limit[d]
        t == [s EXCEPT !.bev[b].bucket.limit[d] = old - n]
    IN  IF old > 0 /\ old - n <= 0 THEN exhaust(t, b, d)
        ELSE IF old <= 0 /\ old - n > 0 THEN resume(t, b, d) ELSE t

bufferevent_rate_limit_group_decrement(s, d, n) ==
    LET old == s.grp.bucket.limit[d]
        t == [s EXCEPT !.grp.bucket.limit[d] = old - n]
    IN  IF old > 0 /\ old - n <= 0 THEN bev_group_suspend_(t, d)
        ELSE IF old <= 0 /\ old - n > 0 THEN bev_group_unsuspend_(t, d) ELSE t

bev_refill_callback_(s, b) ==
    LET unsuspend(t, d) == IF "BW" \in t.bev[b].susp[d] /\ t.bev[b].bucket.limit[d] > 0
                           THEN bufferevent_unsuspend_(t, b, d, "BW") ELSE t
        again(t) == IF \E d \in Dirs : "BW" \in t.bev[b].susp[d] /\ t.bev[b].bucket.limit[d] <= 0
                    THEN refill_add(t, b) ELSE t
    IN  IF s.bev[b].cfg = NoCfg THEN s
        ELSE again(Over(unsuspend, <<R, W>>, bufferevent_update_buckets(s, b)))

bev_group_refill_callback_(s) ==
    LET one(t, d) == IF \/ d \in t.grp.pending_unsuspend
                        \/ d \in t.grp.suspended /\ t.grp.bucket.limit[d] >= t.grp.min_share
                     THEN bev_group_unsuspend_(t, d) ELSE t
    IN  Over(one, <<R, W>>, [s EXCEPT !.grp.bucket = ev_token_bucket_update_(@, s.grp.cfg)])

bufferevent_set_rate_limit(s, b, cfg) ==
    LET x == s.bev[b]
        lift(t, d) == bufferevent_unsuspend_(t, b, d, "BW")
        set(t, d) == IF t.bev[b].bucket.limit[d] > 0 THEN bufferevent_unsuspend_(t, b, d, "BW")
                     ELSE bufferevent_suspend_(t, b, d, "BW")
        armed(t) == IF \E d \in Dirs : t.bev[b].bucket.limit[d] <= 0 THEN refill_add(t, b) ELSE t
        fresh == [s EXCEPT !.bev[b].cfg = cfg,
                           !.bev[b].bucket = ev_token_bucket_init_(@, cfg, x.cfg # NoCfg)]
    IN  IF cfg = x.cfg /\ cfg # NoCfg THEN s
        ELSE IF cfg = NoCfg
             THEN refill_del(Over(lift, <<R, W>>, [s EXCEPT !.bev[b].cfg = NoCfg]), b)
        ELSE armed(Over(set, <<R, W>>, refill_del(fresh, b)))

bufferevent_rate_limit_group_set_min_share(s, share) ==
    [s EXCEPT !.grp.configured_min_share = share,
              !.grp.min_share = Least(share, s.grp.cfg.rate)]

bufferevent_rate_limit_group_set_cfg(s, cfg) ==
    bufferevent_rate_limit_group_set_min_share(
        [s EXCEPT !.grp.cfg = cfg,
                  !.grp.bucket.limit = [d \in Dirs |-> Least(@[d], cfg.maximum)]],
        s.grp.configured_min_share)

(* leaving, with or without the unsuspending that the finalizer leaves out *)
leave_group(s, b) ==
    [s EXCEPT !.bev[b].grouped = FALSE,
              !.grp.members = SelectSeq(@, LAMBDA m : m # b)]

bufferevent_remove_from_rate_limit_group(s, b) ==
    LET lift(t, d) == bufferevent_unsuspend_(t, b, d, "GROUP")
    IN  Over(lift, <<R, W>>, leave_group(s, b))

bufferevent_add_to_rate_limit_group(s, b) ==
    LET suspend(t, d) == IF d \in t.grp.suspended THEN bufferevent_suspend_(t, b, d, "GROUP") ELSE t
    IN  IF s.bev[b].grouped THEN s
        ELSE Over(suspend, <<R, W>>,
                  [s EXCEPT !.bev[b].grouped = TRUE, !.grp.members = <<b>> \o @])

-----------------------------------------------------------------------------
(* Bufferevents on a socket. *)

bufferevent_socket_outbuf_cb(s, b, added) ==
    LET x == s.bev[b]
    IN  IF added /\ W \in x.enabled /\ x.ev[W] = "off" /\ x.susp[W] = {}
        THEN bufferevent_add_event_(s, b, W) ELSE s

be_socket_enable(s, b, D) ==
    LET add(t, d) == IF d \in D THEN bufferevent_add_event_(t, b, d) ELSE t
    IN  Over(add, <<R, W>>, s)

be_socket_disable(s, b, D) ==
    LET del(t, d) == IF d \in D /\ (d = R \/ ~t.bev[b].connecting) THEN event_del(t, b, d) ELSE t
    IN  Over(del, <<R, W>>, s)

(* the label error of both callbacks *)
failed(s, b, d, what) ==
    bufferevent_run_eventcb_(bufferevent_disable(s, b, {d}), b, {what}, {})

(* evbuffer_read: what the kernel gives for at most n bytes *)
recv(s, b, n) ==
    LET k == s.net[b]
    IN  IF k.state = "refused" THEN "refused"
        ELSE IF k.state = "reset" THEN "error"
        ELSE IF n > 0 /\ k.in = 0 /\ ~k.eof THEN "again"
        ELSE IF n = 0 \/ k.in = 0 THEN "eof" ELSE "bytes"

bufferevent_readcb(s, b, what) ==
    LET x == s.bev[b]
        howmuch(t) == LET most == bufferevent_get_rlim_max_(t, b, R)
                      IN  IF x.high = 0 THEN most ELSE Least(x.high - x.input, most)
        got(t, n) == bufferevent_trigger_nolock_(
                       bufferevent_decrement_buckets_(
                         input_changed([t EXCEPT !.bev[b].input = @ + n, !.net[b].in = @ - n], b),
                         b, R, n), b, {R}, {})
        result(t, n) == CASE recv(t, b, n) = "bytes" -> got(t, Least(n, t.net[b].in))
                          [] recv(t, b, n) = "again" -> t
                          [] recv(t, b, n) = "refused" ->
                               [t EXCEPT !.bev[b].connection_refused = TRUE]
                          [] recv(t, b, n) = "eof" -> failed(t, b, R, "EOF")
                          [] recv(t, b, n) = "error" -> failed(t, b, R, "ERROR")
        read(t) == IF t.bev[b].susp[R] # {} THEN t ELSE result(t, howmuch(t))
        run(t) == IF what = "timeout" THEN failed(t, b, R, "TIMEOUT")
                  ELSE IF x.high # 0 /\ x.input >= x.high THEN bufferevent_suspend_(t, b, R, "WM")
                  ELSE read(rlim_update(t, b, R))
    IN  decref(run(bufferevent_incref_(s, b)), b)

(* evutil_socket_finished_connecting_, and the faked error *)
finished(s, b) ==
    IF s.bev[b].connection_refused \/ s.net[b].state = "refused" THEN "no"
    ELSE IF s.net[b].state = "pending" THEN "not yet" ELSE "yes"

bufferevent_writecb(s, b, what) ==
    LET drained(t) == IF t.bev[b].output = 0 THEN event_del(t, b, W) ELSE t
        told(t, tell) == IF tell THEN bufferevent_trigger_nolock_(t, b, {W}, {}) ELSE t
        sent(t, n) == told(drained(bufferevent_decrement_buckets_(
                             output_changed([t EXCEPT !.bev[b].output = @ - n, !.net[b].room = @ - n],
                                            b, FALSE), b, W, n)), TRUE)
        atmost(t) == Least(bufferevent_get_rlim_max_(t, b, W), t.bev[b].output)
        result(t) == IF t.net[b].state = "reset" THEN failed(t, b, W, "ERROR")
                     ELSE IF Least(atmost(t), t.net[b].room) = 0 THEN drained(t)
                     ELSE sent(t, Least(atmost(t), t.net[b].room))
        write(t, connected) ==
            IF t.bev[b].susp[W] # {} THEN t
            ELSE IF t.bev[b].output > 0 THEN result(t)
            ELSE told(drained(t), ~connected)
        started(t) == IF W \notin t.bev[b].enabled \/ t.bev[b].susp[W] # {} THEN event_del(t, b, W)
                      ELSE write(rlim_update(t, b, W), TRUE)
        over(t) == [t EXCEPT !.bev[b].connecting = FALSE, !.bev[b].connection_refused = FALSE]
        connected(t) == IF finished(t, b) = "not yet" THEN t
                        ELSE IF finished(t, b) = "no"
                        THEN bufferevent_run_eventcb_(
                                 [event_del(event_del(over(t), b, W), b, R)
                                    EXCEPT !.bev[b].phase = "failed"], b, {"ERROR"}, {})
                        ELSE started(bufferevent_run_eventcb_(over(t), b, {"CONNECTED"}, {}))
        run(t) == IF what = "timeout" THEN failed(t, b, W, "TIMEOUT")
                  ELSE IF t.bev[b].connecting THEN connected(t)
                  ELSE write(rlim_update(t, b, W), FALSE)
    IN  decref(run(bufferevent_incref_(s, b)), b)

evutil_getaddrinfo_cancel_async_(s, id) ==
    [s EXCEPT !.look = {IF l.id = id THEN [l EXCEPT !.cancelled = TRUE] ELSE l : l \in @}]

be_socket_setfd(s, b, fd) ==
    LET new == [event_del(event_del(s, b, R), b, W) EXCEPT !.bev[b].fd = fd]
    IN  evutil_getaddrinfo_cancel_async_(
            IF fd THEN bufferevent_enable(new, b, new.bev[b].enabled) ELSE new,
            s.bev[b].dns_request)

(* outcome is what evutil_socket_connect_ says: "error" (-1), "wait" (0),  *)
(* "done" (1) or "refused" (2)                                             *)
bufferevent_socket_connect(s, b, outcome) ==
    LET socket(t, state) == be_socket_setfd([t EXCEPT !.net[b].state = state], b, TRUE)
        asked(t) == [t EXCEPT !.bev[b].connecting = TRUE, !.bev[b].phase = "connecting"]
    IN  CASE outcome = "error" -> s
          [] outcome = "wait" -> asked(be_socket_enable(socket(s, "pending"), b, {W}))
          [] outcome = "done" ->
               bufferevent_trigger_nolock_(asked(socket(s, "ok")), b, {W}, {"defer"})
          [] outcome = "refused" ->
               bufferevent_disable(
                   bufferevent_run_eventcb_(socket(s, "refused"), b, {"ERROR"}, {"defer"}), b, Dirs)

bufferevent_connect_getaddrinfo_cb(s, b, result) ==
    LET awake(t) == [bufferevent_unsuspend_(bufferevent_unsuspend_(t, b, W, "LOOKUP"), b, R, "LOOKUP")
                      EXCEPT !.bev[b].dns_request = 0]
        error(t) == bufferevent_run_eventcb_(t, b, {"ERROR"}, {})
        run(t) == CASE result = "cancel" -> t
                    [] result = "fail" -> error(t)
                    [] result = "error" -> error(t)
                    [] OTHER -> bufferevent_socket_connect(t, b, result)
    IN  decref(run(awake(s)), b)

bufferevent_socket_connect_hostname(s, b) ==
    LET id == CHOOSE i \in 1..2 : \A l \in s.look : l.id # i
        waits(t) == bufferevent_suspend_(bufferevent_suspend_(t, b, W, "LOOKUP"), b, R, "LOOKUP")
    IN  [bufferevent_incref_(waits(s), b)
            EXCEPT !.bev[b].dns_request = id,
                   !.look = @ \union {[id |-> id, bev |-> b, cancelled |-> FALSE]}]

-----------------------------------------------------------------------------
(* Bytes that go from one buffer to another: evbuffer_remove_buffer, which *)
(* is evbuffer_add_buffer when it takes all of them.                       *)
move(s, from, out, to, in, n) ==
    LET m == Least(n, s.bev[from][out])
        moved == [s EXCEPT !.bev[from][out] = @ - m, !.bev[to][in] = @ + m]
        less(t) == IF out = "input" THEN input_changed(t, from) ELSE output_changed(t, from, FALSE)
        more(t) == IF in = "input" THEN input_changed(t, to) ELSE output_changed(t, to, TRUE)
    IN  IF m = 0 THEN s ELSE IF m = s.bev[from][out] THEN more(less(moved)) ELSE less(more(moved))

(* Pairs. *)

be_pair_transfer(s, src, dst, ignore_wm) ==
    LET x == s.bev[dst]
        all == s.bev[src].output
        n == IF x.high # 0 /\ x.input < x.high THEN x.high - x.input ELSE all
        timers(t) == IF n = 0 THEN t
                     ELSE IF t.bev[dst].output > 0
                     THEN reset_generic_timeout(reset_generic_timeout(t, dst, R), dst, W)
                     ELSE event_del(reset_generic_timeout(t, dst, R), dst, W)
        told(t) == bufferevent_trigger_nolock_(
                       bufferevent_trigger_nolock_(t, dst, {R}, {}), src, {W}, {})
    IN  IF x.high # 0 /\ x.input >= x.high /\ ~ignore_wm THEN s
        ELSE told(timers(move(s, src, "output", dst, "input", n)))

be_pair_wants_to_talk(s, src, dst) ==
    /\ W \in s.bev[src].enabled
    /\ R \in s.bev[dst].enabled
    /\ s.bev[dst].susp[R] = {}
    /\ s.bev[src].output > 0

be_pair_outbuf_cb(s, b, added) ==
    LET p == s.bev[b].partner
    IN  IF added /\ p # NoBev /\ be_pair_wants_to_talk(s, b, p)
        THEN be_pair_transfer(s, b, p, FALSE) ELSE s

be_pair_enable(s, b, D) ==
    LET p == s.bev[b].partner
        talk(t, src, dst) == IF p # NoBev /\ be_pair_wants_to_talk(t, src, dst)
                             THEN be_pair_transfer(t, src, dst, FALSE) ELSE t
        timed(t) == IF W \in D /\ t.bev[b].output > 0 THEN reset_generic_timeout(t, b, W) ELSE t
        reads(t) == IF R \in D THEN talk(t, p, b) ELSE t
        writes(t) == IF W \in D THEN talk(t, b, p) ELSE t
    IN  writes(reads(timed(IF R \in D THEN reset_generic_timeout(s, b, R) ELSE s)))

generic_disable(s, b, D) ==
    LET del(t, d) == IF d \in D THEN event_del(t, b, d) ELSE t
    IN  Over(del, <<R, W>>, s)

be_pair_unlink(s, b) ==
    IF s.bev[b].partner = NoBev THEN s
    ELSE [s EXCEPT !.bev[b].unlinked_partner = s.bev[b].partner,
                   !.bev[s.bev[b].partner].partner = NoBev, !.bev[b].partner = NoBev]

(* The lock they share goes to the one that is left. *)
be_pair_destruct(s, b) ==
    LET p == s.bev[b].unlinked_partner
    IN  IF p # NoBev /\ s.bev[b].own_lock
        THEN [s EXCEPT !.bev[p].own_lock = TRUE, !.bev[b].own_lock = FALSE]
        ELSE s

be_pair_flush(s, b, io, mode) ==
    LET p == s.bev[b].partner
        reads(t) == IF R \in io THEN be_pair_transfer(t, p, b, TRUE) ELSE t
        writes(t) == IF W \in io THEN be_pair_transfer(t, b, p, TRUE) ELSE t
        ends(t) == IF mode = "FINISHED" THEN bufferevent_run_eventcb_(t, p, {"EOF"}, {}) ELSE t
    IN  IF p = NoBev \/ mode = "NORMAL" THEN s ELSE ends(writes(reads(s)))

-----------------------------------------------------------------------------
(* Filters, with be_null_filter both ways: it moves what the limit allows. *)

be_underlying_writebuf_full(s, f, mode) ==
    LET u == s.bev[s.bev[f].underlying]
    IN  mode = "NORMAL" /\ u.high_write # 0 /\ u.output >= u.high_write

be_readbuf_full(s, f, mode) ==
    mode = "NORMAL" /\ s.bev[f].high # 0 /\ s.bev[f].input >= s.bev[f].high

RECURSIVE filter_in(_, _, _), filter_out(_, _, _), out_rounds(_, _, _)

filter_in(s, f, mode) ==
    LET u == s.bev[f].underlying
        limit == IF mode = "NORMAL" /\ s.bev[f].high # 0 THEN s.bev[f].high - s.bev[f].input
                 ELSE s.bev[u].input
        again(t) == IF R \in t.bev[f].enabled /\ t.bev[u].input > 0 /\ ~be_readbuf_full(t, f, mode)
                    THEN filter_in(t, f, mode) ELSE t
    IN  again(move(s, u, "input", f, "input", limit))

(* the first test of be_filter_process_input, and the rest of it; the      *)
(* filter never fails, so that what it begins it has processed             *)
processes_input(s, f, mode) ==
    mode # "NORMAL" \/ (R \in s.bev[f].enabled /\ ~be_readbuf_full(s, f, mode))

be_filter_process_input(s, f, mode) ==
    IF processes_input(s, f, mode) THEN reset_generic_timeout(filter_in(s, f, mode), f, R) ELSE s

filter_out(s, f, mode) ==
    LET u == s.bev[f].underlying
        limit == IF mode = "NORMAL" /\ s.bev[u].high_write # 0
                 THEN s.bev[u].high_write - s.bev[u].output ELSE s.bev[f].output
        again(t) == IF /\ W \in t.bev[f].enabled /\ t.bev[f].output > 0
                       /\ ~be_underlying_writebuf_full(t, f, mode)
                    THEN filter_out(t, f, mode) ELSE t
    IN  again(move(s, f, "output", u, "output", limit))

out_rounds(s, f, mode) ==
    LET again(t) == IF /\ W \in t.bev[f].enabled /\ t.bev[f].output > 0
                       /\ ~be_underlying_writebuf_full(t, f, mode)
                    THEN out_rounds(t, f, mode) ELSE t
    IN  again(bufferevent_trigger_nolock_(filter_out(s, f, mode), f, {W}, {}))

be_filter_process_output(s, f, mode) ==
    LET idle == \/ W \notin s.bev[f].enabled
                \/ be_underlying_writebuf_full(s, f, mode)
                \/ s.bev[f].output = 0
        quiet == [s EXCEPT !.bev[f].outbuf_cb = FALSE]
    IN  IF mode = "NORMAL" /\ idle THEN s
        ELSE reset_generic_timeout([out_rounds(quiet, f, mode) EXCEPT !.bev[f].outbuf_cb = TRUE],
                                   f, W)


be_filter_read_nolock_(s, f) ==
    LET u == s.bev[f].underlying
        left_over(t) == IF t.bev[u].input > 0 /\ be_readbuf_full(t, f, "NORMAL")
                        THEN [t EXCEPT !.bev[f].inbuf_cb = TRUE] ELSE t
    IN  IF s.bev[f].refcnt = 0 \/ ~processes_input(s, f, "NORMAL") THEN s
        ELSE left_over(bufferevent_trigger_nolock_(be_filter_process_input(s, f, "NORMAL"),
                                                   f, {R}, {}))

bufferevent_filtered_inbuf_cb(s, f) ==
    LET quiet == [s EXCEPT !.bev[f].inbuf_cb = FALSE]
    IN  IF be_readbuf_full(s, f, "NORMAL") THEN s
        ELSE IF s.bev[s.bev[f].underlying].input > 0 THEN be_filter_read_nolock_(quiet, f) ELSE quiet

bufferevent_filtered_outbuf_cb(s, f, added) ==
    IF added
    THEN decref(be_filter_process_output(bufferevent_incref_(s, f), f, "NORMAL"), f)
    ELSE s

(* be_filter_readcb, be_filter_writecb and be_filter_eventcb *)
filter_callback(s, f, which, what) ==
    IF s.bev[f].state = "gone" THEN Breaks(s, "wild")
    ELSE IF s.bev[f].refcnt = 0 THEN s
    ELSE CASE which = "read" -> be_filter_read_nolock_(s, f)
           [] which = "write" -> be_filter_process_output(s, f, "NORMAL")
           [] which = "event" -> bufferevent_run_eventcb_(s, f, what, {})

bufferevent_filter_new(s, f) ==
    LET u == s.bev[f].underlying
    IN  bufferevent_suspend_(
            bufferevent_enable(bufferevent_incref_([s EXCEPT !.bev[u].cb = f], u), u, Dirs),
            u, R, "FILT")

be_filter_enable(s, f, D) ==
    LET writes == IF W \in D THEN reset_generic_timeout(s, f, W) ELSE s
    IN  IF R \in D
        THEN bufferevent_unsuspend_(reset_generic_timeout(writes, f, R),
                                    s.bev[f].underlying, R, "FILT")
        ELSE writes

be_filter_disable(s, f, D) ==
    LET off(t) == IF R \in D THEN bufferevent_suspend_(t, s.bev[f].underlying, R, "FILT") ELSE t
    IN  off(generic_disable(s, f, D))

be_filter_unlink(s, f) ==
    LET u == s.bev[f].underlying
        mine == s.bev[u].cb = f
    IN  IF "close" \in s.bev[f].options
        THEN IF s.bev[u].refcnt < 2 THEN s ELSE free(s, u)
        ELSE bufferevent_unsuspend_(IF mine THEN [s EXCEPT !.bev[u].cb = "none"] ELSE s,
                                    u, R, "FILT")

be_filter_flush(s, f, io, mode) ==
    LET reads(t) == IF R \in io THEN be_filter_process_input(t, f, mode) ELSE t
        writes(t) == IF W \in io THEN be_filter_process_output(t, f, mode) ELSE t
        below(t) == flush(t, t.bev[f].underlying, io, mode)
    IN  decref(below(writes(reads(bufferevent_incref_(s, f)))), f)

-----------------------------------------------------------------------------
(* be_ops, and the callbacks on the two buffers. *)

enable_op(s, b, D) == CASE s.bev[b].kind = "sock" -> be_socket_enable(s, b, D)
                        [] s.bev[b].kind = "pair" -> be_pair_enable(s, b, D)
                        [] s.bev[b].kind = "filter" -> be_filter_enable(s, b, D)

disable_op(s, b, D) == CASE s.bev[b].kind = "sock" -> be_socket_disable(s, b, D)
                         [] s.bev[b].kind = "pair" -> generic_disable(s, b, D)
                         [] s.bev[b].kind = "filter" -> be_filter_disable(s, b, D)

be_unlink(s, b) == CASE s.bev[b].kind = "sock" -> s
                     [] s.bev[b].kind = "pair" -> be_pair_unlink(s, b)
                     [] s.bev[b].kind = "filter" -> be_filter_unlink(s, b)

bufferevent_flush(s, b, io, mode) == CASE s.bev[b].kind = "sock" -> s
                                       [] s.bev[b].kind = "pair" -> be_pair_flush(s, b, io, mode)
                                       [] s.bev[b].kind = "filter" -> be_filter_flush(s, b, io, mode)

(* The watermark's callback is the younger one and comes first. *)
inbuf_callbacks(s, b) ==
    LET marked(t) == IF t.bev[b].high # 0 THEN bufferevent_inbuf_wm_cb(t, b) ELSE t
        filtered(t) == IF t.bev[b].inbuf_cb THEN bufferevent_filtered_inbuf_cb(t, b) ELSE t
    IN  filtered(marked(s))

outbuf_callbacks(s, b, added) ==
    CASE s.bev[b].kind = "sock" -> bufferevent_socket_outbuf_cb(s, b, added)
      [] s.bev[b].kind = "pair" -> be_pair_outbuf_cb(s, b, added)
      [] s.bev[b].kind = "filter" ->
           IF s.bev[b].outbuf_cb THEN bufferevent_filtered_outbuf_cb(s, b, added) ELSE s

(* bufferevent_set_timeouts with adj_timeouts *)
bufferevent_generic_adj_timeouts_(s, b) ==
    LET x == s.bev[b]
        due(d) == /\ d \in x.enabled /\ x.susp[d] = {} /\ d \in x.timeout
                  /\ (d = R \/ x.output > 0)
        adj(t, d) == IF due(d) THEN event_add(t, b, d, TRUE) ELSE event_del(t, b, d)
    IN  Over(adj, <<R, W>>, s)

bufferevent_generic_adj_existing_timeouts_(s, b) ==
    LET adj(t, d) == CASE t.bev[b].ev[d] = "off" -> t
                       [] d \in t.bev[b].timeout -> bufferevent_add_event_(t, b, d)
                       [] OTHER -> [t EXCEPT !.bev[b].ev[d] = "on"]
    IN  Over(adj, <<R, W>>, s)

bufferevent_set_timeouts(s, b, D) ==
    LET t == [s EXCEPT !.bev[b].timeout = D]
    IN  IF s.bev[b].kind = "sock" THEN bufferevent_generic_adj_existing_timeouts_(t, b)
        ELSE bufferevent_generic_adj_timeouts_(t, b)

(* bufferevent_generic_read_timeout_cb and its twin *)
bufferevent_generic_timeout_cb(s, b, d) ==
    decref(failed(bufferevent_incref_(s, b), b, d, "TIMEOUT"), b)

(* Callbacks the program set, or the ones of the filter over this          *)
(* bufferevent.  A callback after bufferevent_free is a late one.          *)
user_callback(s, b, which, what) ==
    LET x == s.bev[b]
        known == [s EXCEPT !.bev[b].phase = IF "CONNECTED" \in what THEN "none" ELSE @]
        name == IF "CONNECTED" \in what THEN "connected" ELSE which
    IN  IF x.cb # "user" THEN filter_callback(known, x.cb, which, what)
        ELSE IF ~x.owned THEN Breaks(s, "late callback")
        ELSE Over(call, s.does.on[b][name], known)

(* The last reference: unlink, and finalize once no callback runs. *)
bufferevent_decref_(s, b) ==
    LET n == s.bev[b].refcnt
        less == [s EXCEPT !.bev[b].refcnt = n - 1]
    IN  IF n <= 0 THEN Breaks(s, "refcnt")
        ELSE IF n > 1 THEN less
        ELSE event_callback_finalize_many_(
                 be_unlink([less EXCEPT !.bev[b].state = "finalizing"], b), b)


bufferevent_free(s, b) ==
    decref([s EXCEPT !.bev[b].cb = "none", !.bev[b].owned = FALSE], b)

(* The memory goes, and with it the lock: nothing in the base may still    *)
(* point to it, and nobody else may still use the lock.                    *)
bufferevent_finalize_cb_(s, b) ==
    LET x == s.bev[b]
        pending == \/ \E d \in Dirs : x.ev[d] # "off"
                   \/ x.refill # "off"
                   \/ \E i \in DOMAIN s.queue : s.queue[i][2] = b
        destructed == IF x.kind = "pair" THEN be_pair_destruct(s, b) ELSE s
        gone == [leave_group(destructed, b) EXCEPT !.bev[b].state = "gone"]
        shared == \E o \in Bevs \ {b} : s.bev[o].lock = x.lock /\ s.bev[o].state \notin {"gone", "none"}
    IN  IF pending THEN Breaks(gone, "freed while pending")
        ELSE IF destructed.bev[b].own_lock /\ shared THEN Breaks(gone, "freed lock")
        ELSE IF x.underlying # NoBev THEN decref(gone, x.underlying) ELSE gone

-----------------------------------------------------------------------------
(* What the program calls: <<function, bufferevent, arguments>>.  It calls *)
(* nothing on a bufferevent it has freed, keeps to MaxLength and leaves    *)
(* the input and output buffers alone but for reading and writing.         *)
May(s, c) ==
    LET b == c[2]
        x == s.bev[b]
    IN  /\ x.owned /\ x.state = "live"
        /\ s.by = "user" \/ Lock(s, b) \notin s.held
        /\ CASE c[1] = "write" -> x.output + c[3] <= MaxLength
             [] c[1] = "drain" -> x.input >= c[3]
             [] c[1] = "lock" -> s.does.threads /\ Lock(s, b) \notin s.held
             [] c[1] = "unlock" -> Lock(s, b) \in s.held
             [] c[1] = "connect" -> x.kind = "sock" /\ ~x.fd /\ x.dns_request = 0
             [] c[1] = "connect_hostname" ->
                  /\ x.kind = "sock" /\ ~x.fd /\ Cardinality(s.look) < 2
                  /\ \A l \in s.look : l.bev = b => l.cancelled /\ c[3] = "at once"
             [] c[1] = "set_rate_limit" -> c[3] # x.cfg
             [] c[1] = "decrement" ->
                  x.cfg # NoCfg /\ x.bucket.limit[c[3]] - c[4] \in 0..x.cfg.maximum
             [] c[1] = "group_decrement" -> s.grp.bucket.limit[c[3]] - c[4] \in 0..s.grp.cfg.maximum
             [] c[1] = "leave" -> x.grouped
             [] OTHER -> TRUE

Do(s, c) ==
    LET b == c[2]
    IN  CASE c[1] = "enable" -> bufferevent_enable(s, b, c[3])
          [] c[1] = "disable" -> bufferevent_disable(s, b, c[3])
          [] c[1] = "disable_hard" -> bufferevent_disable_hard_(s, b, c[3])
          [] c[1] = "write" -> output_changed([s EXCEPT !.bev[b].output = @ + c[3]], b, TRUE)
          [] c[1] = "drain" -> input_changed([s EXCEPT !.bev[b].input = @ - c[3]], b)
          [] c[1] = "drain all" -> IF s.bev[b].input = 0 THEN s
                                   ELSE input_changed([s EXCEPT !.bev[b].input = 0], b)
          [] c[1] = "setwatermark" -> bufferevent_setwatermark(s, b, c[3], c[4], c[5])
          [] c[1] = "setcb" -> [s EXCEPT !.bev[b].cb = c[3]]
          [] c[1] = "free" -> free(s, b)
          [] c[1] = "lock" -> bufferevent_incref_([s EXCEPT !.held = @ \union {Lock(s, b)}], b)
          [] c[1] = "unlock" -> decref([s EXCEPT !.held = @ \ {Lock(s, b)}], b)
          [] c[1] = "connect" -> bufferevent_socket_connect(s, b, c[3])
          [] c[1] = "connect_hostname" -> bufferevent_socket_connect_hostname(s, b)
          [] c[1] = "setfd" -> be_socket_setfd(s, b, c[3])
          [] c[1] = "set_timeouts" -> bufferevent_set_timeouts(s, b, c[3])
          [] c[1] = "flush" -> flush(s, b, c[3], c[4])
          [] c[1] = "trigger" -> decref(bufferevent_trigger_nolock_(
                                     bufferevent_incref_(s, b), b, c[3], c[4]), b)
          [] c[1] = "trigger_event" -> decref(bufferevent_run_eventcb_(
                                           bufferevent_incref_(s, b), b, c[3], c[4]), b)
          [] c[1] = "filter_new" -> bufferevent_filter_new(s, b)
          [] c[1] = "set_rate_limit" -> bufferevent_set_rate_limit(s, b, c[3])
          [] c[1] = "decrement" -> bufferevent_decrement_limit(s, b, c[3], c[4])
          [] c[1] = "join" -> bufferevent_add_to_rate_limit_group(s, b)
          [] c[1] = "leave" -> bufferevent_remove_from_rate_limit_group(s, b)
          [] c[1] = "group_decrement" -> bufferevent_rate_limit_group_decrement(s, c[3], c[4])
          [] c[1] = "set_cfg" -> bufferevent_rate_limit_group_set_cfg(s, c[3])
          [] c[1] = "set_min_share" -> bufferevent_rate_limit_group_set_min_share(s, c[3])

(* The loop runs what it took off its queue. *)
Runs(s, e) ==
    LET b == e[2]
        part(t, which) == run_deferred_callback(t, b, which)
    IN  CASE e[1] \in Dirs /\ s.bev[b].kind # "sock" -> bufferevent_generic_timeout_cb(s, b, e[1])
          [] e[1] = R /\ s.bev[b].kind = "sock" -> bufferevent_readcb(s, b, e[3])
          [] e[1] = W /\ s.bev[b].kind = "sock" -> bufferevent_writecb(s, b, e[3])
          [] e[1] = "refill" -> bev_refill_callback_(s, b)
          [] e[1] = "group" -> bev_group_refill_callback_(s)
          [] e[1] = "F" -> bufferevent_finalize_cb_(s, b)
          [] e[1] = "D" /\ e[3] = "" -> Over(part, DeferredParts, s)
          [] e[1] = "D" /\ e[3] # "" -> part(s, e[3])
          [] e[1] = "L" -> bufferevent_connect_getaddrinfo_cb(s, b, e[3])

enter(what, s, b, a) ==
    CASE what = "enable" -> enable_op(s, b, a[1])
      [] what = "disable" -> disable_op(s, b, a[1])
      [] what = "flush" -> bufferevent_flush(s, b, a[1], a[2])
      [] what = "input" -> inbuf_callbacks(s, b)
      [] what = "output" -> outbuf_callbacks(s, b, a[1])
      [] what = "invoke" -> user_callback(s, b, a[1], a[2])
      [] what = "free" -> bufferevent_free(s, b)
      [] what = "decref" -> bufferevent_decref_(s, b)
      [] what = "call" -> IF May(s, a) THEN Do(s, a) ELSE s
      [] what = "run" -> Runs(s, a)

(* bufferevent_init_common_ with bufferevent_socket_new and its like *)
NewBev(b, how) ==
    [kind |-> how.kind, options |-> how.options, lock |-> how.lock, own_lock |-> how.lock = b,
     underlying |-> how.underlying, partner |-> how.partner, unlinked_partner |-> NoBev,
     state |-> IF how.kind = "none" THEN "none" ELSE "live", owned |-> how.kind # "none",
     refcnt |-> IF how.kind = "none" THEN 0 ELSE 1,
     enabled |-> {W}, susp |-> [d \in Dirs |-> {}], ev |-> [d \in Dirs |-> "off"],
     timeout |-> {}, fin |-> "no", cb |-> "user", pending |-> {}, eventcb_pending |-> {},
     low |-> [d \in Dirs |-> 0], high |-> 0, high_write |-> 0, input |-> 0, output |-> 0,
     inbuf_cb |-> FALSE, outbuf_cb |-> TRUE, fd |-> how.fd,
     connecting |-> FALSE, connection_refused |-> FALSE, dns_request |-> 0,
     cfg |-> NoCfg, bucket |-> [limit |-> [d \in Dirs |-> 0], lag |-> 0], refill |-> "off",
     grouped |-> FALSE, phase |-> "none"]

(* the two ends of a connection when fd, none before it *)
NewNet(how, room) == [in |-> 0, room |-> room, eof |-> FALSE,
                      state |-> IF how.fd THEN "ok" ELSE "none"]

(* bufferevent_rate_limit_group_new *)
NewGroup(cfg) == [members |-> <<>>, cfg |-> cfg, suspended |-> {}, pending_unsuspend |-> {},
                  bucket |-> [limit |-> [d \in Dirs |-> cfg.rate], lag |-> 0], due |-> FALSE,
                  configured_min_share |-> 64, min_share |-> Least(64, cfg.rate)]

Init ==
    \E p \in Programs :
        LET fresh == [does |-> p, left |-> p.calls_left,
                      bev |-> [b \in Bevs |-> NewBev(b, p.bev[b])], grp |-> NewGroup(p.group),
                      queue |-> <<>>, cur |-> Idle, look |-> {}, held |-> {},
                      net |-> [b \in Bevs |-> NewNet(p.bev[b], p.room)], broken |-> "no",
                      by |-> "loop"]
            s == Over(call, p.setup, fresh)
        IN  /\ does = p /\ left = s.left /\ bev = s.bev /\ grp = s.grp /\ queue = s.queue
            /\ cur = s.cur /\ look = s.look /\ held = s.held /\ net = s.net /\ broken = s.broken

-----------------------------------------------------------------------------
(* The program's calls, from the loop's thread between two callbacks or    *)
(* from its own thread.                                                    *)
Call ==
    LET by == IF does.threads THEN "user" ELSE "loop"
    IN  /\ does.threads \/ cur = Idle
        /\ \E c \in does.calls :
              /\ left > 0 \/ c[1] = "unlock"
              /\ May(State(by), c)
              /\ Becomes([call(State(by), c) EXCEPT !.left = IF c[1] = "unlock" THEN @ ELSE @ - 1])

(* sockets that epoll reports *)
Ready(b, d) ==
    /\ bev[b].kind = "sock" /\ bev[b].fd /\ bev[b].ev[d] # "off"
    /\ CASE net[b].state = "pending" -> FALSE
         [] net[b].state = "ok" -> IF d = R THEN net[b].in > 0 \/ net[b].eof ELSE net[b].room > 0
         [] OTHER -> TRUE

Fires ==
    {<<d, b, "io">> : <<d, b>> \in {x \in Dirs \X Bevs : Ready(x[2], x[1])}}
    \union {<<d, b, "timeout">> : <<d, b>> \in {x \in Dirs \X Bevs : bev[x[2]].ev[x[1]] = "timed"}}
    \union {<<"refill", b, "">> : b \in {x \in Bevs : bev[x].refill = "due"}}
    \union (IF grp.due THEN {<<"group", NoBev, "">>} ELSE {})

(* timers are off once they have fired, but for the group's *)
fired(s, e) ==
    CASE e[1] = "refill" -> [s EXCEPT !.bev[e[2]].refill = "off"]
      [] e[1] = "group" -> [s EXCEPT !.grp.due = FALSE]
      [] e[1] \in Dirs /\ s.bev[e[2]].kind # "sock" -> [s EXCEPT !.bev[e[2]].ev[e[1]] = "off"]
      [] OTHER -> s

Poll ==
    /\ queue = <<>> /\ cur = Idle
    /\ \E batch \in SUBSET Fires :
          /\ batch # {} /\ Cardinality(batch) <= MaxBatch
          /\ \A e, f \in batch : e[1] = f[1] /\ e[2] = f[2] => e = f
          /\ \E order \in SetToSeqs(batch) :
                Becomes([Over(fired, order, State("loop")) EXCEPT !.queue = order])

(* current_event is taken off the queue, and then gets the lock *)
Dequeue ==
    /\ does.threads /\ cur = Idle /\ queue # <<>>
    /\ Becomes([State("loop") EXCEPT !.cur = Head(queue), !.queue = Tail(queue)])

Unlocks(e) == e[1] = "D" /\ "unlock" \in bev[e[2]].options

Free(e) == IF e[1] = "group" THEN TRUE ELSE Lock(State("loop"), e[2]) \notin held

Run ==
    LET e == IF cur # Idle THEN cur ELSE Head(queue)
        running == [State("loop") EXCEPT !.cur = e, !.queue = IF cur # Idle THEN @ ELSE Tail(@)]
    IN  /\ IF does.threads THEN cur # Idle ELSE queue # <<>>
        /\ ~Unlocks(e) /\ Free(e)
        /\ Becomes([enter("run", running, e[2], e) EXCEPT !.cur = Idle])

(* bufferevent_run_deferred_callbacks_unlocked has the lock part by part *)
RunUnlocked ==
    LET e == cur
        at == CHOOSE i \in DOMAIN DeferredParts : DeferredParts[i] = e[3] \/ (e[3] = "" /\ i = 1)
        next == IF at = Len(DeferredParts) THEN Idle ELSE <<"D", e[2], DeferredParts[at + 1]>>
    IN  /\ cur # Idle /\ Unlocks(e) /\ Free(e)
        /\ Becomes([enter("run", State("loop"), e[2], <<"D", e[2], DeferredParts[at]>>)
                      EXCEPT !.cur = next])

Tick ==
    LET older(bucket) == [bucket EXCEPT !.lag = Least(@ + 1, MaxLag)]
        s == [State("loop") EXCEPT
                !.bev = [b \in Bevs |->
                           [bev[b] EXCEPT !.bucket = IF bev[b].cfg = NoCfg THEN @ ELSE older(@),
                                          !.refill = IF @ = "added" THEN "due" ELSE @]],
                !.grp.bucket = IF grp.members = <<>> THEN @ ELSE older(@),
                !.grp.due = grp.members # <<>>]
    IN  s # State("loop") /\ Becomes(s)

(* The other ends. *)
PeerSends ==
    \E b \in Bevs :
        /\ net[b].state = "ok" /\ ~net[b].eof /\ net[b].in < does.sends
        /\ \A f \in Bevs : f = b \/ bev[f].underlying = b => bev[f].input + does.sends <= MaxLength
        /\ Becomes([State("loop") EXCEPT !.net[b].in = does.sends])

PeerReads ==
    \E b \in Bevs :
        /\ net[b].state = "ok" /\ net[b].room < does.room
        /\ Becomes([State("loop") EXCEPT !.net[b].room = does.room])

PeerEnds ==
    \E b \in Bevs, how \in does.ends :
        /\ net[b].state = "ok" /\ ~net[b].eof
        /\ Becomes(IF how = "eof" THEN [State("loop") EXCEPT !.net[b].eof = TRUE]
                   ELSE [State("loop") EXCEPT !.net[b].state = how, !.net[b].in = 0])

PeerAccepts ==
    \E b \in Bevs, how \in {"ok", "refused"} :
        /\ net[b].state = "pending"
        /\ Becomes([State("loop") EXCEPT !.net[b].state = how])

(* A lookup ends: its callback comes from the loop, as evdns defers it. *)
Lookup ==
    \E l \in look, r \in {"fail", "error", "wait"} :
        /\ queue = <<>> /\ cur = Idle /\ Lock(State("loop"), l.bev) \notin held
        /\ l.cancelled => r = "fail"
        /\ Becomes(enter("run", [State("loop") EXCEPT !.look = @ \ {l}], l.bev,
                         <<"L", l.bev, IF l.cancelled THEN "cancel" ELSE r>>))

Next ==
    /\ broken = "no"
    /\ \/ Call \/ Poll \/ Dequeue \/ Run \/ RunUnlocked \/ Tick
       \/ PeerSends \/ PeerReads \/ PeerEnds \/ PeerAccepts \/ Lookup

Spec == Init /\ [][Next]_vars

-----------------------------------------------------------------------------
(* Properties. *)

Live(b) == bev[b].state = "live"

Awaits(kind, b) == Queued(State("loop"), kind, b) \/ (cur[1] = kind /\ cur[2] = b)

(* Whatever suspends, resumes, enables, disables, connects, times out or   *)
(* moves bytes, in whatever order: a socket is polled for reading exactly  *)
(* while reading is enabled and nothing suspends it, it is polled for      *)
(* writing whenever there are bytes that may be written, and never while   *)
(* writing is off unless it is connecting.                                 *)
EventsAgree ==
    \A b \in Bevs : Live(b) /\ bev[b].kind = "sock" /\ bev[b].fd =>
        LET x == bev[b]
            wants(d) == d \in x.enabled /\ x.susp[d] = {}
        IN  /\ x.ev[R] # "off" => wants(R)
            /\ x.ev[W] # "off" => wants(W) \/ x.connecting
            /\ x.phase # "failed" => /\ wants(R) => x.ev[R] # "off"
                                     /\ wants(W) /\ x.output > 0 => x.ev[W] # "off"

(* Whatever suspends a bufferevent is still there to resume it: the input  *)
(* is at the high watermark, the bucket waits for its refill, the group is *)
(* out of bytes or still has members to wake, a lookup is under way.       *)
SuspensionsEnd ==
    \A b \in Bevs : Live(b) =>
        LET x == bev[b]
        IN  /\ "WM" \in x.susp[R] <=> x.high # 0 /\ x.input >= x.high
            /\ \A d \in Dirs :
                  /\ "BW" \in x.susp[d] => x.cfg # NoCfg /\ (x.refill # "off" \/ Awaits("refill", b))
                  /\ x.cfg # NoCfg /\ x.bucket.limit[d] <= 0 => "BW" \in x.susp[d]
                  /\ "GROUP" \in x.susp[d] =>
                        x.grouped /\ d \in grp.suspended \union grp.pending_unsuspend
                  /\ "LOOKUP" \in x.susp[d] <=> \E l \in look : l.bev = b

(* The references: the program's, the one of callbacks that are scheduled  *)
(* or run, one per lookup, the filter's, and the one of bufferevent_lock.  *)
RefcountsAgree ==
    \A b \in Bevs : bev[b].state # "none" =>
        LET one(P) == IF P THEN 1 ELSE 0
            n == one(bev[b].owned) + one(Queued(State("loop"), "D", b))
                 + one(cur[1] = "D" /\ cur[2] = b)
                 + Cardinality({l \in look : l.bev = b})
                 + Cardinality({f \in Bevs : bev[f].underlying = b
                                             /\ bev[f].state \in {"live", "finalizing"}})
                 + one(b \in held)
        IN  bev[b].refcnt = n /\ (n = 0 <=> ~Live(b))

(* A socket is polled for what is wanted, and what is not wanted now will  *)
(* be: suspending and resuming never get out of step.                      *)
PollingAgrees == EventsAgree /\ SuspensionsEnd

(* No EVUTIL_ASSERT on a reference count fails, no callback of the program *)
(* runs once it has freed the bufferevent, nothing in the base points to a *)
(* bufferevent whose memory goes, a shared lock outlives its users, and    *)
(* the references are those of RefcountsAgree.                             *)
NothingBreaks == broken = "no" /\ RefcountsAgree


(* Rate limits hold: a bucket never holds more than its burst, a           *)
(* bufferevent never passes more bytes than its bucket had, and a group    *)
(* overdraws by less than the share of one member.                         *)
LimitsHold ==
    \A d \in Dirs :
        /\ \A b \in Bevs : bev[b].cfg # NoCfg =>
              bev[b].bucket.limit[d] \in 0..bev[b].cfg.maximum
        /\ grp.bucket.limit[d] \in (1 - grp.min_share)..grp.cfg.maximum
=============================================================================
