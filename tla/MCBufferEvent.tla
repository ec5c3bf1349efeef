--------------------------- MODULE MCBufferEvent ---------------------------
(* Small instances of BufferEvent. *)
EXTENDS BufferEvent

CONSTANTS A, B

MCBevs == {A, B}

None == [kind |-> "none", options |-> {}, lock |-> NoBev, underlying |-> NoBev,
         partner |-> NoBev, fd |-> FALSE]

Sock(b, options, fd) == [None EXCEPT !.kind = "sock", !.options = options, !.lock = b, !.fd = fd]

End(b, p, lock, options) ==
    [None EXCEPT !.kind = "pair", !.options = options \union {"defer"}, !.lock = lock, !.partner = p]

Filter(b, u, options) ==
    [None EXCEPT !.kind = "filter", !.options = options, !.lock = b, !.underlying = u]

Quiet == [read |-> <<>>, write |-> <<>>, event |-> <<>>, connected |-> <<>>]

Slow == [rate |-> 1, maximum |-> 2]
Fast == [rate |-> 2, maximum |-> 2]

Alone == [bev |-> A :> Sock(A, {}, TRUE) @@ B :> None, on |-> A :> Quiet @@ B :> Quiet,
          setup |-> <<>>, calls |-> {}, calls_left |-> 3, threads |-> FALSE,
          group |-> Slow, sends |-> 2, room |-> 1, ends |-> {}]

Reader ==
    [Alone EXCEPT !.setup = <<<<"enable", A, {R}>>>>,
        !.calls = {<<"enable", A, {R}>>, <<"disable", A, {R}>>, <<"drain", A, 1>>,
                   <<"setwatermark", A, {R}, 0, 1>>, <<"setwatermark", A, {R}, 0, 3>>,
                   <<"setwatermark", A, {R}, 0, 0>>, <<"set_timeouts", A, {R}>>,
                   <<"set_timeouts", A, {}>>, <<"free", A>>},
        !.ends = {"eof", "reset"}]

Writer ==
    [Alone EXCEPT !.on[A].write = <<<<"write", A, 1>>>>,
        !.calls = {<<"write", A, 2>>, <<"disable", A, {W}>>, <<"enable", A, {W}>>,
                   <<"setwatermark", A, {W}, 1, 0>>, <<"set_timeouts", A, {W}>>,
                   <<"setcb", A, "none">>, <<"trigger", A, {W}, {}>>, <<"free", A>>},
        !.ends = {"reset"}]

Connector ==
    [Alone EXCEPT !.bev[A].fd = FALSE, !.on[A].connected = <<<<"enable", A, {R}>>>>,
        !.on[A].event = <<<<"free", A>>>>, !.sends = 1,
        !.calls = {<<"connect", A, "wait">>, <<"connect", A, "refused">>, <<"connect", A, "error">>,
                   <<"write", A, 1>>, <<"enable", A, {R}>>, <<"disable", A, {W}>>,
                   <<"disable_hard", A, {R, W}>>, <<"free", A>>}]

Caller ==
    [Alone EXCEPT !.bev[A].fd = FALSE, !.on[A].event = <<<<"free", A>>>>, !.sends = 1,
        !.calls = {<<"connect_hostname", A, "in turn">>, <<"setfd", A, TRUE>>, <<"setfd", A, FALSE>>,
                   <<"write", A, 1>>, <<"enable", A, {R}>>, <<"disable", A, {W}>>, <<"free", A>>}]

Limited ==
    [Alone EXCEPT !.setup = <<<<"enable", A, {R}>>, <<"set_rate_limit", A, Slow>>>>,
        !.on[A].read = <<<<"drain all", A>>>>, !.room = 2, !.calls_left = 2,
        !.calls = {<<"set_rate_limit", A, Fast>>, <<"set_rate_limit", A, NoCfg>>,
                   <<"decrement", A, R, 1>>, <<"decrement", A, R, -1>>, <<"write", A, 2>>,
                   <<"disable", A, {R}>>, <<"enable", A, {R}>>, <<"free", A>>}]

(* freeing a member is left to Abandoned *)
Grouped ==
    [Alone EXCEPT !.bev[B] = Sock(B, {"defer"}, TRUE),
        !.setup = <<<<"enable", A, {R}>>, <<"enable", B, {R}>>, <<"join", A>>>>,
        !.on[A].read = <<<<"drain all", A>>>>, !.on[B].read = <<<<"drain all", B>>>>,
        !.sends = 1, !.calls_left = 2,
        !.calls = {<<"join", B>>, <<"leave", A>>, <<"write", A, 1>>, <<"set_cfg", A, Fast>>,
                   <<"set_min_share", A, 2>>,
                   <<"group_decrement", A, R, -1>>}]

Abandoned ==
    [Grouped EXCEPT !.calls = {<<"join", B>>, <<"write", A, 1>>, <<"free", B>>}, !.calls_left = 3]

Threaded ==
    [Grouped EXCEPT !.threads = TRUE, !.bev[B].options = {},
        !.setup = @ \o <<<<"join", B>>>>,
        !.calls = {<<"lock", A>>, <<"unlock", A>>, <<"leave", A>>}]

Handover ==
    [Alone EXCEPT !.bev[A] = Sock(A, {"defer", "unlock"}, TRUE), !.threads = TRUE,
        !.setup = <<<<"enable", A, {R}>>>>, !.on[A].read = <<<<"drain", A, 1>>>>,
        !.on[A].event = <<<<"free", A>>>>, !.ends = {"eof"}, !.calls_left = 2,
        !.calls = {<<"free", A>>, <<"disable", A, {R}>>, <<"setwatermark", A, {R}, 0, 1>>,
                   <<"write", A, 1>>, <<"lock", A>>, <<"unlock", A>>,
                   <<"trigger", A, {R}, {"ignore_watermarks"}>>,
                   <<"trigger_event", A, {"ERROR"}, {}>>}]

Pair ==
    [Alone EXCEPT !.bev = A :> End(A, B, A, {}) @@ B :> End(B, A, A, {}),
        !.calls = {<<"write", A, 2>>, <<"write", B, 1>>, <<"enable", B, {R}>>, <<"disable", B, {R}>>,
                   <<"disable", A, {W}>>, <<"enable", A, {W}>>, <<"drain", B, 1>>,
                   <<"setwatermark", B, {R}, 0, 1>>, <<"setwatermark", B, {R}, 0, 0>>,
                   <<"flush", A, {W}, "FINISHED">>, <<"flush", B, {R}, "FLUSH">>,
                   <<"set_timeouts", B, {R, W}>>, <<"free", A>>, <<"free", B>>}]

Stack(options, sockopts, setup) ==
    [Alone EXCEPT !.bev = A :> Sock(A, sockopts, TRUE) @@ B :> Filter(B, A, options),
        !.setup = <<<<"filter_new", B>>, <<"enable", B, {R}>>>> \o setup, !.ends = {"eof"},
        !.calls = {<<"write", B, 2>>, <<"drain", B, 1>>, <<"setwatermark", A, {W}, 0, 1>>,
                   <<"flush", B, {R, W}, "FLUSH">>, <<"set_timeouts", B, {R, W}>>, <<"free", B>>}]

Marks == {<<"setwatermark", B, {R}, 0, 1>>, <<"setwatermark", B, {R}, 0, 0>>}

Filtered == [Stack({}, {}, <<>>) EXCEPT !.calls = @ \union Marks]

(* the mark is set once: Lowered is about one that comes late *)
Deferring == Stack({"close"}, {"defer"}, <<<<"setwatermark", B, {R}, 0, 1>>>>)

Lowered == [Stack({}, {"defer"}, <<>>) EXCEPT !.calls = Marks]

MCPrograms == {Reader, Writer, Connector, Caller, Limited, Grouped, Threaded, Handover, Pair,
               Filtered, Deferring}
=============================================================================
