------------------------------- MODULE EvHttp -------------------------------
(***************************************************************************)
(* One struct evhttp_connection with the requests queued on it (http.c):   *)
(* the connection a client makes its requests over, or the one a server    *)
(* accepted.  The event loop runs one callback at a time and evhttp holds  *)
(* no locks, so a callback with everything it calls is one action.         *)
(*                                                                         *)
(* What the peer sends is a sequence of tokens, each one a line or one     *)
(* byte of a body; every token has length 1.  A request that has gone      *)
(* through mm_free may be used again as a new one.                         *)
(***************************************************************************)
EXTENDS SequencesExt, Integers

CONSTANTS
    Reqs,               \* request structures
    Programs,           \* what programs do, see Program
    Tokens,             \* what a peer may send, for either role
    Early,              \* the tokens it may send before they are asked for
    NetModes,           \* how connecting starts: "async", "fail", "bind"
    May,                \* what else may happen: calls of the program, idle data
    retry_max,
    max_headers_size,
    max_body_size,
    MaxInput,           \* bound: tokens in the input buffer
    MaxBody             \* bound: body_size of a body read until close

(* A program: which side of HTTP it is on, the flags of its connections,   *)
(* what it does in the callback of a request, in chunk_cb (none: it has no *)
(* chunk_cb), what header_cb answers, and what a server's handler does.    *)
Program == [role : {"client", "server"},
            flags : SUBSET {"AUTOFREE", "READ_ON_WRITE_ERROR", "LINGERING_CLOSE"},
            cb : {"none", "again", "free"},
            chunk : {"none", "read", "cancel", "free"},
            header : {"go", "stop"},
            handler : {"reply", "start", "hold"}]

VARIABLES
    does,       \* the program
    evcon,      \* the connection
    req,        \* the requests
    broken      \* "assert", "wild" (freed memory was used) or "no"

vars == <<does, evcon, req, broken>>

ReqStates == {"READING_FIRSTLINE", "READING_HEADERS", "READING_BODY",
              "READING_TRAILER"}

NoRequest == [mem |-> "none", evcon |-> FALSE, kind |-> "RESPONSE",
              type |-> "none", v11 |-> TRUE, uri |-> FALSE, code |-> 0,
              headers_size |-> 0, length |-> -1, encoded |-> FALSE,
              close |-> FALSE, outclose |-> FALSE, expect |-> "NO",
              ntoread |-> 0, chunked |-> FALSE, body_size |-> 0,
              input |-> 0, userdone |-> FALSE, defer |-> FALSE,
              needs |-> FALSE, calls |-> 0, complete |-> TRUE,
              cancelled |-> FALSE, held |-> FALSE, started |-> FALSE]

NoConnection == [alive |-> FALSE, state |-> "DISCONNECTED", requests |-> <<>>,
                 flags |-> {}, cb |-> "none", retry_cnt |-> 0,
                 retry_ev |-> FALSE, deferred |-> FALSE, sock |-> "none",
                 enabled |-> {}, ev_write |-> FALSE, readcb |-> FALSE,
                 writecb |-> FALSE, eventcb |-> "none", input |-> <<>>,
                 output |-> 0]

State(net) == [does |-> does, c |-> evcon, r |-> req,
               broken |-> broken, net |-> net, ret |-> 0, st |-> "none",
               call |-> "return", error |-> "none"]

Becomes(s) ==
    /\ evcon' = s.c
    /\ req' = s.r
    /\ broken' = s.broken
    /\ UNCHANGED does

Breaks(s, how) == [s EXCEPT !.broken = IF @ = "no" THEN how ELSE @]

First(s) == Head(s.c.requests)

Over(F(_, _), q, s) ==
    LET go[i \in 0..Len(q)] == IF i = 0 THEN s ELSE F(go[i - 1], q[i])
    IN  go[Len(q)]

Has(s, flag) == flag \in s.c.flags

evhttp_connected(s) == s.c.state \notin {"DISCONNECTED", "CONNECTING"}

-----------------------------------------------------------------------------
(* The bufferevent under the connection, as evhttp uses it. *)

bufferevent_setcb(s, rd, wr, ev) ==
    [s EXCEPT !.c.readcb = rd, !.c.writecb = wr, !.c.eventcb = ev]

bufferevent_enable(s, what) ==
    [s EXCEPT !.c.enabled = @ \cup what,
              !.c.ev_write = @ \/ ("WRITE" \in what /\ s.c.sock # "none")]

bufferevent_disable(s, what) ==
    [s EXCEPT !.c.enabled = @ \ what,
              !.c.ev_write = @ /\ ("WRITE" \notin what \/ s.c.sock = "connecting")]

evbuffer_add_output(s) ==
    [s EXCEPT !.c.output = 1,
              !.c.ev_write = @ \/ ("WRITE" \in s.c.enabled /\ s.c.sock = "up")]

evhttp_write_buffer(s, cb) ==
    bufferevent_enable(
        bufferevent_setcb([s EXCEPT !.c.cb = cb], FALSE, TRUE, "error_cb"),
        {"READ", "WRITE"})

evhttp_send_continue(s) ==
    bufferevent_setcb(
        [evbuffer_add_output(bufferevent_enable(s, {"WRITE"}))
            EXCEPT !.c.cb = "send_continue_done"],
        TRUE, TRUE, "error_cb")

-----------------------------------------------------------------------------
(* Requests and connections come and go. *)

evhttp_request_free(s, r) ==
    CASE s.r[r].defer          -> [s EXCEPT !.r[r].needs = TRUE]
      [] s.r[r].mem = "freed"  -> Breaks(s, "wild")
      [] OTHER                 ->
            [s EXCEPT !.r[r] = [NoRequest EXCEPT
                !.mem = "freed", !.calls = s.r[r].calls, !.held = s.r[r].held,
                !.complete = s.r[r].complete, !.cancelled = s.r[r].cancelled]]

evhttp_request_free_(s, r) ==
    evhttp_request_free([s EXCEPT !.c.requests = Remove(@, r)], r)

evhttp_connection_free(s) ==
    [Over(evhttp_request_free_, s.c.requests, s) EXCEPT !.c = NoConnection]

evhttp_connection_reset_(s) ==
    [bufferevent_setcb(s, FALSE, FALSE, "none") EXCEPT
        !.c.enabled = {}, !.c.ev_write = FALSE, !.c.sock = "none",
        !.c.output = 0, !.c.input = <<>>,
        !.c.flags = @ \ {"READING_ERROR"},
        !.c.state = "DISCONNECTED"]

evhttp_connection_start_detectclose(s) ==
    bufferevent_enable([s EXCEPT !.c.flags = @ \cup {"CLOSEDETECT"}], {"READ"})

(* a fault: the flag stays set *)
stop_detectclose_flagged(s) == bufferevent_disable(s, {"READ"})

evhttp_connection_stop_detectclose(s) ==
    bufferevent_disable([s EXCEPT !.c.flags = @ \ {"CLOSEDETECT"}], {"READ"})

evhttp_start_read_(s) ==
    LET t == bufferevent_enable(bufferevent_disable(s, {"WRITE"}), {"READ"})
    IN  bufferevent_setcb([t EXCEPT !.c.state = "READING_FIRSTLINE",
                                    !.c.deferred = @ \/ t.c.input # <<>>],
                          TRUE, TRUE, "error_cb")

evhttp_start_write_(s) ==
    LET t == bufferevent_enable(bufferevent_disable(s, {"WRITE"}), {"READ"})
    IN  evhttp_write_buffer([t EXCEPT !.c.state = "WRITING"], "write_connectioncb")

(* evhttp_make_header followed by evhttp_write_buffer *)
evhttp_request_dispatch(s) ==
    IF s.c.requests = <<>> THEN s
    ELSE LET t == evhttp_connection_stop_detectclose(s)
         IN  IF s.r[First(s)].kind # "REQUEST" \/ s.c.state # "IDLE"
             THEN Breaks(s, "assert")
             ELSE evhttp_write_buffer(
                      evbuffer_add_output([t EXCEPT !.c.state = "WRITING"]),
                      "write_connectioncb")

-----------------------------------------------------------------------------
(* Connecting, failing and retrying call each other: a callback may make a *)
(* new request, and a failed request hands the connection to the next one. *)

RECURSIVE evhttp_connection_connect_(_), evhttp_connection_cb_cleanup(_),
          evhttp_make_request(_, _, _), program_cb(_)

(* The program frees the connection, and with it the requests on it. *)
program_frees(s) ==
    evhttp_connection_free(
        Over(LAMBDA t, r : [t EXCEPT !.r[r].cancelled = TRUE, !.r[r].held = FALSE],
             s.c.requests, s))

(* The retries are used up: nothing will set retry_cnt back to 0. *)
GaveUp(c) == c.retry_cnt # 0 /\ ~c.retry_ev /\ c.state = "DISCONNECTED"

(* What the program does in the callback of a client's request: it may     *)
(* make another request, or free the connection unless it gave it away.    *)
program_cb(s) ==
    LET unused == {x \in Reqs : s.r[x].mem # "live"}
    IN  CASE s.c.alive /\ s.does.cb = "again" /\ unused # {}
             /\ (GaveUp(s.c) => "after_retries" \in May) ->
                evhttp_make_request(s, CHOOSE x \in unused : TRUE, "GET")
          [] s.c.alive /\ s.does.cb = "free" /\ ~Has(s, "AUTOFREE") ->
                program_frees(s)
          [] OTHER -> s

evhttp_response_needs_body(s, r) ==
    s.r[r].code \notin {100, 204} /\ s.r[r].type # "HEAD"

evhttp_method_may_have_body(type) == type \notin {"HEAD", "TRACE"}

(* Has all of the body come, and no more of it than allowed? *)
Complete(s, r) ==
    LET q == s.r[r]
        has_body == IF s.does.role = "client" THEN evhttp_response_needs_body(s, r)
                    ELSE evhttp_method_may_have_body(q.type)
    IN  has_body => /\ q.body_size <= max_body_size
                    /\ q.encoded => q.ntoread = 0
                    /\ ~q.encoded /\ q.length >= 0 => q.body_size = q.length

(* The callback of a request; ok: it is told that the message came. *)
Called(s, r, ok) ==
    [s EXCEPT !.r[r].calls = @ + 1, !.r[r].complete = ok => Complete(s, r)]

evhttp_connection_connect_(s) ==
    LET t == [evhttp_connection_reset_(s) EXCEPT !.c.flags = @ \cup {"OUTGOING"}]
        u == bufferevent_enable(
                 bufferevent_setcb(t, FALSE, FALSE, "connection_cb"), {"WRITE"})
    IN  CASE s.c.state = "CONNECTING" -> [s EXCEPT !.ret = 0]
          [] s.c.state # "CONNECTING" /\ Has(s, "INCOMING") -> Breaks(s, "assert")
          [] s.c.state # "CONNECTING" /\ s.net = "bind" -> [t EXCEPT !.ret = -1]
          [] s.c.state # "CONNECTING" /\ s.net = "fail" ->
                [evhttp_connection_cb_cleanup([u EXCEPT !.c.state = s.c.state])
                    EXCEPT !.ret = 0]
          [] OTHER -> [u EXCEPT !.c.state = "CONNECTING", !.c.sock = "lookup",
                                !.ret = 0]

(* retry_ev is assigned anew, which ruins the event base if it is pending *)
evhttp_connection_cb_cleanup(s) ==
    LET t == evhttp_connection_reset_(s)
        fails(u, r) ==
            evhttp_request_free(
                program_cb(Called([u EXCEPT !.r[r].evcon = FALSE], r, FALSE)), r)
    IN  IF retry_max < 0 \/ t.c.retry_cnt < retry_max
        THEN [IF t.c.retry_ev THEN Breaks(t, "wild") ELSE t EXCEPT
                !.c.retry_ev = TRUE, !.c.retry_cnt = @ + 1]
        ELSE Over(fails, t.c.requests, [t EXCEPT !.c.requests = <<>>])

evhttp_make_request(s, r, type) ==
    LET t == [s EXCEPT
                !.r[r] = [NoRequest EXCEPT !.mem = "live", !.kind = "REQUEST",
                                           !.type = type, !.uri = TRUE,
                                           !.evcon = TRUE],
                !.c.requests = Append(@, r)]
        undone(u) == IF u.ret = 0 THEN u ELSE [u EXCEPT !.c.requests = Remove(@, r)]
    IN  CASE t.c.retry_cnt # 0 -> t
          [] t.c.retry_cnt = 0 /\ ~evhttp_connected(t) ->
                undone(evhttp_connection_connect_(t))
          [] OTHER -> IF First(t) = r THEN evhttp_request_dispatch(t) ELSE t

-----------------------------------------------------------------------------
(* A server's answers.  An answer to a request that lost its connection    *)
(* only frees the request.                                                 *)

(* evhttp_request_new as well: running out of Reqs is running out of memory *)
evhttp_associate_new_request_with_connection(s) ==
    LET unused == {x \in Reqs : s.r[x].mem # "live"}
        r == CHOOSE x \in unused : TRUE
    IN  IF unused = {} THEN evhttp_connection_free(s)
        ELSE evhttp_start_read_(
                [s EXCEPT !.r[r] = [NoRequest EXCEPT !.mem = "live", !.evcon = TRUE,
                                       !.kind = "REQUEST", !.userdone = TRUE],
                          !.c.requests = Append(@, r)])

(* Either side says so. *)
evhttp_is_request_connection_close(q) == q.close \/ q.outclose

evhttp_send_done(s) ==
    LET r == First(s)
        need_close == ~s.r[r].v11 \/ evhttp_is_request_connection_close(s.r[r])
        t == evhttp_request_free_(s, r)
    IN  IF need_close THEN evhttp_connection_free(t)
        ELSE evhttp_associate_new_request_with_connection(t)

evhttp_send(s, r) ==
    LET t == evbuffer_add_output([s EXCEPT !.r[r].userdone = TRUE])
    IN  CASE ~s.r[r].evcon -> evhttp_request_free(s, r)
          [] s.r[r].evcon /\ First(s) # r -> Breaks(s, "assert")
          [] OTHER -> evhttp_write_buffer(t, "send_done")

evhttp_send_reply(s, r) ==
    evhttp_send([s EXCEPT !.r[r].kind = "RESPONSE", !.r[r].code = 200,
                          !.r[r].held = FALSE], r)

(* It announces that the connection will be closed. *)
evhttp_send_page_(s, r) ==
    evhttp_send([s EXCEPT !.r[r].v11 = TRUE, !.r[r].outclose = TRUE], r)

evhttp_send_error(s, r) ==
    evhttp_send_page_([s EXCEPT !.r[r].kind = "RESPONSE", !.r[r].held = FALSE], r)

evhttp_send_reply_start(s, r) ==
    LET t == [s EXCEPT !.r[r].kind = "RESPONSE", !.r[r].code = 200,
                       !.r[r].started = TRUE]
    IN  IF ~t.r[r].evcon THEN t
        ELSE evhttp_write_buffer(
                evbuffer_add_output([t EXCEPT !.r[r].chunked =
                    t.r[r].v11 /\ evhttp_response_needs_body(t, r)]), "none")

evhttp_send_reply_chunk(s, r) ==
    IF ~s.r[r].evcon \/ ~evhttp_response_needs_body(s, r) THEN s
    ELSE evhttp_write_buffer(evbuffer_add_output(s), "none")

evhttp_send_reply_end(s, r) ==
    LET t == [s EXCEPT !.r[r].held = FALSE, !.r[r].userdone = TRUE]
    IN  CASE ~s.r[r].evcon -> evhttp_request_free([s EXCEPT !.r[r].held = FALSE], r)
          [] s.r[r].evcon /\ s.r[r].chunked ->
                [evhttp_write_buffer(evbuffer_add_output(t), "send_done")
                    EXCEPT !.r[r].chunked = FALSE]
          [] s.r[r].evcon /\ ~s.r[r].chunked /\ s.c.output = 0 -> evhttp_send_done(t)
          [] OTHER -> [t EXCEPT !.c.cb = "send_done"]

(* The methods evhttp_new_object allows. *)
allowed_methods == {"GET", "POST", "HEAD"}

(* What was read of a request and is of no use any more. *)
Forget(q) ==
    [q EXCEPT !.length = -1, !.encoded = FALSE, !.expect = "NO", !.ntoread = 0,
              !.body_size = 0, !.input = 0, !.headers_size = 0, !.chunked = FALSE]


(* The server's callback of every request.  The handler it finds answers   *)
(* at once, starts an answer, or keeps the request for later.              *)
evhttp_handle_request(s, r) ==
    LET t == bufferevent_disable([Called(s, r, s.r[r].uri) EXCEPT !.r[r].userdone = FALSE],
                                 {"READ"})
        h == [t EXCEPT !.r[r] = [Forget(@) EXCEPT !.held = TRUE]]
    IN  IF ~t.r[r].uri \/ t.r[r].type \notin allowed_methods
        THEN evhttp_send_error([t EXCEPT !.r[r] = Forget(@)], r)
        ELSE CASE t.does.handler = "reply" -> evhttp_send_reply(h, r)
               [] t.does.handler = "start" -> evhttp_send_reply_start(h, r)
               [] OTHER -> h

-----------------------------------------------------------------------------
(* Errors. *)


evhttp_connection_incoming_fail(s, r, error) ==
    IF error \in {"TIMEOUT", "EOF"}
    THEN evhttp_connection_free(
            IF s.r[r].userdone THEN s
            ELSE [s EXCEPT !.c.requests = Remove(@, r), !.r[r].evcon = FALSE])
    ELSE evhttp_handle_request([s EXCEPT !.r[r].uri = FALSE], r)

evhttp_connection_fail_(s, error) ==
    LET r == First(s)
        t == bufferevent_disable(s, {"READ", "WRITE"})
        cancel == error = "CANCEL"
        u == evhttp_connection_reset_(
                evhttp_request_free_(IF cancel THEN t ELSE Called(t, r, FALSE), r))
        v == CASE u.c.requests # <<>> -> evhttp_connection_connect_(u)
               [] u.c.requests = <<>> /\ {"OUTGOING", "AUTOFREE"} \subseteq u.c.flags ->
                     evhttp_connection_free(u)
               [] OTHER -> u
    IN  CASE s.c.requests = <<>> -> Breaks(s, "assert")
          [] s.c.requests # <<>> /\ Has(s, "INCOMING") ->
                evhttp_connection_incoming_fail(t, r, error)
          [] OTHER -> IF cancel THEN v ELSE program_cb(v)

evhttp_cancel_request(s, r) ==
    LET t == [s EXCEPT !.r[r].cancelled = TRUE]
    IN  CASE s.r[r].evcon /\ First(s) = r -> evhttp_connection_fail_(t, "CANCEL")
          [] s.r[r].evcon /\ First(s) # r -> evhttp_request_free_(t, r)
          [] OTHER -> evhttp_request_free(t, r)

evhttp_connection_done(s) ==
    LET r == First(s)
        need_close == evhttp_is_request_connection_close(s.r[r])
        t == [s EXCEPT !.c.requests = Tail(@), !.r[r].evcon = FALSE,
                       !.c.state = "IDLE"]
        u == IF need_close THEN evhttp_connection_reset_(t) ELSE t
        v == CASE u.c.requests # <<>> ->
                    IF evhttp_connected(u) THEN evhttp_request_dispatch(u)
                    ELSE evhttp_connection_connect_(u)
               [] u.c.requests = <<>> /\ ~need_close ->
                    evhttp_connection_start_detectclose(u)
               [] OTHER -> u
        free_evcon == u.c.requests = <<>> /\ need_close /\ Has(u, "AUTOFREE")
        ends(w) ==
            CASE free_evcon /\ ~w.c.alive -> Breaks(w, "wild")
              [] free_evcon /\ w.c.alive /\ w.c.requests = <<>> -> evhttp_connection_free(w)
              [] OTHER -> w
    IN  IF Has(s, "OUTGOING")
        THEN ends(evhttp_request_free(program_cb(Called(v, r, TRUE)), r))
        ELSE evhttp_handle_request([s EXCEPT !.c.state = "WRITING"], r)

-----------------------------------------------------------------------------
(* Reading a message.  What the parsers return is in s.st; the field names *)
(* of message_read_status are shortened to "more", "all", "corrupted",     *)
(* "too_long" and "canceled".                                              *)

Returns(s, st) == [s EXCEPT !.st = st]

(* The call with which a reader ends; evhttp_read_cb makes it. *)
Fails(s, error) == [s EXCEPT !.call = "fail", !.error = error]

Done(s) == [s EXCEPT !.call = "done"]

(* evbuffer_readln: bytes of a body run into the line that follows them *)
LineAt(buf) == IF \E i \in 1..Len(buf) : buf[i] # "byte"
               THEN CHOOSE i \in 1..Len(buf) :
                        buf[i] # "byte" /\ \A j \in 1..(i - 1) : buf[j] = "byte"
               ELSE 0

Line(buf) == IF LineAt(buf) = 1 THEN buf[1] ELSE "bad"

readln(s) == [s EXCEPT !.c.input = SubSeq(@, LineAt(@) + 1, Len(@))]

RequestLines == {"GET", "GET10", "POST", "HEAD", "TRACE"}

StatusLines == [x \in {"100", "200", "204"} |->
                    CASE x = "100" -> 100 [] x = "200" -> 200 [] x = "204" -> 204]

evhttp_parse_firstline_(s, r) ==
    LET line == Line(s.c.input)
        t == [readln(s) EXCEPT !.r[r].headers_size = 1]
    IN  CASE LineAt(s.c.input) = 0 ->
                Returns(s, IF Len(s.c.input) > max_headers_size THEN "too_long" ELSE "more")
          [] LineAt(s.c.input) # 0 /\ s.r[r].kind = "REQUEST" /\ line \in RequestLines ->
                Returns([t EXCEPT !.r[r].type = IF line = "GET10" THEN "GET" ELSE line,
                                  !.r[r].v11 = line # "GET10", !.r[r].uri = TRUE], "all")
          [] LineAt(s.c.input) # 0 /\ s.r[r].kind = "RESPONSE" /\ line \in DOMAIN StatusLines ->
                Returns([t EXCEPT !.r[r].code = StatusLines[line]], "all")
          [] OTHER -> Returns(t, "corrupted")

(* The headers that decide anything here, and what they decide. *)
Lengths == [x \in {"cl0", "cl1", "cl2", "cl3", "clbad"} |->
                CASE x = "cl0" -> 0 [] x = "cl1" -> 1 [] x = "cl2" -> 2
                  [] x = "cl3" -> 3 [] x = "clbad" -> -2]

Headers == DOMAIN Lengths \cup {"chunked", "close", "expect", "expectother"}

evhttp_add_header(s, r, h) ==
    [s EXCEPT !.r[r].length = IF h \in DOMAIN Lengths /\ @ = -1 THEN Lengths[h] ELSE @,
              !.r[r].encoded = @ \/ h = "chunked",
              !.r[r].close = @ \/ h = "close",
              !.r[r].expect = CASE @ = "NO" /\ h = "expect" -> "CONTINUE"
                                [] @ = "NO" /\ h = "expectother" -> "OTHER"
                                [] OTHER -> @]

RECURSIVE evhttp_parse_headers_(_, _), evhttp_handle_chunked_read(_, _)

evhttp_parse_headers_(s, r) ==
    LET line == Line(s.c.input)
        t == [readln(s) EXCEPT !.r[r].headers_size = IF line = "blank" THEN @ ELSE @ + 1]
    IN  CASE LineAt(s.c.input) = 0 ->
                Returns(s, IF s.r[r].headers_size + Len(s.c.input) > max_headers_size
                           THEN "too_long" ELSE "more")
          [] LineAt(s.c.input) # 0 /\ t.r[r].headers_size > max_headers_size ->
                Returns(t, "too_long")
          [] LineAt(s.c.input) # 0 /\ t.r[r].headers_size <= max_headers_size ->
                CASE line = "blank"     -> Returns(t, "all")
                  [] line \in Headers   -> evhttp_parse_headers_(evhttp_add_header(t, r, line), r)
                  [] OTHER              -> Returns(t, "corrupted")

(* Moves n tokens of the input to the request. *)
Move(s, r, n) ==
    [s EXCEPT !.c.input = SubSeq(@, n + 1, Len(@)), !.r[r].input = @ + n]

(* The program's chunk_cb, and the drain of the request's input after it.  *)
(* When it cancels the request or frees the connection the reader returns. *)
Leaves(s) == s.does.chunk = "cancel" \/ (s.does.chunk = "free" /\ ~Has(s, "AUTOFREE"))

chunk_cb(s, r) ==
    IF Leaves(s) THEN [s EXCEPT !.call = "chunk_cb"] ELSE [s EXCEPT !.r[r].input = 0]

(* The request is only marked while its chunk_cb runs, and freed after it. *)
evhttp_chunk_left(s, r) ==
    LET t == [s EXCEPT !.r[r].defer = TRUE]
    IN  evhttp_request_free(
            [IF s.does.chunk = "cancel" THEN evhttp_cancel_request(t, r) ELSE program_frees(t)
                EXCEPT !.r[r].defer = FALSE, !.r[r].input = 0], r)

ChunkSizes == [x \in {"0", "1", "2"} |->
                  CASE x = "0" -> 0 [] x = "1" -> 1 [] x = "2" -> 2]

evhttp_handle_chunked_read(s, r) ==
    LET q == s.r[r]
        line == Line(s.c.input)
        n == ChunkSizes[line]
        t == [readln(s) EXCEPT !.r[r].body_size = @ + n, !.r[r].ntoread = n]
        moved == [Move(s, r, q.ntoread) EXCEPT !.r[r].ntoread = -1]
        after == IF s.does.chunk = "none" THEN moved ELSE chunk_cb(moved, r)
    IN  IF q.ntoread < 0
        THEN CASE LineAt(s.c.input) = 0 -> Returns(s, "more")
               [] LineAt(s.c.input) # 0 /\ line = "blank" ->
                     evhttp_handle_chunked_read(readln(s), r)
               [] LineAt(s.c.input) # 0 /\ line \in DOMAIN ChunkSizes ->
                     CASE q.body_size + n > max_body_size -> Returns(readln(s), "too_long")
                       [] q.body_size + n <= max_body_size /\ n = 0 -> Returns(t, "all")
                       [] OTHER -> evhttp_handle_chunked_read(t, r)
               [] OTHER -> Returns(readln(s), "corrupted")
        ELSE CASE Len(s.c.input) < q.ntoread -> Returns(s, "more")
               [] Len(s.c.input) >= q.ntoread /\ after.call = "chunk_cb" -> Returns(after, "canceled")
               [] OTHER -> evhttp_handle_chunked_read(after, r)

evhttp_read_trailer(s, r) ==
    LET t == evhttp_parse_headers_(s, r)
    IN  CASE t.st \in {"corrupted", "too_long"} -> Fails(t, "TOO_LONG")
          [] t.st = "all" -> Done(bufferevent_disable(t, {"READ"}))
          [] OTHER -> t

(* a fault: what is thrown away is not counted *)
lingering_close_uncounted(s, r) ==
    LET n == IF Len(s.c.input) > s.r[r].ntoread THEN s.r[r].ntoread ELSE Len(s.c.input)
        t == [s EXCEPT !.c.input = SubSeq(@, n + 1, Len(@)), !.r[r].ntoread = @ - n]
    IN  IF t.r[r].ntoread = 0 THEN Fails(t, "TOO_LONG") ELSE t

evhttp_lingering_close(s, r) ==
    LET q == s.r[r]
        n == IF q.ntoread >= 0 /\ Len(s.c.input) > q.ntoread
             THEN q.ntoread ELSE Len(s.c.input)
        t == [s EXCEPT !.c.input = SubSeq(@, n + 1, Len(@)),
                       !.r[r].ntoread = @ - n, !.r[r].body_size = @ + n]
    IN  IF t.r[r].ntoread = 0 THEN Fails(t, "TOO_LONG") ELSE t

evhttp_lingering_fail(s, r) ==
    IF Has(s, "LINGERING_CLOSE") THEN evhttp_lingering_close(s, r)
    ELSE Fails(s, "TOO_LONG")

evhttp_read_body(s, r) ==
    LET q == s.r[r]
        c == evhttp_handle_chunked_read(s, r)
        all == [Move(s, r, Len(s.c.input)) EXCEPT !.r[r].body_size = @ + Len(s.c.input)]
        n == IF Len(s.c.input) > q.ntoread THEN q.ntoread ELSE Len(s.c.input)
        some == [Move(s, r, n) EXCEPT !.r[r].body_size = @ + n, !.r[r].ntoread = @ - n]
        t == CASE q.chunked -> c
               [] ~q.chunked /\ q.ntoread < 0 -> all
               [] OTHER -> IF s.does.chunk # "none" \/ Len(s.c.input) >= q.ntoread
                           THEN some ELSE s
        long == t.r[r].body_size > max_body_size
                \/ (~t.r[r].chunked /\ t.r[r].ntoread > max_body_size)
        u == IF t.r[r].input > 0 /\ s.does.chunk # "none" THEN chunk_cb(t, r) ELSE t
    IN  IF q.chunked /\ c.st # "more"
        THEN CASE c.st = "all" ->
                    evhttp_read_trailer([c EXCEPT !.c.state = "READING_TRAILER"], r)
               [] c.st = "canceled" -> c
               [] OTHER -> Fails(c, "TOO_LONG")
        ELSE CASE long -> evhttp_lingering_fail(t, r)
               [] ~long /\ u.call = "chunk_cb" -> u
               [] ~long /\ u.call # "chunk_cb" /\ u.r[r].ntoread = 0 ->
                    Done(bufferevent_disable(u, {"READ"}))
               [] OTHER -> u

evhttp_get_body_length(q) == IF q.encoded THEN -1 ELSE q.length

evhttp_have_expect(q) == IF q.kind = "REQUEST" /\ q.v11 THEN q.expect ELSE "NO"

evhttp_get_body(s, r) ==
    LET q == s.r[r]
        request == q.kind = "REQUEST"
        ntoread == evhttp_get_body_length(q)
        t == [s EXCEPT !.c.state = "READING_BODY", !.r[r].ntoread = ntoread,
                       !.r[r].chunked = q.encoded]
        expect == evhttp_have_expect(q)
    IN  CASE request /\ ~evhttp_method_may_have_body(q.type) -> Done(s)
          [] ~(request /\ ~evhttp_method_may_have_body(q.type)) ->
                CASE ~q.encoded /\ ntoread = -2 ->
                        Fails([s EXCEPT !.c.state = "READING_BODY"],
                                                "INVALID_HEADER")
                  [] request /\ ~q.encoded /\ ntoread \in {-1, 0} -> Done(t)
                  [] OTHER ->
                        CASE expect = "CONTINUE" /\ ntoread > max_body_size ->
                                evhttp_lingering_fail(t, r)
                          [] expect = "CONTINUE" /\ ntoread <= max_body_size ->
                                evhttp_read_body(IF t.c.input = <<>>
                                                 THEN evhttp_send_continue(t) ELSE t, r)
                          [] expect = "OTHER" -> [t EXCEPT !.call = "send_error"]
                          [] OTHER -> evhttp_read_body(t, r)

evhttp_read_header(s, r) ==
    LET t == evhttp_parse_headers_(s, r)
    IN  CASE t.st \in {"corrupted", "too_long"} -> Fails(t, "INVALID_HEADER")
          [] t.st = "more" -> t
          [] t.st = "all" /\ s.does.header = "stop" -> Fails(t, "EOF")
          [] OTHER ->
                CASE t.r[r].kind = "RESPONSE" /\ t.r[r].code = 100 -> evhttp_start_write_(t)
                  [] t.r[r].kind = "RESPONSE" /\ t.r[r].code # 100
                     /\ ~evhttp_response_needs_body(t, r) -> Done(t)
                  [] OTHER -> evhttp_get_body(t, r)

evhttp_read_firstline(s, r) ==
    LET t == evhttp_parse_firstline_(s, r)
    IN  CASE t.st \in {"corrupted", "too_long"} -> Fails(t, "INVALID_HEADER")
          [] t.st = "more" -> t
          [] OTHER -> evhttp_read_header([t EXCEPT !.c.state = "READING_HEADERS"], r)

(* The reader of the state, which goes on to those of the next states. *)
ReadState(s, r) ==
    CASE s.c.state = "READING_FIRSTLINE" -> evhttp_read_firstline(s, r)
      [] s.c.state = "READING_HEADERS"   -> evhttp_read_header(s, r)
      [] s.c.state = "READING_BODY"      -> evhttp_read_body(s, r)
      [] s.c.state = "READING_TRAILER"   -> evhttp_read_trailer(s, r)

Finish(s, r) ==
    CASE s.call = "fail"       -> evhttp_connection_fail_(s, s.error)
      [] s.call = "done"       -> evhttp_connection_done(s)
      [] s.call = "chunk_cb"   -> evhttp_chunk_left(s, r)
      [] s.call = "send_error" -> evhttp_send_error(s, r)
      [] OTHER                 -> s

evhttp_read_cb(s) ==
    LET t == [s EXCEPT !.c.deferred = FALSE]
    IN  CASE t.c.state \in ReqStates /\ t.c.requests = <<>> -> Breaks(t, "wild")
          [] t.c.state = "IDLE" -> evhttp_connection_reset_(t)
          [] t.c.state \in {"DISCONNECTED", "CONNECTING", "WRITING"} -> Breaks(t, "assert")
          [] OTHER -> Finish(ReadState(t, First(t)), First(t))

(* Called when the output has drained, so that it never finds anything     *)
(* left in it.                                                             *)
evhttp_write_connectioncb(s) ==
    IF s.c.requests = <<>> \/ s.c.state # "WRITING" THEN Breaks(s, "assert")
    ELSE evhttp_start_read_([s EXCEPT !.r[First(s)].kind = "RESPONSE"])

evhttp_send_continue_done(s) == bufferevent_disable(s, {"WRITE"})

evhttp_write_cb(s) ==
    CASE s.c.cb = "send_continue_done" -> evhttp_send_continue_done(s)
      [] s.c.cb = "send_done" -> evhttp_send_done(s)
      [] s.c.cb = "write_connectioncb" -> evhttp_write_connectioncb(s)
      [] OTHER -> s

evhttp_connection_read_on_write_error(s) ==
    IF Has(s, "READING_ERROR")
    THEN evhttp_connection_fail_([s EXCEPT !.c.flags = @ \ {"READING_ERROR"}], "EOF")
    ELSE [evhttp_start_read_([s EXCEPT !.r[First(s)].kind = "RESPONSE", !.c.output = 0])
            EXCEPT !.c.flags = @ \cup {"READING_ERROR"}]

(* The benign end of a body read until close, close detection, and the rest *)
evhttp_error_cb(s, what) ==
    LET quiet == s.c.state = "READING_BODY" /\ what = {"READING", "EOF"}
                 /\ ~s.r[First(s)].chunked /\ s.r[First(s)].ntoread < 0
        t == evhttp_connection_reset_([s EXCEPT !.c.flags = @ \ {"CLOSEDETECT"}])
        roe == Has(s, "READ_ON_WRITE_ERROR")
    IN  CASE s.c.state = "CONNECTING" /\ "TIMEOUT" \in what -> evhttp_connection_cb_cleanup(s)
          [] quiet -> evhttp_connection_done(s)
          [] ~quiet /\ ~(s.c.state = "CONNECTING" /\ "TIMEOUT" \in what) ->
                CASE Has(s, "CLOSEDETECT") ->
                        CASE s.c.state # "IDLE" -> Breaks(s, "assert")
                          [] s.c.state = "IDLE" /\ t.c.requests = <<>>
                             /\ {"OUTGOING", "AUTOFREE"} \subseteq t.c.flags ->
                                evhttp_connection_free(t)
                          [] OTHER -> t
                  [] ~Has(s, "CLOSEDETECT") /\ "TIMEOUT" \in what ->
                        evhttp_connection_fail_(s, "TIMEOUT")
                  [] OTHER ->
                        CASE roe /\ "WRITING" \in what -> evhttp_connection_read_on_write_error(s)
                          [] roe /\ "READING" \in what /\ s.c.input # <<>> ->
                                [s EXCEPT !.c.deferred = TRUE]
                          [] OTHER -> evhttp_connection_fail_(s, "EOF")

(* result: "connected", "refused" or "error"; a refused one is tried again *)
evhttp_connection_cb(s, result) ==
    CASE result = "refused" -> evhttp_connection_cb_cleanup(s)
      [] result \in {"error", "timeout"} ->
            evhttp_error_cb(s, IF result = "error" THEN {"ERROR"} ELSE {"WRITING", "TIMEOUT"})
      [] OTHER -> evhttp_request_dispatch(
                    bufferevent_setcb([s EXCEPT !.c.retry_cnt = 0, !.c.state = "IDLE"],
                                      TRUE, TRUE, "error_cb"))

-----------------------------------------------------------------------------
(* evhttp_connection_base_bufferevent_new *)
NewConnection(flags) ==
    [NoConnection EXCEPT !.alive = TRUE, !.flags = flags, !.readcb = TRUE,
                         !.writecb = TRUE, !.eventcb = "error_cb"]

Init ==
    /\ does \in Programs
    /\ evcon = NoConnection
    /\ req = [r \in Reqs |-> NoRequest]
    /\ broken = "no"

Works == broken = "no"

Unused == {r \in Reqs : req[r].mem # "live"}

(* The calls of a client. *)

Create ==
    /\ Works /\ does.role = "client" /\ ~evcon.alive
    /\ Becomes([State("async") EXCEPT !.c = NewConnection(does.flags)])

MakeRequest(net) ==
    /\ Works /\ does.role = "client" /\ evcon.alive
    /\ GaveUp(evcon) => "after_retries" \in May
    /\ Unused # {}
    /\ \E type \in {"GET", "HEAD"} :
          Becomes(evhttp_make_request(State(net), CHOOSE r \in Unused : TRUE, type))

CancelRequest(net) ==
    /\ Works /\ does.role = "client" /\ evcon.alive /\ "cancel" \in May
    /\ evcon.retry_ev => "cancel_in_retry" \in May
    /\ \E r \in Reqs : /\ req[r].mem = "live" /\ req[r].evcon
                       /\ Becomes(evhttp_cancel_request(State(net), r))

FreeConnection ==
    /\ Works /\ evcon.alive /\ "free" \in May
    /\ "AUTOFREE" \notin evcon.flags
    /\ Becomes(program_frees(State("async")))

(* The calls of a server, and the listener's callback. *)

evhttp_get_request_connection ==
    [NewConnection(does.flags \cup {"INCOMING"}) EXCEPT
        !.state = "READING_FIRSTLINE", !.sock = "up", !.enabled = {"READ"}]

evhttp_get_request ==
    /\ Works /\ does.role = "server" /\ ~evcon.alive /\ Unused # {}
    /\ Becomes(evhttp_associate_new_request_with_connection(
            [State("async") EXCEPT !.c = evhttp_get_request_connection]))

Held(r, started) == Works /\ req[r].held /\ req[r].started = started

Reply == \E r \in Reqs : Held(r, FALSE) /\ Becomes(evhttp_send_reply(State("async"), r))

ReplyError == \E r \in Reqs : Held(r, FALSE) /\ Becomes(evhttp_send_error(State("async"), r))

ReplyStart ==
    \E r \in Reqs : Held(r, FALSE) /\ Becomes(evhttp_send_reply_start(State("async"), r))

ReplyChunk ==
    \E r \in Reqs : Held(r, TRUE) /\ Becomes(evhttp_send_reply_chunk(State("async"), r))

ReplyEnd ==
    \E r \in Reqs : Held(r, TRUE) /\ Becomes(evhttp_send_reply_end(State("async"), r))

(* The event loop: the lookup of the address, the socket, the timers. *)

eventcb(s, what) == IF s.c.eventcb = "error_cb" THEN evhttp_error_cb(s, what) ELSE s

connectcb(s, result) ==
    IF s.c.eventcb = "connection_cb" THEN evhttp_connection_cb(s, result) ELSE s

Lookup(net) ==
    /\ Works /\ evcon.sock = "lookup"
    /\ \/ Becomes([State(net) EXCEPT !.c.sock = "connecting", !.c.ev_write = TRUE])
       \/ \E result \in {"refused", "error"} : Becomes(connectcb(State(net), result))

Connect(net) ==
    /\ Works /\ evcon.sock = "connecting" /\ evcon.ev_write
    /\ \/ Becomes(connectcb([State(net) EXCEPT !.c.sock = "up"], "connected"))
       \/ \E result \in {"refused", "error"} :
            Becomes(connectcb([State(net) EXCEPT !.c.ev_write = FALSE], result))
       \/ Becomes(connectcb(bufferevent_disable(State(net), {"WRITE"}), "timeout"))

(* A server never connects. *)
Matters(net) == does.role = "server" => net = "async"

Reads == Works /\ evcon.sock = "up" /\ "READ" \in evcon.enabled

(* Inside a body it does not matter what a token says. *)
Body == /\ evcon.state = "READING_BODY"
        /\ LET q == req[Head(evcon.requests)] IN q.ntoread > 0 \/ ~q.chunked

Read(net) ==
    /\ Reads /\ Matters(net) /\ Len(evcon.input) < MaxInput
    /\ evcon.state = "IDLE" => "idle_data" \in May
    /\ \A r \in Reqs : req[r].body_size <= MaxBody
    /\ \E x \in CASE ~evcon.readcb -> Early
                 [] evcon.readcb /\ Body -> {"byte"}
                 [] OTHER -> Tokens[does.role] :
          LET s == [State(net) EXCEPT !.c.input = Append(@, x)]
          IN  Becomes(IF s.c.readcb THEN evhttp_read_cb(s) ELSE s)

ReadFails(net) ==
    /\ Reads /\ Matters(net)
    /\ \E how \in {"EOF", "ERROR", "TIMEOUT"} :
          Becomes(eventcb(bufferevent_disable(State(net), {"READ"}), {"READING", how}))

Writes == Works /\ evcon.sock = "up" /\ evcon.ev_write

Write(net) ==
    /\ Writes /\ Matters(net)
    /\ LET s == [State(net) EXCEPT !.c.output = 0, !.c.ev_write = FALSE]
       IN  Becomes(IF s.c.writecb THEN evhttp_write_cb(s) ELSE s)

WriteFails(net) ==
    /\ Writes /\ Matters(net)
    /\ \E how \in {"ERROR", "TIMEOUT"} :
          /\ how = "ERROR" => evcon.output > 0
          /\ Becomes(eventcb(bufferevent_disable(State(net), {"WRITE"}), {"WRITING", how}))

evhttp_connection_retry(net) ==
    /\ Works /\ evcon.retry_ev
    /\ Becomes(evhttp_connection_connect_(
            [State(net) EXCEPT !.c.retry_ev = FALSE, !.c.state = "DISCONNECTED"]))

evhttp_deferred_read_cb(net) ==
    /\ Works /\ evcon.deferred /\ Matters(net)
    /\ LET s == [State(net) EXCEPT !.c.deferred = FALSE]
       IN  Becomes(IF s.c.readcb THEN evhttp_read_cb(s) ELSE s)

Next ==
    \/ Create \/ FreeConnection \/ evhttp_get_request
    \/ Reply \/ ReplyError \/ ReplyStart \/ ReplyChunk \/ ReplyEnd
    \/ \E net \in NetModes :
          \/ MakeRequest(net) \/ CancelRequest(net)
          \/ Lookup(net) \/ Connect(net)
          \/ Read(net) \/ ReadFails(net) \/ Write(net) \/ WriteFails(net)
          \/ evhttp_connection_retry(net) \/ evhttp_deferred_read_cb(net)

Spec == Init /\ [][Next]_vars

-----------------------------------------------------------------------------
(* Properties *)

(* A server's handler may keep a request as long as it likes: the request  *)
(* stays allocated, and when it still has its connection it is the first   *)
(* one on it, which evhttp_send asserts.                                   *)
HeldIsSafe ==
    \A r \in Reqs : req[r].held =>
        /\ req[r].mem = "live"
        /\ req[r].evcon => evcon.requests # <<>> /\ Head(evcon.requests) = r

(* No EVUTIL_ASSERT of http.c fails, no callback runs in a state for which *)
(* evhttp_read_cb calls event_errx, no request is freed twice, no          *)
(* connection is touched after a callback freed it, and what a handler     *)
(* holds is there when it sends its answer.                                *)
NothingBreaks == broken = "no" /\ HeldIsSafe



(* A message is handed to its callback as complete only when its body is:  *)
(* all of Content-Length, up to the last chunk, and within max_body_size   *)
(* whether or not the connection lingers.                                  *)
BodyComplete == \A r \in Reqs : req[r].complete

=============================================================================
