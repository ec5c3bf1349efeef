----------------------------- MODULE DnsServer ------------------------------
(***************************************************************************)
(* A port on which the program serves DNS (evdns.c, evdns_server_port):    *)
(* the requests that came in, which the program answers or drops when it   *)
(* likes, the replies that could not be sent yet, and the count of         *)
(* references that decides when a port the program closed is freed.        *)
(***************************************************************************)
EXTENDS Integers, SequencesExt

CONSTANTS
    Queries,    \* the requests that may come in
    Late        \* the program answers on a port that it closed

VARIABLE port   \* [alive, refcnt, closing, choked, pending : replies to be
                \* sent again, writes : the event asks for EV_WRITE,
                \* reads : for EV_READ, req : where each request is,
                \* formatted : those with a response, sent : how often,
                \* wrong : freed memory was used]

Sends == {"sent", "again", "error"}     \* what sendto returns

-----------------------------------------------------------------------------
server_port_free(s) ==
    [s EXCEPT !.alive = FALSE, !.writes = FALSE, !.reads = FALSE,
              !.wrong = @ \/ s.refcnt # 0 \/ s.pending # <<>>]


(* The last one gone, the port is freed: alive tells the caller. *)
server_request_free(s, q) ==
    LET t == [s EXCEPT !.pending = SelectSeq(@, LAMBDA p : p # q), !.req[q] = "gone",
                       !.formatted = @ \ {q}, !.refcnt = @ - 1]
    IN  IF t.refcnt = 0 THEN server_port_free(t) ELSE t

(* An error of sendto drops the reply; when it would block, the rest waits. *)
RECURSIVE server_port_flush(_, _)
server_port_flush(s, sends) ==
    IF s.pending = <<>> THEN [s EXCEPT !.writes = FALSE, !.reads = TRUE]
    ELSE LET q == Head(s.pending)
             t == IF sends[q] = "sent" THEN [s EXCEPT !.sent[q] = @ + 1] ELSE s
             u == server_request_free(t, q)
         IN  IF sends[q] = "again" THEN s
             ELSE IF ~u.alive THEN u
             ELSE server_port_flush(u, sends)

(* fits: the names can be written in a packet *)
evdns_server_request_format_response(s, q) == [s EXCEPT !.formatted = @ \union {q}]

(* The lock of the port is released at the end, also of a port that        *)
(* server_request_free freed.                                              *)
evdns_server_request_respond(s, q, fits, sends) ==
    LET t == IF q \in s.formatted \/ ~fits THEN s ELSE evdns_server_request_format_response(s, q)
        u == server_request_free([t EXCEPT !.sent[q] = @ + 1], q)
        v == IF ~u.alive THEN u
             ELSE IF u.pending # <<>> THEN server_port_flush(u, sends) ELSE u
    IN  IF q \notin t.formatted \/ sends[q] = "again" THEN t
        ELSE IF sends[q] = "error"
        THEN IF t.pending # <<>>
             THEN [t EXCEPT !.pending = Append(@, q), !.req[q] = "pending"]
             ELSE [t EXCEPT !.pending = <<q>>, !.req[q] = "pending", !.choked = TRUE,
                            !.writes = TRUE, !.reads = ~t.closing]
        ELSE [v EXCEPT !.wrong = @ \/ ~v.alive]

evdns_server_request_drop(s, q) == server_request_free(s, q)

(* What the program's callback does at once with a request, if anything. *)
user_callback(s, q, does, sends) ==
    CASE does = "keep" -> s
      [] does = "respond" -> evdns_server_request_respond(s, q, TRUE, sends)
      [] does = "drop" -> evdns_server_request_drop(s, q)

(* good: a query that can be parsed.  The operation of the query is looked *)
(* at in flags of which only RD and CD are left, so every one is passed on. *)
request_parse(s, q, good, does, sends) ==
    IF ~good THEN [s EXCEPT !.req[q] = "gone"]
    ELSE user_callback([s EXCEPT !.req[q] = "user", !.refcnt = @ + 1], q, does, sends)

(* recvfrom until the socket is empty: on a freed port it reads on *)
server_port_read(s, q, good, does, sends) ==
    LET t == request_parse(s, q, good, does, sends) IN [t EXCEPT !.wrong = @ \/ ~t.alive]

(* EV_WRITE, of server_port_ready_callback *)
server_port_writable(s, sends) ==
    LET t == server_port_flush([s EXCEPT !.choked = FALSE], sends)
    IN  [t EXCEPT !.wrong = @ \/ ~t.alive]

evdns_close_server_port(s) ==
    LET t == [s EXCEPT !.refcnt = @ - 1, !.closing = TRUE]
    IN  IF t.refcnt = 0 THEN server_port_free(t) ELSE t

-----------------------------------------------------------------------------
(* evdns_add_server_port_with_base *)
PortInit ==
    port = [alive |-> TRUE, refcnt |-> 1, closing |-> FALSE, choked |-> FALSE, pending |-> <<>>,
            writes |-> FALSE, reads |-> TRUE, req |-> [q \in Queries |-> "idle"],
            formatted |-> {}, sent |-> [q \in Queries |-> 0], wrong |-> FALSE]

InUse(s) == {q \in Queries : s.req[q] \in {"user", "pending"}}

Readable ==
    \E q \in Queries, good \in BOOLEAN, does \in {"keep", "respond", "drop"}, sends \in [Queries -> Sends] :
        /\ port.alive /\ port.reads /\ port.req[q] = "idle"
        /\ Late \/ ~port.closing \/ does = "keep"
        /\ port' = server_port_read(port, q, good, does, sends)

Writable ==
    \E sends \in [Queries -> Sends] :
        /\ port.alive /\ port.writes
        /\ Late \/ ~port.closing
        /\ port' = server_port_writable(port, sends)

Respond ==
    \E q \in Queries, fits \in BOOLEAN, sends \in [Queries -> Sends] :
        /\ port.req[q] = "user"
        /\ Late \/ ~port.closing
        /\ port' = evdns_server_request_respond(port, q, fits, sends)

Drop ==
    \E q \in Queries : port.req[q] = "user" /\ port' = evdns_server_request_drop(port, q)

ClosePort ==
    /\ port.alive /\ ~port.closing
    /\ port' = evdns_close_server_port(port)

PortNext == ~port.wrong /\ (Readable \/ Writable \/ Respond \/ Drop \/ ClosePort)

-----------------------------------------------------------------------------
=============================================================================
