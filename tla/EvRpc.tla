------------------------------- MODULE EvRpc --------------------------------
(***************************************************************************)
(* Remote procedure calls over HTTP: evrpc.c.  A pool of client            *)
(* connections and its queue of requests, a server with the calls it has   *)
(* received, and the hooks of both, which let a message pass, end it, or   *)
(* keep it until evrpc_resume_request.                                     *)
(*                                                                         *)
(* An HTTP connection is the queue of requests it has to carry out; its    *)
(* first one is answered or fails (http.c, evhttp_connection_done and      *)
(* evhttp_connection_fail_).  Payloads are marshalled or they are not.     *)
(***************************************************************************)
EXTENDS Integers, FiniteSetsExt, SequencesExt

CONSTANTS
    Requests,       \* requests of the client
    Connections,    \* connections it may put in the pool
    Calls,          \* calls that reach the server
    Allowed         \* what programs may do: "starve" (end a request when
                    \* others are queued), "dangle" (fail with a timer
                    \* pending), "abandon" (free what is still in use)

VARIABLES
    timeout,    \* pool->timeout > 0
    pool,       \* [alive, connections, requests, paused : the messages the
                \* hooks of the pool and of the server keep, on : the requests of
                \* each connection, timer : requests whose ev_timeout is pending,
                \* evcon, told : how often ctx->cb was called, gone : freed]
    server,     \* [registered, calls : where each is, answers : replies sent]
    wrong       \* "no", or what happened

rpcvars == <<timeout, pool, server, wrong>>

Hooks == {"CONTINUE", "TERMINATE", "PAUSE"}

RpcState == [p |-> pool, v |-> server, wrong |-> wrong]

BecomesRpc(s) == pool' = s.p /\ server' = s.v /\ wrong' = s.wrong /\ UNCHANGED timeout

-----------------------------------------------------------------------------
(* The client. *)

evrpc_request_wrapper_free(s, r) == [s EXCEPT !.p.gone = @ \union {r}, !.p.evcon[r] = "none"]

Tells(s, r) == evrpc_request_wrapper_free([s EXCEPT !.p.told[r] = @ + 1], r)

evrpc_pause_request(s, x, at) == [s EXCEPT !.p.paused = Append(@, [x |-> x, at |-> at])]

(* fails: evhttp_make_request returns -1. *)
evrpc_schedule_request_closure(s, r, res, fails) ==
    LET t == IF timeout THEN [s EXCEPT !.p.timer = @ \union {r}] ELSE s
    IN  IF res = "TERMINATE" THEN Tells(s, r)
        ELSE IF fails THEN Tells(t, r)
        ELSE [t EXCEPT !.p.on[t.p.evcon[r]] = Append(@, r)]

evrpc_schedule_request(s, c, r, hook, fails) ==
    LET t == [s EXCEPT !.p.evcon[r] = c]
    IN  CASE hook = "TERMINATE" -> Tells(t, r)
          [] hook = "PAUSE" -> evrpc_pause_request(t, r, "out")
          [] hook = "CONTINUE" -> evrpc_schedule_request_closure(t, r, hook, fails)

evrpc_pool_find_connection(s) == SelectSeq(s.p.connections, LAMBDA c : s.p.on[c] = <<>>)

evrpc_pool_schedule(s, hook, fails) ==
    LET free == evrpc_pool_find_connection(s)
    IN  IF s.p.requests = <<>> \/ free = <<>> THEN s
        ELSE evrpc_schedule_request([s EXCEPT !.p.requests = Tail(@)], Head(free),
                                    Head(s.p.requests), hook, fails)

evrpc_make_request(s, r, hook, fails) ==
    evrpc_pool_schedule(
        [s EXCEPT !.p.requests = Append(@, r),
                  !.wrong = IF s.p.connections = <<>> THEN "assert" ELSE @], hook, fails)

evrpc_pool_add_connection(s, c, hook, fails) ==
    LET t == [s EXCEPT !.p.connections = Append(@, c)]
    IN  IF t.p.requests = <<>> THEN t
        ELSE evrpc_schedule_request([t EXCEPT !.p.requests = Tail(@)], c, Head(t.p.requests),
                                    hook, fails)

(* Mutant: the connection stays idle until the next request is made. *)
reply_done_closure_rests(s, r, hook, fails) == Tells(s, r)

(* The request is told of its answer, or of the error; then the next one. *)
evrpc_reply_done_closure(s, r, hook, fails) == evrpc_pool_schedule(Tells(s, r), hook, fails)

(* answered: there is an HTTP answer, which the input hooks see first. *)
evrpc_reply_done(s, r, answered, in, hook, fails) ==
    LET t == [s EXCEPT !.p.timer = @ \ {r}]
    IN  IF answered /\ in = "PAUSE" THEN evrpc_pause_request(t, r, "in")
        ELSE evrpc_reply_done_closure(t, r, hook, fails)

(* The first request of a connection ends. *)
Ends(s, c, answered, in, hook, fails) ==
    IF s.p.on[c] = <<>> THEN [s EXCEPT !.wrong = "assert"]
    ELSE evrpc_reply_done([s EXCEPT !.p.on[c] = Tail(@)], Head(s.p.on[c]), answered, in, hook, fails)

evrpc_request_timeout(s, r, hook, fails) ==
    IF r \in s.p.gone THEN [s EXCEPT !.wrong = "timer of a freed request"]
    ELSE Ends([s EXCEPT !.p.timer = @ \ {r}], s.p.evcon[r], FALSE, "CONTINUE", hook, fails)

(* The timers and requests of connections that are in use are left behind. *)
evrpc_pool_free(s) ==
    LET queued == Range(s.p.requests)
    IN  [s EXCEPT !.p.alive = FALSE, !.p.gone = @ \union queued, !.p.requests = <<>>,
                  !.p.paused = SelectSeq(@, LAMBDA x : x.x \notin Requests),
                  !.p.on = [c \in Connections |-> <<>>], !.p.connections = <<>>,
                  !.wrong = IF s.p.timer # {} THEN "timer of a freed connection" ELSE @]

-----------------------------------------------------------------------------
(* The server. *)

Answers(s, q) == [s EXCEPT !.v.answers[q] = @ + 1, !.v.calls[q] = "answered",
                           !.wrong = IF ~s.v.registered THEN "rpc is freed" ELSE @]

(* good: the payload unmarshals *)
evrpc_request_cb_closure(s, q, res, good) ==
    IF res = "TERMINATE" \/ ~good THEN Answers(s, q) ELSE [s EXCEPT !.v.calls[q] = "handled"]

(* post: it is a POST with a body *)
evrpc_request_cb(s, q, post, hook, good) ==
    IF ~post \/ hook = "TERMINATE" THEN Answers(s, q)
    ELSE IF hook = "PAUSE"
    THEN evrpc_pause_request([s EXCEPT !.v.calls[q] = "paused"], q, "server in")
    ELSE evrpc_request_cb_closure(s, q, hook, good)

evrpc_request_done_closure(s, q) == Answers(s, q)

(* complete: the program filled in the reply *)
evrpc_request_done(s, q, complete, hook) ==
    IF complete /\ hook = "PAUSE"
    THEN evrpc_pause_request([s EXCEPT !.v.calls[q] = "paused"], q, "server out")
    ELSE evrpc_request_done_closure(s, q)

(* Mutant: what was paused stays in the list. *)
resume_keeps(s, i, res, hook, good, fails) ==
    LET x == s.p.paused[i]
    IN  CASE x.at = "out" -> evrpc_schedule_request_closure(s, x.x, res, fails)
          [] x.at = "in" -> evrpc_reply_done_closure(s, x.x, hook, fails)
          [] x.at = "server in" -> evrpc_request_cb_closure(s, x.x, res, good)
          [] x.at = "server out" -> evrpc_request_done_closure(s, x.x)

(* evrpc_resume_request, of the i-th paused message *)
evrpc_resume_request(s, i, res, hook, good, fails) ==
    LET x == s.p.paused[i]
        t == CASE x.at = "out" -> evrpc_schedule_request_closure(s, x.x, res, fails)
               [] x.at = "in" -> evrpc_reply_done_closure(s, x.x, hook, fails)
               [] x.at = "server in" -> evrpc_request_cb_closure(s, x.x, res, good)
               [] x.at = "server out" -> evrpc_request_done_closure(s, x.x)
    IN  [t EXCEPT !.p.paused = RemoveAt(@, i)]

(* evrpc_unregister_rpc, and with it evrpc_free *)
evrpc_unregister_rpc(s) == [s EXCEPT !.v.registered = FALSE]

-----------------------------------------------------------------------------
RpcInit ==
    /\ timeout \in BOOLEAN
    /\ pool = [alive |-> TRUE, connections |-> <<>>, requests |-> <<>>, paused |-> <<>>,
               on |-> [c \in Connections |-> <<>>], timer |-> {},
               evcon |-> [r \in Requests |-> "none"], told |-> [r \in Requests |-> 0], gone |-> {}]
    /\ server = [registered |-> TRUE, calls |-> [q \in Calls |-> "idle"], answers |-> [q \in Calls |-> 0]]
    /\ wrong = "no"

Made(r) ==
    \/ r \in pool.gone \/ Contains(pool.requests, r) \/ \E c \in Connections : Contains(pool.on[c], r)
    \/ \E i \in DOMAIN pool.paused : pool.paused[i].x = r

(* What the hooks and evhttp_make_request may answer to whatever F, with   *)
(* these answers, makes of the state.                                      *)
Rpc(F(_, _)) ==
    /\ wrong = "no"
    /\ \E hook \in Hooks, fails \in BOOLEAN :
          LET s == F(hook, fails)
              unstarted == hook = "TERMINATE" \/ fails
          IN  /\ "starve" \in Allowed \/ ~unstarted \/ s.p.requests = <<>>
              /\ "dangle" \in Allowed \/ ~fails \/ ~timeout
              /\ BecomesRpc(s)

MakeRequest ==
    \E r \in Requests : /\ pool.alive /\ ~Made(r) /\ pool.connections # <<>>
                        /\ Rpc(LAMBDA hook, fails : evrpc_make_request(RpcState, r, hook, fails))

AddConnection ==
    \E c \in Connections \ Range(pool.connections) :
        /\ pool.alive
        /\ Rpc(LAMBDA hook, fails : evrpc_pool_add_connection(RpcState, c, hook, fails))

evrpc_pool_remove_connection ==
    \E c \in Range(pool.connections) :
        /\ pool.alive /\ wrong = "no"
        /\ BecomesRpc([RpcState EXCEPT !.p.connections = SelectSeq(@, LAMBDA d : d # c)])

(* An answer, or none: the connection is lost or refused. *)
HttpDone ==
    \E c \in Connections, answered \in BOOLEAN, in \in Hooks :
        /\ pool.on[c] # <<>>
        /\ Rpc(LAMBDA hook, fails : Ends(RpcState, c, answered, in, hook, fails))

TimesOut ==
    \E r \in pool.timer : Rpc(LAMBDA hook, fails : evrpc_request_timeout(RpcState, r, hook, fails))

Resume ==
    \E i \in DOMAIN pool.paused, res \in {"CONTINUE", "TERMINATE"}, good \in BOOLEAN :
        /\ "starve" \in Allowed \/ res = "CONTINUE" \/ pool.requests = <<>>
        /\ Rpc(LAMBDA hook, fails : evrpc_resume_request(RpcState, i, res, hook, good, fails))

PoolFree ==
    /\ pool.alive /\ wrong = "no"
    /\ "abandon" \in Allowed \/ (pool.timer = {} /\ \A i \in DOMAIN pool.paused : pool.paused[i].x \in Calls)
    /\ BecomesRpc(evrpc_pool_free(RpcState))

CallArrives ==
    \E q \in Calls, post \in BOOLEAN, hook \in Hooks, good \in BOOLEAN :
        /\ wrong = "no" /\ server.registered /\ server.calls[q] = "idle"
        /\ BecomesRpc(evrpc_request_cb(RpcState, q, post, hook, good))

CallDone ==
    \E q \in Calls, complete \in BOOLEAN, hook \in Hooks :
        /\ wrong = "no" /\ server.calls[q] = "handled"
        /\ BecomesRpc(evrpc_request_done(RpcState, q, complete, hook))

Unregister ==
    /\ wrong = "no" /\ server.registered
    /\ "abandon" \in Allowed \/ \A q \in Calls : server.calls[q] \in {"idle", "answered"}
    /\ BecomesRpc(evrpc_unregister_rpc(RpcState))

PoolNext ==
    \/ MakeRequest \/ AddConnection \/ evrpc_pool_remove_connection \/ HttpDone \/ TimesOut
    \/ Resume \/ PoolFree

ServerNext == CallArrives \/ CallDone \/ Resume \/ Unregister

-----------------------------------------------------------------------------
(* Every request of the client is in one place only, the queue, the list   *)
(* of the paused, or one connection, until its callback is called, once;   *)
(* every call of the server is answered once at most.  No timer is left of *)
(* a request that is gone, and no assertion of evrpc.c fails.              *)
AnsweredOnce ==
    /\ wrong = "no"
    /\ \A r \in Requests :
          LET places == Cardinality({i \in DOMAIN pool.requests : pool.requests[i] = r})
                      + Cardinality({i \in DOMAIN pool.paused : pool.paused[i].x = r})
                      + Cardinality({c \in Connections : Contains(pool.on[c], r)})
          IN  /\ pool.told[r] <= 1 /\ places <= 1
              /\ pool.told[r] = 1 => r \in pool.gone
              /\ r \in pool.gone => places = 0 /\ r \notin pool.timer
    /\ \A q \in Calls : server.answers[q] = (IF server.calls[q] = "answered" THEN 1 ELSE 0)

(* A request waits in the queue of the pool only while every connection of *)
(* the pool is busy, or the hooks keep back a message before it, whose end *)
(* will take up the queue again: evrpc.c sends a queued request "the next  *)
(* time a connection is empty".                                            *)
QueueMoves ==
    pool.requests # <<>> =>
        \/ \A c \in Range(pool.connections) : pool.on[c] # <<>>
        \/ \E i \in DOMAIN pool.paused : pool.paused[i].x \in Requests
=============================================================================
