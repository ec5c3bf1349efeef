---------------------------- MODULE GetAddrInfo -----------------------------
(***************************************************************************)
(* One call of evdns_getaddrinfo (evdns.c): the two lookups it starts, one *)
(* for each family of addresses, and the timer that limits how long the    *)
(* slower one may take once the faster one has answered.                   *)
(*                                                                         *)
(* A lookup is "none", "sent", or, once evdns has a result, due: its       *)
(* callback runs later from the event loop (reply_schedule_callback), and  *)
(* evdns_cancel_request no longer has an effect on it (pending_cb).  This  *)
(* is what module EvDns shows of a request.                                *)
(***************************************************************************)
EXTENDS Integers, FiniteSets, Sequences

CONSTANT Risks      \* "nomem": an address cannot be copied;
                    \* "freed": the base is freed before a callback or the timer

Families == {"v4", "v6"}

Other(f) == IF f = "v4" THEN "v6" ELSE "v4"

Results == {"address", "empty", "failed", "CANCEL", "SHUTDOWN"}

VARIABLES
    data,       \* the request, or what is left of it
    told,       \* the outcomes the program's callback was called with
    found,      \* families whose addresses were found before it was told
    base,       \* the evdns_base is in use
    gaiwrong    \* freed memory was used

gaivars == <<data, told, found, base, gaiwrong>>

NoLookup == [f \in Families |-> "none"]

NoData == [alive |-> FALSE, r |-> NoLookup, result |-> {}, error |-> "none",
           timer |-> FALSE, user_canceled |-> FALSE, request_done |-> FALSE, user_cb |-> FALSE]

-----------------------------------------------------------------------------
(* s: [d : data, told, wrong] *)

user_cb(s, e, got) == [s EXCEPT !.told = Append(@, [error |-> e, got |-> got])]

(* The answer that waits for the other one, or its error. *)
report(s) == IF s.d.result # {} THEN user_cb(s, "none", s.d.result) ELSE user_cb(s, s.d.error, {})

free_getaddrinfo_request(s) == [s EXCEPT !.d = NoData]

(* external: module EvDns, evdns_cancel_request *)
cancelled(r) == IF r = "sent" THEN "CANCEL" ELSE r

getaddrinfo_merge_err(e1, e2) == IF e1 = "none" THEN e2 ELSE e1

evdns_err_to_getaddrinfo_err(r) ==
    CASE r = "address" -> "none" [] r = "empty" -> "NODATA" [] OTHER -> "FAIL"

evdns_getaddrinfo_set_timeout(s) == [s EXCEPT !.d.timer = TRUE]

(* Mutant: the callback may be called again. *)
timeout_cb_forgets(s) ==
    LET late == {f \in Families : s.d.r[f] # "none"}
        t    == [s EXCEPT !.d.r = [f \in Families |-> cancelled(@[f])], !.d.timer = FALSE]
        u    == report(t)
    IN  [u EXCEPT !.d.result = {}]

(* The slower lookup took too long. *)
evdns_getaddrinfo_timeout_cb(s) ==
    LET late == {f \in Families : s.d.r[f] # "none"}
        t    == [s EXCEPT !.d.r = [f \in Families |-> cancelled(@[f])], !.d.timer = FALSE,
                          !.wrong = @ \/ Cardinality(late) = 2]
        u    == report(t)
        v    == [u EXCEPT !.d.result = {}, !.d.user_cb = FALSE]
    IN  IF late = {} THEN free_getaddrinfo_request(v) ELSE v

(* An answer that is an error: r of family f, whose other lookup is o. *)
got_error(s, r, o, err) ==
    LET d == s.d
    IN  IF o # "none"
        THEN LET t == IF r # "SHUTDOWN" THEN evdns_getaddrinfo_set_timeout(s) ELSE s
             IN  [t EXCEPT !.d.error = err]
        ELSE free_getaddrinfo_request(
                 IF d.user_canceled THEN user_cb(s, "CANCEL", {})
                 ELSE report([s EXCEPT !.d.error = getaddrinfo_merge_err(err, @)]))

(* An answer with addresses; copied: there is memory for them. *)
got_addresses(s, f, o, copied) ==
    IF s.d.user_canceled
    THEN IF o # "none" THEN s ELSE free_getaddrinfo_request(user_cb(s, "CANCEL", {}))
    ELSE IF ~copied
    THEN LET t == user_cb([s EXCEPT !.d.r = [g \in Families |-> cancelled(@[g])]], "MEMORY", {})
         IN  IF o = "none" THEN free_getaddrinfo_request(t) ELSE t
    ELSE IF o # "none"
    THEN [evdns_getaddrinfo_set_timeout(s) EXCEPT !.d.result = {f}]
    ELSE free_getaddrinfo_request(user_cb(s, "none", s.d.result \union {f}))

evdns_getaddrinfo_gotresolve(s, f, copied) ==
    LET r   == s.d.r[f]
        o   == s.d.r[Other(f)]
        t   == [s EXCEPT !.d.r[f] = "none",
                         !.d.request_done = @ \/ (r # "SHUTDOWN" /\ o = "none")]
        err == evdns_err_to_getaddrinfo_err(r)
    IN  IF r = "CANCEL" /\ ~s.d.user_canceled
        THEN IF o = "none" THEN free_getaddrinfo_request(t) ELSE t
        ELSE IF ~s.d.user_cb THEN free_getaddrinfo_request(t)
        ELSE IF err # "none" THEN got_error(t, r, o, err)
        ELSE got_addresses(t, f, o, copied)

evdns_getaddrinfo_cancel(s) ==
    IF s.d.request_done THEN s
    ELSE [s EXCEPT !.d.timer = FALSE, !.d.user_canceled = TRUE,
                   !.d.r = [f \in Families |-> cancelled(@[f])]]

(* started: the lookups evdns_base_resolve_ipv4 and ipv6 could start;      *)
(* at_once: the answer is a numeric address, an entry of the hosts file,   *)
(* or an error of the arguments.                                           *)
evdns_getaddrinfo(s, at_once, started) ==
    IF at_once \/ started = {} THEN user_cb(s, IF at_once THEN "none" ELSE "FAIL", {})
    ELSE [s EXCEPT !.d = [NoData EXCEPT !.alive = TRUE, !.user_cb = TRUE,
                          !.r = [f \in Families |-> IF f \in started THEN "sent" ELSE "none"]]]

-----------------------------------------------------------------------------

GaiState == [d |-> data, told |-> told, wrong |-> gaiwrong]

BecomesGai(s) == data' = s.d /\ told' = s.told /\ gaiwrong' = s.wrong

GaiInit == data = NoData /\ told = <<>> /\ found = {} /\ base = TRUE /\ gaiwrong = FALSE

Lookup ==
    \E at_once \in BOOLEAN, started \in SUBSET Families :
        /\ ~data.alive /\ told = <<>> /\ base
        /\ BecomesGai(evdns_getaddrinfo(GaiState, at_once, started))
        /\ UNCHANGED <<found, base>>

(* external: evdns has the result of a lookup *)
Resolved ==
    \E f \in Families, r \in {"address", "empty", "failed"} :
        /\ base /\ data.r[f] = "sent"
        /\ data' = [data EXCEPT !.r[f] = r]
        /\ UNCHANGED <<told, found, base, gaiwrong>>

(* external: evdns_base_free with fail_requests *)
BaseFreed ==
    /\ base
    /\ "freed" \in Risks \/ (~data.timer /\ \A f \in Families : data.r[f] \notin Results)
    /\ base' = FALSE
    /\ data' = [data EXCEPT !.r = [f \in Families |-> IF @[f] = "sent" THEN "SHUTDOWN" ELSE @[f]]]
    /\ UNCHANGED <<told, found, gaiwrong>>

GotResolve ==
    \E f \in Families, copied \in BOOLEAN :
        /\ data.alive /\ data.r[f] \in Results
        /\ copied \/ "nomem" \in Risks
        /\ BecomesGai([evdns_getaddrinfo_gotresolve(GaiState, f, copied) EXCEPT
                          !.wrong = @ \/ (~base /\ data.r[f] # "SHUTDOWN")])
        /\ found' = IF data.r[f] = "address" /\ told = <<>> THEN found \union {f} ELSE found
        /\ UNCHANGED base

TimeoutFires ==
    /\ data.timer
    /\ BecomesGai([evdns_getaddrinfo_timeout_cb(GaiState) EXCEPT !.wrong = @ \/ ~base])
    /\ UNCHANGED <<found, base>>

CancelLookup ==
    /\ data.alive /\ told = <<>> /\ base /\ ~data.user_canceled
    /\ BecomesGai(evdns_getaddrinfo_cancel(GaiState))
    /\ UNCHANGED <<found, base>>

GaiNext == Lookup \/ Resolved \/ BaseFreed \/ GotResolve \/ TimeoutFires \/ CancelLookup

-----------------------------------------------------------------------------
(* The program is told of a lookup once, whichever of the two answers, the *)
(* timer and its own cancellation come first and in whatever order; until  *)
(* then, and until the request is freed, a callback of one of its lookups  *)
(* is still to come; and when it is told of addresses, of every address    *)
(* that was found.                                                         *)
ToldOnce ==
    /\ ~gaiwrong /\ Len(told) <= 1
    /\ data.alive => \E f \in Families : data.r[f] # "none"
    /\ data.alive /\ data.user_cb => told = <<>>
    /\ told # <<>> /\ found # {} => (told[1].error = "CANCEL" \/ told[1].got = found)
=============================================================================
