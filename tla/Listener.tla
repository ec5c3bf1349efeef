------------------------------ MODULE Listener ------------------------------
(***************************************************************************)
(* A connection listener (listener.c) that another thread uses while the   *)
(* loop runs listener_read_cb.  The lock is that of LEV_OPT_THREADSAFE; it *)
(* is recursive.  event_add and event_del are those of event.c: event_del  *)
(* from another thread waits until the callback of the event has returned. *)
(***************************************************************************)
EXTENDS Naturals

CONSTANTS
    Listeners,      \* [close : LEV_OPT_CLOSE_ON_FREE, disabled :
                    \* LEV_OPT_DISABLED, nocb : no callback at first, other :
                    \* the calls another thread makes]
    MAX_BACKLOG,    \* connections the kernel keeps
    MAX_CALLS       \* calls the program makes in all

LevCalls == {"free", "enable", "disable", "set_cb", "set_cb_NULL", "set_error_cb"}

ASSUME ListenersAssumption ==
    /\ Listeners \subseteq
          [close : BOOLEAN, disabled : BOOLEAN, nocb : BOOLEAN, other : SUBSET LevCalls]
    /\ MAX_BACKLOG \in Nat /\ MAX_CALLS \in Nat

VARIABLES
    lev,        \* [cb, errorcb, enabled, refcnt] of struct evconnlistener, and
                \* freed ("no", "released" by the program, "gone"), open (its
                \* socket), added (its event is pending)
    lock,       \* "none" or "other": the loop lets go of it where its steps end
    read_cb,    \* where the loop's thread is in listener_read_cb
    other,      \* what the other thread does: "no", or the call it makes
    backlog,    \* connections that wait to be accepted
    calls,      \* calls that were made
    misuse,     \* "no", or what went wrong
    kind        \* the listener's flags

levvars == <<lev, lock, read_cb, other, backlog, calls, misuse, kind>>

-----------------------------------------------------------------------------
(* Operations on struct evconnlistener; all of them end without the lock. *)
event_listener_destroy(l) == [l EXCEPT !.added = FALSE, !.open = @ /\ ~kind.close]

listener_decref_and_unlock(l) ==
    IF l.refcnt = 1 THEN [event_listener_destroy(l) EXCEPT !.refcnt = 0, !.freed = "gone"]
    ELSE [l EXCEPT !.refcnt = @ - 1]

evconnlistener_free(l) ==
    listener_decref_and_unlock([l EXCEPT !.cb = FALSE, !.errorcb = FALSE, !.freed = "released"])

evconnlistener_enable(l) == [l EXCEPT !.enabled = TRUE, !.added = @ \/ l.cb]

evconnlistener_disable(l) == [l EXCEPT !.enabled = FALSE, !.added = FALSE]

evconnlistener_set_cb(l, cb) ==
    IF l.enabled /\ ~l.cb THEN evconnlistener_enable([l EXCEPT !.cb = cb]) ELSE [l EXCEPT !.cb = cb]

evconnlistener_set_error_cb(l) == [l EXCEPT !.errorcb = ~@]

Does(call, l) ==
    CASE call = "free" -> evconnlistener_free(l)
      [] call = "enable" -> evconnlistener_enable(l)
      [] call = "disable" -> evconnlistener_disable(l)
      [] call = "set_cb" -> evconnlistener_set_cb(l, TRUE)
      [] call = "set_cb_NULL" -> evconnlistener_set_cb(l, FALSE)
      [] call = "set_error_cb" -> evconnlistener_set_error_cb(l)

(* event_del is part of disabling and of the last release. *)
Deletes(call) == call = "disable" \/ (call = "free" /\ lev.refcnt = 1)

-----------------------------------------------------------------------------
LevInit ==
    /\ kind \in Listeners
    /\ lev = [cb |-> ~kind.nocb, errorcb |-> FALSE, enabled |-> ~kind.disabled, refcnt |-> 1,
              freed |-> "no", open |-> TRUE, added |-> ~kind.disabled /\ ~kind.nocb]
    /\ lock = "none" /\ read_cb = "idle" /\ other = "no"
    /\ backlog = 0 /\ calls = 0 /\ misuse = "no"

Connect ==
    /\ lev.open /\ backlog < MAX_BACKLOG
    /\ backlog' = backlog + 1
    /\ UNCHANGED <<lev, lock, read_cb, other, calls, misuse, kind>>

(* The loop finds the socket readable, and the callback asks for the lock. *)
Readable ==
    /\ read_cb = "idle" /\ lev.added /\ backlog > 0
    /\ read_cb' = "wants_lock"
    /\ UNCHANGED <<lev, lock, other, backlog, calls, misuse, kind>>

(* A critical section of listener_read_cb ends with the listener l, at a   *)
(* place of its code and with so many connections left.                    *)
To(l, at, left) == [l |-> l, at |-> at, left |-> left]

accepts(l, left, err) ==
    IF err
    THEN IF l.errorcb THEN To([l EXCEPT !.refcnt = @ + 1], "in_errorcb", left) ELSE To(l, "idle", left)
    ELSE IF left = 0 THEN To(l, "idle", 0)
    ELSE IF l.cb THEN To([l EXCEPT !.refcnt = @ + 1], "in_cb", left - 1)
    ELSE To(l, "idle", left - 1)

(* Mutant: the callback is trusted to leave the listener alone. *)
cb_returned_trusting(l, left, err) ==
    LET kept == [l EXCEPT !.refcnt = @ - 1]
    IN  IF ~l.enabled THEN To(kept, "idle", left) ELSE accepts(kept, left, err)

cb_returned(l, left, err) ==
    LET kept == [l EXCEPT !.refcnt = @ - 1]
    IN  IF l.refcnt = 1 THEN To(listener_decref_and_unlock(l), "idle", left)
        ELSE IF ~l.enabled THEN To(kept, "idle", left)
        ELSE accepts(kept, left, err)

(* err: accept fails with an error that is not retriable, as EMFILE. *)
listener_read_cb ==
    /\ lock = "none"
    /\ \E err \in BOOLEAN :
          LET to(r) == lev' = r.l /\ read_cb' = r.at /\ backlog' = r.left
          IN  \/ read_cb = "wants_lock" /\ to(accepts(lev, backlog, err))
              \/ read_cb = "cb_returned" /\ to(cb_returned(lev, backlog, err))
              \/ /\ read_cb = "errorcb_returned" /\ ~err
                 /\ to(To(listener_decref_and_unlock(lev), "idle", backlog))
    /\ misuse' = IF lev.freed = "gone" THEN "use_after_free" ELSE misuse
    /\ UNCHANGED <<lock, other, calls, kind>>

(* The program's callback returns. *)
CallbackReturns ==
    /\ read_cb \in {"in_cb", "in_errorcb"}
    /\ read_cb' = (IF read_cb = "in_cb" THEN "cb_returned" ELSE "errorcb_returned")
    /\ UNCHANGED <<lev, lock, other, backlog, calls, misuse, kind>>

(* The loop's thread makes calls in the callbacks, and between them. *)
CallFromLoop ==
    /\ read_cb \in {"idle", "in_cb", "in_errorcb"} /\ lev.freed = "no" /\ lock = "none"
    /\ calls < MAX_CALLS
    /\ \E call \in LevCalls :
          /\ call = "free" => other = "no"
          /\ lev' = Does(call, lev)
    /\ calls' = calls + 1
    /\ UNCHANGED <<lock, read_cb, other, backlog, misuse, kind>>

(* The other thread takes the lock ... *)
OtherLocks ==
    /\ other = "no" /\ lock = "none" /\ lev.freed = "no" /\ calls < MAX_CALLS
    /\ \E call \in kind.other : other' = call
    /\ lock' = "other" /\ calls' = calls + 1
    /\ UNCHANGED <<lev, read_cb, backlog, misuse, kind>>

(* ... and does what it came for, once event_del, if it is called, finds   *)
(* the callback not running.                                               *)
OtherCalls ==
    /\ other # "no"
    /\ Deletes(other) => read_cb = "idle"
    /\ lev' = Does(other, lev) /\ other' = "no" /\ lock' = "none"
    /\ UNCHANGED <<read_cb, backlog, calls, misuse, kind>>

LevNext ==
    \/ Connect \/ Readable \/ listener_read_cb \/ CallbackReturns
    \/ CallFromLoop \/ OtherLocks \/ OtherCalls

LevSpec == LevInit /\ [][LevNext]_levvars

-----------------------------------------------------------------------------
(* The listener lives as long as the program keeps it or one of its        *)
(* callbacks runs, and no longer, whatever the callbacks and the other     *)
(* thread do to it: listener_read_cb never touches it after that, no event *)
(* and no socket of it is left behind, and while it is enabled with a      *)
(* callback its event is pending, so that connections are accepted.        *)
ListenerSound ==
    /\ misuse = "no"
    /\ lev.freed # "gone" =>
          /\ lev.refcnt > 0
          /\ lev.refcnt = (IF lev.freed = "no" THEN 1 ELSE 0)
                        + (IF read_cb \in {"in_cb", "cb_returned", "in_errorcb", "errorcb_returned"}
                           THEN 1 ELSE 0)
    /\ lev.freed = "gone" => ~lev.added /\ lev.open = ~kind.close
    /\ lev.freed = "no" /\ lev.enabled /\ lev.cb => lev.added

(* The lock makes the listener safe to use from several threads: no call   *)
(* holds it while it waits, in event_del, for listener_read_cb, which      *)
(* waits for the lock.                                                     *)
NeverEachOther ==
    ~(lock = "other" /\ Deletes(other)
        /\ read_cb \in {"wants_lock", "cb_returned", "errorcb_returned"})
=============================================================================
