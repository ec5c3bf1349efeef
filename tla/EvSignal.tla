------------------------------ MODULE EvSignal ------------------------------
(***************************************************************************)
(* Signals: signal.c, and the signal part of evmap.c.  The handlers of the *)
(* process are shared by all event bases; evsig_handler writes the number  *)
(* of the signal to the pipe of the one base that evsig_base names, whose  *)
(* loop reads it back and activates the events.                            *)
(*                                                                         *)
(* evsig_base_n_signals_added decides on a warning only and is left out.   *)
(***************************************************************************)
EXTENDS Integers, FiniteSets, Sequences, Functions

CONSTANTS
    Signals,
    Uncatchable,    \* of them, those sigaction refuses
    Lives,          \* programs: [bases, both (they have signals at a time),
                    \* reinits, nomem (the pipe cannot be polled)]
    MAX_PENDING,    \* events on a signal of a base
    PIPE            \* what a pipe holds

ASSUME SignalsAssumption ==
    /\ IsFiniteSet(Signals) /\ Uncatchable \subseteq Signals
    /\ \A l \in Lives : "none" \notin l.bases /\ l.reinits \in Nat

VARIABLES
    life,
    handler,        \* what the process does on a signal: "own" or "evsig"
    evsig_base,     \* a base, or "none"
    evsig_base_fd,  \* the base whose pipe it is, or "none"
    sig,            \* base->sig and base->sigmap, per base
    owed,           \* signals <<base, s>> that came while base waited for s
    reinits         \* event_reinit calls so far

sigvars == <<life, handler, evsig_base, evsig_base_fd, sig, owed, reinits>>

NewBase == [alive |-> TRUE, events |-> [s \in Signals |-> 0], ev_n_signals_added |-> 0,
            ev_signal_added |-> FALSE, sh_old |-> [s \in Signals |-> "null"],
            pipe |-> <<>>, ncaught |-> {}]

Process == [handler |-> handler, base |-> evsig_base, fd |-> evsig_base_fd, sig |-> sig]

BecomesProcess(p) ==
    handler' = p.handler /\ evsig_base' = p.base /\ evsig_base_fd' = p.fd /\ sig' = p.sig

-----------------------------------------------------------------------------
evsig_set_base_(p, b) == [p EXCEPT !.base = b, !.fd = b]

(* Here and below S is the set of the signals that are added or taken off, *)
(* one after the other: one of them, or all of a base.                     *)
evsig_set_handler_(p, b, S) ==
    [p EXCEPT !.sig[b].sh_old = [s \in Signals |-> IF s \in S THEN p.handler[s] ELSE @[s]],
              !.handler = [s \in Signals |-> IF s \in S THEN "evsig" ELSE @[s]]]

(* If the pipe cannot be added to the loop, the handler stays. *)
evsig_add(p, b, S, nomem) ==
    LET t == evsig_set_handler_(evsig_set_base_(p, b), b, S \ Uncatchable)
        added == IF nomem /\ ~p.sig[b].ev_signal_added THEN {} ELSE S \ Uncatchable
    IN  [ret |-> IF added = S THEN 0 ELSE -1,
         p |-> IF S = {} THEN p
               ELSE [t EXCEPT !.sig[b].ev_n_signals_added = @ + Cardinality(added),
                              !.sig[b].ev_signal_added = @ \/ added # {}]]

(* Mutant: the handler is taken back to what it is. *)
restore_nothing(p, b, S) ==
    [p EXCEPT !.sig[b].sh_old = [s \in Signals |-> IF s \in S THEN "null" ELSE @[s]]]

evsig_restore_handler_(p, b, S) ==
    [p EXCEPT !.handler = [s \in Signals |-> IF s \in S THEN p.sig[b].sh_old[s] ELSE @[s]],
              !.sig[b].sh_old = [s \in Signals |-> IF s \in S THEN "null" ELSE @[s]]]

evsig_del(p, b, S) ==
    evsig_restore_handler_([p EXCEPT !.sig[b].ev_n_signals_added = @ - Cardinality(S)], b, S)

evmap_signal_add_(p, b, s, nomem) ==
    LET first == evsig_add(p, b, {s}, nomem)
        in(q) == [q EXCEPT !.sig[b].events[s] = @ + 1]
    IN  IF p.sig[b].events[s] > 0 THEN in(p)
        ELSE IF first.ret = -1 THEN first.p ELSE in(first.p)

evmap_signal_del_(p, b, s) ==
    LET t == [p EXCEPT !.sig[b].events[s] = @ - 1]
    IN  IF t.sig[b].events[s] = 0 THEN evsig_del(t, b, {s}) ELSE t

evsig_dealloc_(p, b) ==
    LET saved == {s \in Signals : p.sig[b].sh_old[s] # "null"}
        t == evsig_restore_handler_(p, b, saved)
        u == [t EXCEPT !.sig[b].ev_signal_added = FALSE, !.sig[b].pipe = <<>>]
    IN  IF u.base = b THEN [u EXCEPT !.base = "none", !.fd = "none"] ELSE u

Awaited(p, b) == {s \in Signals : p.sig[b].events[s] > 0}

-----------------------------------------------------------------------------
SigInit ==
    /\ life \in Lives
    /\ handler = [s \in Signals |-> "own"] /\ evsig_base = "none" /\ evsig_base_fd = "none"
    /\ sig = [b \in life.bases |-> NewBase]
    /\ owed = {} /\ reinits = 0

(* event_add of an event on a signal *)
AddSignal ==
    \E b \in life.bases, s \in Signals, nomem \in BOOLEAN :
        /\ sig[b].alive /\ sig[b].events[s] < MAX_PENDING
        /\ nomem => life.nomem
        /\ life.both \/ \A c \in life.bases \ {b} : Awaited(Process, c) = {}
        /\ BecomesProcess(evmap_signal_add_(Process, b, s, nomem))
        /\ UNCHANGED <<life, owed, reinits>>

DelSignal ==
    \E b \in life.bases : \E s \in Awaited(Process, b) :
        /\ BecomesProcess(evmap_signal_del_(Process, b, s))
        /\ owed' = IF sig[b].events[s] = 1 THEN owed \ {<<b, s>>} ELSE owed
        /\ UNCHANGED <<life, reinits>>

(* The kernel delivers a signal, and evsig_handler writes it to the pipe,  *)
(* if there is one with room in it.                                        *)
evsig_handler ==
    \E s \in Signals \ Uncatchable :
        LET awaits == {b \in life.bases : s \in Awaited(Process, b)}
            full == evsig_base_fd # "none" /\ Len(sig[evsig_base_fd].pipe) = PIPE
            written == handler[s] = "evsig" /\ evsig_base # "none" /\ ~full
        IN  /\ sig' = IF written THEN [sig EXCEPT ![evsig_base_fd].pipe = Append(@, s)] ELSE sig
            /\ owed' = IF full THEN owed ELSE owed \union {<<b, s>> : b \in awaits}
            /\ UNCHANGED <<life, handler, evsig_base, evsig_base_fd, reinits>>

(* Mutant: the pipe is read to its end, but the last read alone counts. *)
caught_last(q) == {q[Len(q)]}

Caught(q) == Range(q)

(* The loop finds the pipe readable and empties it ... *)
evsig_cb ==
    \E b \in life.bases :
        /\ sig[b].ev_signal_added /\ sig[b].pipe # <<>> /\ sig[b].ncaught = {}
        /\ sig' = [sig EXCEPT ![b].pipe = <<>>, ![b].ncaught = Caught(sig[b].pipe)]
        /\ UNCHANGED <<life, handler, evsig_base, evsig_base_fd, owed, reinits>>

(* ... and, once it has the lock, activates the events. *)
evmap_signal_active_ ==
    \E b \in life.bases :
        /\ sig[b].ncaught # {}
        /\ sig' = [sig EXCEPT ![b].ncaught = {}]
        /\ owed' = owed \ ({b} \X sig[b].ncaught)
        /\ UNCHANGED <<life, handler, evsig_base, evsig_base_fd, reinits>>

(* event_base_loop: the base with signals that last began to loop. *)
LoopBegins ==
    \E b \in life.bases :
        /\ sig[b].alive /\ sig[b].ev_signal_added /\ sig[b].ev_n_signals_added > 0
        /\ BecomesProcess(evsig_set_base_(Process, b))
        /\ UNCHANGED <<life, owed, reinits>>

(* event_base_free: evmap_delete_all_, then the backend's dealloc *)
FreeBase ==
    \E b \in life.bases :
        LET t == evsig_del([Process EXCEPT !.sig[b].events = [s \in Signals |-> 0]], b,
                           Awaited(Process, b))
        IN  /\ sig[b].alive /\ sig[b].ncaught = {}
            /\ BecomesProcess([evsig_dealloc_(t, b) EXCEPT !.sig[b].alive = FALSE])
            /\ owed' = {x \in owed : x[1] # b}
            /\ UNCHANGED <<life, reinits>>

(* event_reinit in the child of a fork: evsig_dealloc_, evsig_init_ and    *)
(* every signal again                                                      *)
ReinitBase ==
    \E b \in life.bases :
        LET t == evsig_dealloc_(Process, b)
        IN  /\ reinits < life.reinits /\ sig[b].alive /\ sig[b].ncaught = {}
            /\ BecomesProcess(evsig_add(t, b, Awaited(Process, b), FALSE).p)
            /\ owed' = {x \in owed : x[1] # b}
            /\ reinits' = reinits + 1
            /\ UNCHANGED life

SigNext ==
    \/ AddSignal \/ DelSignal \/ evsig_handler \/ evsig_cb \/ evmap_signal_active_
    \/ LoopBegins \/ FreeBase \/ ReinitBase

SigSpec == SigInit /\ [][SigNext]_sigvars

-----------------------------------------------------------------------------
(* A signal goes to libevent while an event waits for it, and to whatever  *)
(* the program had installed before as soon as none does: after any order  *)
(* of adds, deletes, event_reinit and event_base_free, the handler saved   *)
(* in sh_old is put back exactly once.                                     *)
HandlersRestored ==
    \A s \in Signals :
        LET users == {b \in life.bases : sig[b].events[s] > 0}
        IN  /\ handler[s] = (IF users = {} THEN "own" ELSE "evsig")
            /\ \A b \in life.bases : sig[b].sh_old[s] = (IF b \in users THEN "own" ELSE "null")

(* A signal that comes while a base waits for it is on its way to that     *)
(* base: in the pipe that its loop polls, or read from it.                 *)
SignalsArrive ==
    \A x \in owed : LET s == sig[x[1]]
                    IN  s.ev_signal_added /\ x[2] \in Range(s.pipe) \union s.ncaught
=============================================================================
