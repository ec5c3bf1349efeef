------------------------------- MODULE MCEvIo -------------------------------
(* Small instances of EvMap, EvSignal, Listener and EvTimers, one of which *)
(* runs.                                                                   *)
(* EvMap: an event on one descriptor, and two edge-triggered ones that     *)
(* share reading on the other.                                             *)
EXTENDS EvMap, EvSignal, Listener, EvTimers

CONSTANTS f1, f2, e1, e2, e3, b1, b2, s1, s2, sKill, t1, t2, t3, t4, t5, t6

VARIABLE part

MCFds == {f1, f2}

MCEvents == {e1, e2, e3}

MCOf == e1 :> [fd |-> f1, what |-> {"WRITE"}, et |-> FALSE]
     @@ e2 :> [fd |-> f2, what |-> {"READ"}, et |-> TRUE]
     @@ e3 :> [fd |-> f2, what |-> {"READ", "CLOSED"}, et |-> TRUE]

MCConditions == {{}, {"READ", "WRITE"}, {"HUP", "CLOSED"}}

(* Two bases that have signals one after the other; a base that is forked. *)
MCLives == {[bases |-> {b1, b2}, both |-> FALSE, reinits |-> 0, nomem |-> FALSE],
            [bases |-> {b1}, both |-> FALSE, reinits |-> 2, nomem |-> FALSE]}

(* The other thread changes the callbacks, or also disables and frees. *)
MCListeners ==
    {[close |-> closes, disabled |-> off, nocb |-> nocb, other |-> {"enable", "set_cb", "set_cb_NULL"}]
        : closes \in BOOLEAN, off \in BOOLEAN, nocb \in BOOLEAN}

MCSharedListeners ==
    {[close |-> TRUE, disabled |-> FALSE, nocb |-> FALSE, other |-> {"disable", "free"}]}

MCTimers == {t1, t2, t3, t4, t5, t6}

Asks(a, b, others) == t1 :> a @@ t2 :> b @@ others

None == [t \in MCTimers |-> {}]

(* A heap three levels deep; and common timeouts: events that are late,    *)
(* that are activated for other reasons, and more durations than allowed.  *)
MCSchedules ==
    {[persist |-> {}, asks |-> t3 :> {1} @@ t6 :> {1, 2} @@ Asks({1}, {2}, [t \in MCTimers |-> {2}]),
      common |-> {}, calls |-> {"del"}, until |-> 0],
     [persist |-> {t1}, asks |-> Asks({2}, {2}, None), common |-> {2}, calls |-> {"del"}, until |-> 4],
     [persist |-> {t1}, asks |-> Asks({1}, {2}, None), common |-> {1},
      calls |-> {"active", "update_cache_time"}, until |-> 2],
     [persist |-> {}, asks |-> Asks({2}, {1, 2}, None), common |-> {1, 2, 3}, calls |-> {"del"},
      until |-> 1]}

Init ==
    /\ part \in {"map", "signal", "listener", "timers"}
    /\ IoInit /\ SigInit /\ LevInit /\ TimersInit
    /\ part = "map" \/ ~listed
    /\ part = "signal" \/ life = CHOOSE l \in Lives : TRUE
    /\ part = "listener" \/ kind = CHOOSE k \in Listeners : TRUE
    /\ part = "timers" \/ plan = CHOOSE p \in Schedules : TRUE

Next ==
    \/ part = "map" /\ IoNext /\ UNCHANGED <<part, sigvars, levvars, timevars>>
    \/ part = "signal" /\ SigNext /\ UNCHANGED <<part, iovars, levvars, timevars>>
    \/ part = "listener" /\ LevNext /\ UNCHANGED <<part, iovars, sigvars, timevars>>
    \/ part = "timers" /\ TimersNext /\ UNCHANGED <<part, iovars, sigvars, levvars>>

Spec == Init /\ [][Next]_<<part, iovars, sigvars, levvars, timevars>>
=============================================================================
