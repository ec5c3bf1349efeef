------------------------------ MODULE Resolver ------------------------------
(***************************************************************************)
(* What an asynchronous name lookup promises its caller, whatever happens  *)
(* between the library and the nameservers: the outcome of a lookup is     *)
(* decided at most once, a decision is never revised, not even by a        *)
(* cancellation that comes too late, and the callback reports exactly the  *)
(* decision, once.  A lookup may go away without a callback only when the  *)
(* whole resolver is freed without fail_requests.                          *)
(*                                                                         *)
(* EvDns is shown to implement this specification, and GetAddrInfo is      *)
(* built on top of it.                                                     *)
(***************************************************************************)
EXTENDS Naturals

CONSTANTS
    Lookups,        \* the lookups of the program
    Outcomes,       \* what a callback may report
    Undecided       \* no outcome

VARIABLES
    status,     \* how far each lookup has come
    outcome     \* what was decided for it

rvars == <<status, outcome>>

ResolverInit ==
    /\ status = [h \in Lookups |-> "idle"]
    /\ outcome = [h \in Lookups |-> Undecided]

(* The caller starts a lookup.                                             *)
Start(h) ==
    /\ status[h] = "idle"
    /\ status' = [status EXCEPT ![h] = "active"]
    /\ UNCHANGED outcome

(* An answer, an error, a timeout or a cancellation decides the lookups S. *)
Decide(S) ==
    /\ \A h \in S : status[h] = "active"
    /\ status' = [h \in Lookups |-> IF h \in S THEN "decided" ELSE status[h]]
    /\ outcome' \in [Lookups -> Outcomes \cup {Undecided}]
    /\ \A h \in Lookups : IF h \in S THEN outcome'[h] # Undecided
                           ELSE outcome'[h] = outcome[h]

(* The callback of a decided lookup runs and is told the outcome.          *)
Report(h) ==
    /\ status[h] = "decided"
    /\ status' = [status EXCEPT ![h] = "reported"]
    /\ outcome' = [outcome EXCEPT ![h] = Undecided]

(* The resolver is freed and forgets the lookups S.                        *)
Forget(S) ==
    /\ \A h \in S : status[h] = "active"
    /\ status' = [h \in Lookups |-> IF h \in S THEN "forgotten" ELSE status[h]]
    /\ UNCHANGED outcome

ResolverNext ==
    \/ \E h \in Lookups : Start(h) \/ Report(h)
    \/ \E S \in SUBSET Lookups :
           Forget(S) \/ Decide(S)

ResolverSpec == ResolverInit /\ [][ResolverNext]_rvars
=============================================================================
