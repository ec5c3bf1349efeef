------------------------------ MODULE MCEvDns ------------------------------
(* Instances of EvDns for TLC.  In the scene "one" the program makes one   *)
(* lookup, which searches, and sockets choke and fail; in the scene "two"  *)
(* it makes another one, so that one of them waits for the other, and the  *)
(* base keeps its nameservers.                                             *)
EXTENDS EvDns

CONSTANTS ns1, ns2, h1, h2, p1

MCInitNS == <<ns1>>

VARIABLE scene

MCInit == Init /\ scene \in {"one", "two"}

MCNext ==
    /\ Next
    /\ UNCHANGED scene
    /\ scene = "one" => hd'[h2] = hd[h2]
    /\ scene = "two" => net' = net /\ (base'.ring = <<>> => base'.freed)

MCSpec == MCInit /\ [][MCNext]_<<vars, scene>>
=============================================================================
