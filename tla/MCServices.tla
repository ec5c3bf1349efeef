----------------------------- MODULE MCServices -----------------------------
(* Instances of the services above bufferevents and the base for TLC.  They *)
(* share no state, so that a behaviour is one of a single part: the others  *)
(* stay as they are at its beginning.                                       *)
EXTENDS EvRpc, GetAddrInfo, DnsServer, HttpRoutes, EvTag, DnsWire
CONSTANTS r1, r2, r3, c1, c2, q1, q2, q3, v1, v2
VARIABLE part

urivars == <<uri, sets, text>>
routevars == <<http, calls>>
MCInit ==
    /\ RpcInit /\ GaiInit /\ PortInit /\ TagInit
    /\ part \in {"rpc client", "rpc server", "getaddrinfo", "dns server", "uri", "query",
                 "routes", "tags", "dns names"}
    /\ timeout => part = "rpc client"
    /\ IF part = "uri" THEN UriInit ELSE IF part = "query" THEN QueryInit ELSE UriIdle
    /\ IF part = "routes" THEN RoutesInit ELSE RoutesIdle
    /\ IF part = "dns names" THEN WireInit ELSE WireIdle
MCNext ==
    \/ part = "rpc client" /\ PoolNext
       /\ UNCHANGED <<part, gaivars, port, urivars, routevars, tagvars, wirevars>>
    \/ part = "rpc server" /\ ServerNext
       /\ UNCHANGED <<part, gaivars, port, urivars, routevars, tagvars, wirevars>>
    \/ part = "getaddrinfo" /\ GaiNext
       /\ UNCHANGED <<part, rpcvars, port, urivars, routevars, tagvars, wirevars>>
    \/ part = "dns server" /\ PortNext
       /\ UNCHANGED <<part, rpcvars, gaivars, urivars, routevars, tagvars, wirevars>>
    \/ part = "uri" /\ UriNext
       /\ UNCHANGED <<part, rpcvars, gaivars, port, routevars, tagvars, wirevars>>
    \/ part = "routes" /\ RoutesNext
       /\ UNCHANGED <<part, rpcvars, gaivars, port, urivars, tagvars, wirevars>>
    \/ part = "tags" /\ TagNext
       /\ UNCHANGED <<part, rpcvars, gaivars, port, urivars, routevars, wirevars>>
    \/ part = "dns names" /\ WireNext
       /\ UNCHANGED <<part, rpcvars, gaivars, port, urivars, routevars, tagvars>>
MCSpec == MCInit /\ [][MCNext]_<<rpcvars, gaivars, port, urivars, routevars, tagvars, wirevars, part>>

(* Strings of up to three pieces, alone and after the start of an authority.  *)
Pieces == {<<"A">>, <<":">>, <<"/">>, <<"/", "/">>, <<"?">>, <<"#">>, <<"@">>, <<"1">>, <<"[">>,
           <<"v", "1", ".">>, <<"]">>, <<"%">>, <<"%", "2", "0">>}
RECURSIVE Upto(_)
Upto(n) == IF n = 0 THEN {<<>>} ELSE LET s == Upto(n - 1) IN s \union {p \o t : p \in Pieces, t \in s}
MCSources == Upto(3) \union {<<"A", ":", "/", "/">> \o s : s \in Upto(3)}
MCParts == Pieces \union {<<"/", "/", "A">>, <<"A", ":", "A">>, <<"/", "A">>, <<"[", ":", ":", "1", "]">>}
MCPorts == {-2, -1, 0, 80, 65536}
MCIPv6 == {<<":", ":", "1">>, <<":", "1">>}
MCTexts == UNION {[1..n -> {"A", " ", "+", "&", "=", "%"}] : n \in 0..2}

MCPaths == {<<"/", "A">>, <<"/", " ">>}
MCPatterns == {<<"*", ".", "v">>, <<"A", ".", "*", "V">>}
MCHosts == {<<"A", ".", "v">>, <<"A", ".", "D", "V">>, <<"D">>}

Nines(n) == [i \in 1..n |-> 9]
item(t, k, v) == [tag |-> t, kind |-> k, value |-> v]
MCItems ==
    {item(0, "data", <<<<>>>>), item(127, "string", <<Nines(17)>>), item(128, "data", <<Nines(1)>>),
     item(16384, "int", <<<<>>>>), item(268435456, "int", <<<<0, 9>>>>),
     item(2147483647, "int", <<Nines(8)>>), item(1, "int64", <<Nines(16)>>),
     item(2, "int64", <<<<0, 0, 9>>>>), item(300, "timeval", <<Nines(8), <<>>>>),
     item(3, "timeval", <<<<9>>, <<0, 9>>>>)}

MCNames == LET x == <<97>> y == <<98, 98>> IN {<<x>>, <<y>>, <<x, y>>, <<y, x>>, <<x, x, y>>, <<y, x, y>>}
MCAsked == LET x(n) == [i \in 1..n |-> 97]
           IN  MCNames \union {<<x(63)>>, <<x(64)>>, <<x(63), x(63), x(63), x(63)>>,
                               <<x(63), x(63), x(63), x(62), x(1)>>}
=============================================================================
