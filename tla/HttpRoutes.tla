----------------------------- MODULE HttpRoutes -----------------------------
(* Which callback of an evhttp server gets a request: the hierarchy of      *)
(* virtual hosts and aliases that a program builds, the search for the      *)
(* server of a Host, and the one for the callback of a path (http.c).       *)
EXTENDS HttpUri, FiniteSets
CONSTANTS
    root,       \* the server that is bound to a socket
    Vhosts,     \* the others
    Paths,      \* the paths of callbacks
    Patterns,   \* the patterns of virtual hosts; "*" at the end of one matches nothing
    Hosts,      \* the names that are aliases, and that requests ask for
    MaxCalls    \* bound on the calls that build the hierarchy
VARIABLES http, calls

Servers == {root} \union Vhosts
evhttp_new_object == [frees |-> 0, vhost_pattern |-> NULL, sockets |-> FALSE, callbacks |-> <<>>,
                      gencb |-> FALSE, virtualhosts |-> <<>>, aliases |-> <<>>]
Lower(c) == IF c = "v" THEN "V" ELSE c      \* the alphabet's other letters are capitals
strcasecmp(p, q) == [i \in DOMAIN p |-> Lower(p[i])] = [i \in DOMAIN q |-> Lower(q[i])]
Without(q, P(_)) == LET i == CHOOSE i \in DOMAIN q : P(q[i]) /\ \A j \in 1..(i - 1) : ~P(q[j])
                    IN  RemoveAt(q, i)
Has(q, P(_)) == \E i \in DOMAIN q : P(q[i])
-----------------------------------------------------------------------------
(* Building: each operator is the new value of http. *)
evhttp_set_cb(h, s, what) ==
    IF Has(h[s].callbacks, LAMBDA w : w = what) THEN h
    ELSE [h EXCEPT ![s].callbacks = Append(@, what)]
evhttp_del_cb(h, s, what) ==
    IF ~Has(h[s].callbacks, LAMBDA w : w = what) THEN h
    ELSE [h EXCEPT ![s].callbacks = Without(@, LAMBDA w : w = what)]
evhttp_set_gencb(h, s) == [h EXCEPT ![s].gencb = TRUE]
evhttp_add_virtual_host(h, s, pattern, vhost) ==
    IF h[vhost].vhost_pattern # NULL \/ h[vhost].sockets THEN h
    ELSE LET t == [h EXCEPT ![vhost].vhost_pattern = pattern]
         IN  [t EXCEPT ![s].virtualhosts = Append(@, vhost)]
evhttp_remove_virtual_host(h, s, vhost) ==
    IF h[vhost].vhost_pattern = NULL THEN h
    ELSE LET t == [h EXCEPT ![s].virtualhosts = Without(@, LAMBDA v : v = vhost)]
         IN  [t EXCEPT ![vhost].vhost_pattern = NULL]
evhttp_add_server_alias(h, s, alias) == [h EXCEPT ![s].aliases = Append(@, alias)]
evhttp_remove_server_alias(h, s, alias) ==
    IF ~Has(h[s].aliases, LAMBDA a : strcasecmp(a, alias)) THEN h
    ELSE [h EXCEPT ![s].aliases = Without(@, LAMBDA a : strcasecmp(a, alias))]
(* The server and what is below it, each counted: the memory keeps its last contents. *)
RECURSIVE evhttp_free(_, _)
evhttp_free(h, s) ==
    [FoldLeft(evhttp_free, h, h[s].virtualhosts) EXCEPT ![s].frees = @ + 1]
-----------------------------------------------------------------------------
(* Searching. *)
RECURSIVE prefix_suffix_match(_, _)
prefix_suffix_match(pattern, name) ==
    CASE pattern = <<>> -> name = <<>>
      [] pattern # <<>> /\ pattern[1] = "*" ->
            \E i \in 1..Len(name) : prefix_suffix_match(Tail(pattern), From(name, i - 1))
      [] OTHER -> /\ name # <<>> /\ Lower(pattern[1]) = Lower(name[1])
                  /\ prefix_suffix_match(Tail(pattern), Tail(name))

Nobody == "nobody"
RECURSIVE evhttp_find_alias(_, _, _)
evhttp_find_alias(h, s, hostname) ==
    IF Has(h[s].aliases, LAMBDA a : strcasecmp(a, hostname)) THEN s
    ELSE FoldLeft(LAMBDA found, v : IF found # Nobody THEN found ELSE evhttp_find_alias(h, v, hostname),
                  Nobody, h[s].virtualhosts)

RECURSIVE match_vhost(_, _, _)
match_vhost(h, s, hostname) ==
    LET hits == SelectSeq(h[s].virtualhosts,
                          LAMBDA v : prefix_suffix_match(h[v].vhost_pattern, hostname))
    IN  IF hits = <<>> THEN s ELSE match_vhost(h, hits[1], hostname)
(* Mutant: only the first level. *)
find_vhost_shallow(h, s, hostname) ==
    LET hits == SelectSeq(h[s].virtualhosts,
                          LAMBDA v : prefix_suffix_match(h[v].vhost_pattern, hostname))
    IN  IF hits = <<>> THEN s ELSE hits[1]
evhttp_find_vhost(h, s, hostname) ==
    LET alias == evhttp_find_alias(h, s, hostname)
    IN  IF alias # Nobody THEN alias ELSE match_vhost(h, s, hostname)

(* the callback of a path, or the generic one, or none (a 404) *)
evhttp_dispatch_callback(h, s, path) ==
    LET translated == evhttp_decode_uri_internal(path, 0)
    IN  CASE Has(h[s].callbacks, LAMBDA w : w = translated) -> <<s, translated>>
          [] ~Has(h[s].callbacks, LAMBDA w : w = translated) /\ h[s].gencb -> <<s, <<"gencb">>>>
          [] OTHER -> <<s, <<"404">>>>

(* of the URI, or of the Host header without its port *)
evhttp_request_get_host(uri_host, header) ==
    LET n == CHOOSE n \in 0..Len(header) :      \* where the digits at its end begin
                 /\ \A i \in (n + 1)..Len(header) : header[i] \in DIGIT
                 /\ n = 0 \/ header[n] \notin DIGIT
    IN  CASE uri_host # NULL -> uri_host
          [] uri_host = NULL /\ header # NULL /\ n > 1 /\ header[n] = ":" -> SubSeq(header, 1, n - 1)
          [] OTHER -> header
-----------------------------------------------------------------------------
RoutesInit == calls = 0 /\ http = [s \in Servers |-> [evhttp_new_object EXCEPT !.sockets = s = root]]
RoutesIdle == calls = MaxCalls /\ http = <<>>

Builds(h) == http[root].frees = 0 /\ calls < MaxCalls /\ http' = h /\ calls' = calls + 1
SetCb == \E s \in Servers, w \in Paths : Builds(evhttp_set_cb(http, s, w))
DelCb == \E s \in Servers, w \in Paths : Builds(evhttp_del_cb(http, s, w))
SetGencb == \E s \in Servers : Builds(evhttp_set_gencb(http, s))
AddVirtualHost ==
    \E s, v \in Servers, p \in Patterns : Builds(evhttp_add_virtual_host(http, s, p, v))
RemoveVirtualHost ==
    \E s \in Servers, v \in Vhosts :
        /\ Has(http[s].virtualhosts, LAMBDA x : x = v)
        /\ Builds(evhttp_remove_virtual_host(http, s, v))
AddAlias == \E s \in Servers, a \in Hosts : Builds(evhttp_add_server_alias(http, s, a))
RemoveAlias == \E s \in Servers, a \in Hosts : Builds(evhttp_remove_server_alias(http, s, a))
FreeServer == Builds(evhttp_free(http, root))
RoutesNext == SetCb \/ DelCb \/ SetGencb \/ AddVirtualHost \/ RemoveVirtualHost
              \/ AddAlias \/ RemoveAlias \/ FreeServer
-----------------------------------------------------------------------------
(* the servers below s, in the order of a walk that follows the lists, once *)
(* more than there are servers                                              *)
RECURSIVE walk(_, _, _)
walk(h, s, n) ==
    IF n = 0 THEN <<s>>
    ELSE <<s>> \o FoldLeft(LAMBDA q, v : q \o walk(h, v, n - 1), <<>>, h[s].virtualhosts)
(* what a shell takes for a match *)
RECURSIVE Glob(_, _)
Glob(pattern, name) ==
    IF pattern = <<>> THEN name = <<>>
    ELSE \/ pattern[1] = "*" /\ \E i \in 0..Len(name) : Glob(Tail(pattern), From(name, i))
         \/ /\ name # <<>> /\ Lower(pattern[1]) = Lower(name[1])
            /\ Glob(Tail(pattern), Tail(name))

(* However virtual hosts are added and removed, the servers below the bound *)
(* one are a tree, so that every search ends and evhttp_free frees each of  *)
(* them once and no other.  A request goes to a server with its Host for an *)
(* alias if there is one, or else down the patterns that match as long as   *)
(* one does, whether the name came in the URI, or in the Host header with a *)
(* port or without.  And a callback that evhttp_set_cb accepted gets the    *)
(* requests for its path, escaped as evhttp_uriencode does, until           *)
(* evhttp_del_cb.                                                           *)
RoutesAgree ==
    http # <<>> =>
    LET below == walk(http, root, Cardinality(Servers))
        inside == {below[i] : i \in DOMAIN below}
        named(s, host) == \E i \in DOMAIN http[s].aliases : strcasecmp(http[s].aliases[i], host)
        matching(s, host) == {i \in DOMAIN http[s].virtualhosts :
                                 Glob(http[http[s].virtualhosts[i]].vhost_pattern, host)}
        leads(s, v, host) == \E i \in matching(s, host) :
            http[s].virtualhosts[i] = v /\ \A j \in matching(s, host) : i <= j
    IN  /\ Len(below) = Cardinality(inside)
        /\ \A s \in Servers : http[s].frees = IF s \in inside THEN http[root].frees ELSE 0
        /\ \A host \in Hosts :
              LET found == evhttp_find_vhost(http, root, host)
              IN  /\ found \in inside
                  /\ IF \E s \in inside : named(s, host) THEN named(found, host)
                     ELSE /\ matching(found, host) = {}
                          /\ found = root \/ \E s \in inside : leads(s, found, host)
                  /\ \A port \in {<<>>, <<":">>, <<":", "8", "0">>} :
                        evhttp_request_get_host(NULL, host \o port) =
                        evhttp_request_get_host(parse_authority(host \o port).host, NULL)
        /\ \A s \in Servers : \A i \in DOMAIN http[s].callbacks :
              LET what == http[s].callbacks[i]
              IN  evhttp_dispatch_callback(http, s, evhttp_uriencode(what, FALSE)) = <<s, what>>
=============================================================================
