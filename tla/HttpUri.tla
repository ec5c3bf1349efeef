------------------------------ MODULE HttpUri ------------------------------
(* The URIs of http.c: evhttp_uri_parse_with_flags, evhttp_uri_join, the    *)
(* setters between them, the escapes of evhttp_uriencode, and the queries   *)
(* of evhttp_parse_query.  A string is the sequence of its characters, of   *)
(* an alphabet with a member of every class that the code tells apart.      *)
EXTENDS Integers, Sequences, SequencesExt, TLC
CONSTANTS
    Sources,    \* the strings that are parsed
    Parts,      \* the strings the setters are called with
    Ports,      \* the ports evhttp_uri_set_port is called with
    IPv6,       \* the strings of Parts and Sources that evutil_inet_pton accepts
    MaxSets,    \* how many setters are called after the parse
    Texts       \* the strings that are escaped and made the values of a query
VARIABLES uri, sets, text

Hex == <<"0", "1", "2", "3", "4", "5", "6", "7", "8", "9", "A", "B", "C", "D", "E", "F">>
DIGIT == {Hex[i] : i \in 1..10}
HexValue(c) == (CHOOSE i \in 1..16 : Hex[i] = c) - 1
ALPHA == {"A", "B", "C", "D", "E", "F", "V", "v"}
ISXDIGIT == {Hex[i] : i \in 1..16}
CHAR_IS_UNRESERVED == DIGIT \union ALPHA \union {"-", "."}
SUBDELIMS == {"+", "&", "="}
(* the codes of the characters that evhttp_uriencode escapes *)
Code == [c \in {" ", "#", "%", "&", "+", "/", ":", "=", "?", "@", "[", "]"} |->
            CASE c = " " -> 32 [] c = "#" -> 35 [] c = "%" -> 37 [] c = "&" -> 38
              [] c = "+" -> 43 [] c = "/" -> 47 [] c = ":" -> 58 [] c = "=" -> 61
              [] c = "?" -> 63 [] c = "@" -> 64 [] c = "[" -> 91 [] c = "]" -> 93]
NULL == <<"NULL">>
Fail == [ok |-> FALSE]

From(q, n) == SubSeq(q, n + 1, Len(q))
(* the place of the first of chars in q, or one past its end *)
first(q, chars) ==
    LET at == {i \in 1..Len(q) : q[i] \in chars}
    IN  IF at = {} THEN Len(q) + 1 ELSE CHOOSE i \in at : \A j \in at : i <= j
Escape(q) == Len(q) >= 3 /\ q[1] = "%" /\ q[2] \in ISXDIGIT /\ q[3] \in ISXDIGIT
(* how many characters at the front of q are in chars or escapes *)
RECURSIVE span(_, _)
span(q, chars) ==
    CASE q # <<>> /\ q[1] \in chars -> 1 + span(Tail(q), chars)
      [] Escape(q) /\ "%" \notin chars -> 3 + span(From(q, 3), chars)
      [] OTHER -> 0
-----------------------------------------------------------------------------
scheme_ok(s) ==
    /\ s # <<>> /\ s[1] \in ALPHA
    /\ \A i \in 2..Len(s) : s[i] \in ALPHA \union DIGIT \union {"+", "-", "."}
userinfo_ok(s) == span(s, CHAR_IS_UNRESERVED \union SUBDELIMS \union {":"}) = Len(s)
regname_ok(s) == span(s, CHAR_IS_UNRESERVED \union SUBDELIMS) = Len(s)

(* the digits of s, or -1 where they pass 65535 *)
RECURSIVE parse_port(_)
parse_port(s) ==
    IF s = <<>> THEN 0
    ELSE LET before == parse_port(Front(s))
             portnum == before * 10 + HexValue(Last(s))
         IN  IF before < 0 \/ portnum > 65535 THEN -1 ELSE portnum

bracket_addr_ok(s) ==
    /\ Len(s) >= 3 /\ s[1] = "[" /\ Last(s) = "]"
    /\ IF s[2] # "v" THEN SubSeq(s, 2, Len(s) - 1) \in IPv6
       ELSE LET t == SubSeq(s, 3, Len(s) - 1)
                dot == first(t, {"."})
            IN  /\ dot > 1 /\ dot <= Len(t)
                /\ \A i \in 1..(dot - 1) : t[i] \in ISXDIGIT
                /\ \A i \in (dot + 1)..Len(t) : t[i] \in CHAR_IS_UNRESERVED \union SUBDELIMS \union {":"}

(* the digits at the end of s *)
trailing(s) == CHOOSE n \in 0..Len(s) : /\ \A i \in (Len(s) - n + 1)..Len(s) : s[i] \in DIGIT
                                        /\ n = Len(s) \/ s[Len(s) - n] \notin DIGIT
(* the two ends of parse_authority *)
authority_of(userinfo, host, port) ==
    IF \/ userinfo # NULL /\ ~userinfo_ok(userinfo)
       \/ port = -2
       \/ ~(IF Len(host) >= 2 /\ host[1] = "[" /\ Last(host) = "]" THEN bracket_addr_ok(host)
            ELSE regname_ok(host))
    THEN Fail
    ELSE [ok |-> TRUE, userinfo |-> userinfo, host |-> host, port |-> port]
host_and_port(userinfo, s, digits) ==
    LET colon == Len(s) - digits
        port == parse_port(From(s, colon))
    IN  IF colon = 0 \/ s[colon] # ":" THEN authority_of(userinfo, s, -1)
        ELSE authority_of(userinfo, SubSeq(s, 1, colon - 1),
                          IF digits = 0 THEN -1 ELSE IF port < 0 THEN -2 ELSE port)
parse_authority(s) ==
    LET at == first(s, {"@"})
        rest == From(s, at)
    IN  IF s = <<>> THEN [ok |-> TRUE, userinfo |-> NULL, host |-> <<>>, port |-> -1]
        ELSE IF at > Len(s) THEN host_and_port(NULL, s, trailing(s))
        ELSE host_and_port(SubSeq(s, 1, at - 1), rest, trailing(rest))

end_of_authority(s) == first(s, {"?", "#", "/"}) - 1

end_of_path(s, part, flags) ==
    IF flags # "NONCONFORMANT"
    THEN span(s, CHAR_IS_UNRESERVED \union SUBDELIMS \union {":", "@", "/"}
                 \union (IF part = "PATH" THEN {} ELSE {"?"}))
    ELSE CASE part = "PATH" -> first(s, {"#", "?"}) - 1
           [] part = "QUERY" -> first(s, {"#"}) - 1
           [] part = "FRAGMENT" -> Len(s)

path_matches_noscheme(s) == LET i == first(s, {":", "/"}) IN i > Len(s) \/ s[i] = "/"

(* the parts of evhttp_uri_parse_with_flags, from its end *)
parse_fragment(u, s) ==
    IF s = <<>> THEN u
    ELSE IF s[1] # "#" \/ end_of_path(Tail(s), "FRAGMENT", u.flags) # Len(s) - 1 THEN Fail
    ELSE [u EXCEPT !.fragment = Tail(s)]
parse_query(u, s) ==
    LET n == end_of_path(Tail(s), "QUERY", u.flags) + 1
    IN  IF s = <<>> \/ s[1] # "?" THEN parse_fragment(u, s)
        ELSE parse_fragment([u EXCEPT !.query = SubSeq(s, 2, n)], From(s, n))
parse_path(u, s, n) ==
    LET path == SubSeq(s, 1, n)
    IN  IF \/ u.host # NULL /\ path # <<>> /\ path[1] # "/"
           \/ u.scheme = NULL /\ ~path_matches_noscheme(path)
        THEN Fail
        ELSE parse_query([u EXCEPT !.path = path], From(s, n))
parse_after_authority(scheme, authority, s, flags) ==
    IF ~authority.ok THEN Fail
    ELSE parse_path([ok |-> TRUE, flags |-> flags, scheme |-> scheme, userinfo |-> authority.userinfo,
                     host |-> authority.host, port |-> authority.port, path |-> NULL,
                     query |-> NULL, fragment |-> NULL],
                    s, end_of_path(s, "PATH", flags))
parse_after_scheme(scheme, s, flags) ==
    LET eoa == end_of_authority(From(s, 2)) + 2
    IN  IF IsPrefix(<<"/", "/">>, s)
        THEN parse_after_authority(scheme, parse_authority(SubSeq(s, 3, eoa)), From(s, eoa), flags)
        ELSE parse_after_authority(scheme, [ok |-> TRUE, userinfo |-> NULL, host |-> NULL, port |-> -1],
                                   s, flags)
evhttp_uri_parse_with_flags(source, flags) ==
    LET colon == first(source, {":"})
    IN  IF colon <= Len(source) /\ scheme_ok(SubSeq(source, 1, colon - 1))
        THEN parse_after_scheme(SubSeq(source, 1, colon - 1), From(source, colon), flags)
        ELSE parse_after_scheme(NULL, source, flags)

(* "%d" *)
RECURSIVE decimal(_)
decimal(n) == IF n < 10 THEN <<Hex[n + 1]>> ELSE decimal(n \div 10) \o <<Hex[(n % 10) + 1]>>

(* the string, where buf has room for it, or NULL *)
evhttp_uri_join(u) ==
    LET opt(before, s, after) == IF s = NULL THEN <<>> ELSE before \o s \o after
        authority == <<"/", "/">> \o opt(<<>>, u.userinfo, <<"@">>) \o u.host
                     \o (IF u.port >= 0 THEN <<":">> \o decimal(u.port) ELSE <<>>)
    IN  IF u.host # NULL /\ u.path \notin {NULL, <<>>} /\ u.path[1] # "/" THEN NULL
        ELSE opt(<<>>, u.scheme, <<":">>) \o (IF u.host = NULL THEN <<>> ELSE authority)
             \o opt(<<>>, u.path, <<>>) \o opt(<<"?">>, u.query, <<>>)
             \o opt(<<"#">>, u.fragment, <<>>)
-----------------------------------------------------------------------------
(* the URI with the part changed, or as it was where the setter returns -1 *)
evhttp_uri_set_scheme(u, s) == IF s = NULL \/ scheme_ok(s) THEN [u EXCEPT !.scheme = s] ELSE u
evhttp_uri_set_userinfo(u, s) ==
    IF s = NULL \/ userinfo_ok(s) THEN [u EXCEPT !.userinfo = s] ELSE u
(* Mutant: an address in brackets is taken as it is. *)
set_host_brackets(u, s) ==
    IF s \in {NULL, <<>>} \/ s[1] = "[" \/ regname_ok(s) THEN [u EXCEPT !.host = s] ELSE u
evhttp_uri_set_host(u, s) ==
    IF \/ s \in {NULL, <<>>}
       \/ IF s[1] = "[" THEN bracket_addr_ok(s) ELSE regname_ok(s)
    THEN [u EXCEPT !.host = s] ELSE u
evhttp_uri_set_port(u, port) == IF port < -1 THEN u ELSE [u EXCEPT !.port = port]
evhttp_uri_set_path(u, s) ==
    IF s = NULL \/ end_of_path(s, "PATH", u.flags) = Len(s) THEN [u EXCEPT !.path = s] ELSE u
evhttp_uri_set_query(u, s) ==
    IF s = NULL \/ end_of_path(s, "QUERY", u.flags) = Len(s) THEN [u EXCEPT !.query = s] ELSE u
evhttp_uri_set_fragment(u, s) ==
    IF s = NULL \/ end_of_path(s, "FRAGMENT", u.flags) = Len(s) THEN [u EXCEPT !.fragment = s] ELSE u
-----------------------------------------------------------------------------
(* Escapes and queries. *)
escaped(c, space_as_plus) ==
    CASE c \in CHAR_IS_UNRESERVED -> <<c>>
      [] c = " " /\ space_as_plus -> <<"+">>
      [] OTHER -> <<"%", Hex[Code[c] \div 16 + 1], Hex[(Code[c] % 16) + 1]>>
evhttp_uriencode(s, space_as_plus) ==
    FoldLeft(LAMBDA q, c : q \o escaped(c, space_as_plus), <<>>, s)

(* the character of an escape; those that are not of the alphabet are their numbers *)
Unescape(q) ==
    LET n == 16 * HexValue(q[2]) + HexValue(q[3])
        known == {c \in DOMAIN Code : Code[c] = n}
    IN  IF known = {} THEN ToString(n) ELSE CHOOSE c \in known : TRUE

(* decode_plus is 1, 0 or -1: only after a question mark *)
RECURSIVE evhttp_decode_uri_internal(_, _)
evhttp_decode_uri_internal(s, decode_plus) ==
    CASE s = <<>> -> <<>>
      [] s # <<>> /\ s[1] = "?" ->
            <<"?">> \o evhttp_decode_uri_internal(Tail(s), IF decode_plus < 0 THEN 1 ELSE decode_plus)
      [] s # <<>> /\ s[1] = "+" /\ decode_plus = 1 ->
            <<" ">> \o evhttp_decode_uri_internal(Tail(s), decode_plus)
      [] Escape(s) -> <<Unescape(s)>> \o evhttp_decode_uri_internal(From(s, 3), decode_plus)
      [] OTHER -> <<s[1]>> \o evhttp_decode_uri_internal(Tail(s), decode_plus)

(* The list of keys and decoded values.  One that fails is empty. *)
RECURSIVE parse_arguments(_)
parse_arguments(p) ==
    LET argument == SubSeq(p, 1, first(p, {"&"}) - 1)
        eq == first(argument, {"="})
        after(more) == IF ~more.ok THEN more
                       ELSE [more EXCEPT !.headers =
                                 <<<<SubSeq(argument, 1, eq - 1),
                                     evhttp_decode_uri_internal(From(argument, eq), 1)>>>> \o @]
    IN  IF p = <<>> THEN [ok |-> TRUE, headers |-> <<>>]
        ELSE IF eq = 1 \/ eq > Len(argument) THEN [ok |-> FALSE, headers |-> <<>>]
        ELSE after(parse_arguments(From(p, Len(argument) + 1)))
query_of(u) == IF ~u.ok THEN [ok |-> FALSE, headers |-> <<>>]
               ELSE parse_arguments(IF u.query = NULL THEN <<>> ELSE u.query)
evhttp_parse_query_impl(s, is_whole_uri) ==
    IF is_whole_uri THEN query_of(evhttp_uri_parse_with_flags(s, "")) ELSE parse_arguments(s)
-----------------------------------------------------------------------------
NoText == <<NULL, NULL>>
UriIdle == uri = Fail /\ sets = MaxSets /\ text = NoText
UriInit ==
    /\ \E s \in Sources, flags \in {"", "NONCONFORMANT"} : uri = evhttp_uri_parse_with_flags(s, flags)
    /\ sets = 0 /\ text = NoText
QueryInit == uri = Fail /\ sets = MaxSets /\ text \in Texts \X Texts

Sets(set(_, _), values) ==
    /\ uri.ok /\ sets < MaxSets
    /\ \E v \in values : uri' = set(uri, v)
    /\ sets' = sets + 1 /\ UNCHANGED text
SetScheme == Sets(evhttp_uri_set_scheme, Parts \union {NULL})
SetUserinfo == Sets(evhttp_uri_set_userinfo, Parts \union {NULL})
SetHost == Sets(evhttp_uri_set_host, Parts \union {NULL})
SetPort == Sets(evhttp_uri_set_port, Ports)
SetPath == Sets(evhttp_uri_set_path, Parts \union {NULL})
SetQuery == Sets(evhttp_uri_set_query, Parts \union {NULL})
SetFragment == Sets(evhttp_uri_set_fragment, Parts \union {NULL})
UriNext ==
    SetScheme \/ SetUserinfo \/ SetHost \/ SetPort \/ SetPath \/ SetQuery \/ SetFragment
-----------------------------------------------------------------------------
(* The setters check their own part only: these URIs are not written as     *)
(* what they are.  Without a host there is no authority to write, a path    *)
(* "//x" would be one, and the colon of a path "A:x" would end a scheme;    *)
(* with a port above 65535 what is written is not parsed.                   *)
Misread(u) ==
    \/ u.host = NULL /\ (u.userinfo # NULL \/ u.port # -1)
    \/ u.host = NULL /\ u.path # NULL /\ IsPrefix(<<"/", "/">>, u.path)
    \/ u.scheme = NULL /\ u.path # NULL /\ ~path_matches_noscheme(u.path)
    \/ u.port > 65535

JoinSurvives(u, joined) ==
    LET path == IF u.path = NULL THEN <<>> ELSE u.path
    IN  IF joined = NULL THEN u.host # NULL /\ path[1] # "/" /\ sets > 0
        ELSE Misread(u) \/ evhttp_uri_parse_with_flags(joined, u.flags) = [u EXCEPT !.path = path]
ValuesSurvive(one, two, plus) ==
    LET query == <<"A", "=">> \o one \o <<"&", "B", "=">> \o two
        headers == <<<<<<"A">>, text[1]>>, <<<<"B">>, text[2]>>>>
    IN  /\ evhttp_decode_uri_internal(one, plus) = text[1]
        /\ evhttp_decode_uri_internal(<<"?">> \o one, -1) = <<"?">> \o text[1]
        /\ \A whole \in BOOLEAN :
              evhttp_parse_query_impl(IF whole THEN <<"/", "?">> \o query \o <<"#">> ELSE query, whole)
              = [ok |-> TRUE, headers |-> headers]
(* A URI survives being written: what evhttp_uri_join makes of one that     *)
(* evhttp_uri_parse_with_flags made, and the setters changed, is parsed to  *)
(* the same parts, whatever is in them, unless the setters left one of the  *)
(* combinations that Misread lists; it refuses only a relative path after   *)
(* a host, which only evhttp_uri_set_path leaves.  And evhttp_uriencode     *)
(* takes out whatever would change the meaning of a query or a URI: any two *)
(* texts become the values of a query, alone or in a URI, and are found.    *)
UriSurvives ==
    /\ uri.ok => JoinSurvives(uri, evhttp_uri_join(uri))
    /\ text # NoText => \A plus \in BOOLEAN :
          ValuesSurvive(evhttp_uriencode(text[1], plus), evhttp_uriencode(text[2], plus),
                        IF plus THEN 1 ELSE 0)
=============================================================================
