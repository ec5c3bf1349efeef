------------------------------ MODULE DnsWire ------------------------------
(* Names in DNS packets (evdns.c): dnsname_to_labels writes them with the   *)
(* table of evdns_server_request_format_response, which compresses them,    *)
(* and name_parse reads them.  A packet is the sequence of its bytes, at    *)
(* places that the code counts from 0.  A name is the sequence of its       *)
(* labels, each a sequence of bytes; the dots are between them.             *)
EXTENDS Integers, Sequences, SequencesExt
CONSTANTS
    Names,          \* the names of questions and answers
    Asked,          \* the names of requests
    MaxRecords,     \* bound on the records of a packet
    UdpLimit,       \* the 512 bytes after which a response is truncated
    BufLen,         \* sizeof(buf), 1500
    NameLen         \* sizeof(tmp_name), 256
VARIABLES
    buf, table,     \* of evdns_server_request_format_response
    written         \* the names so far

wirevars == <<buf, table, written>>
HeaderLen == 12
TextLen(name) == FoldLeft(LAMBDA n, l : n + Len(l) + 1, 0, name) - 1
Result(j, b, t) == [j |-> j, buf |-> b, table |-> t]
-----------------------------------------------------------------------------
(* the place of the name that the table has first, or -1 *)
dnslabel_table_get_pos(t, name) ==
    LET hits == SelectSeq(t, LAMBDA e : e.v = name) IN IF hits = <<>> THEN -1 ELSE hits[1].pos
(* Mutant: of the place after the length. *)
table_add_late(t, name, pos) == Append(t, [v |-> name, pos |-> pos + 1])
dnslabel_table_add(t, name, pos) == Append(t, [v |-> name, pos |-> pos])

(* a name after the bytes of b; j is the new length, or -1 or -2 *)
RECURSIVE dnsname_to_labels(_, _, _)
dnsname_to_labels(b, name, t) ==
    LET ref == dnslabel_table_get_pos(t, name)
        label == name[1]
        rest == Append(b, Len(label)) \o label
        t2 == dnslabel_table_add(t, name, Len(b))
    IN  IF TextLen(name) > 255 THEN Result(-2, b, t)
        ELSE IF ref >= 0
        THEN IF Len(b) + 2 > BufLen THEN Result(-2, b, t)
             ELSE Result(Len(b) + 2, b \o <<192 + ref \div 256, ref % 256>>, t)
        ELSE IF Len(label) > 63 THEN Result(-1, b, t)
        ELSE IF Len(b) + Len(label) + 1 > BufLen THEN Result(-2, b, t)
        ELSE IF Len(name) > 1 THEN dnsname_to_labels(rest, Tail(name), t2)
        ELSE Result(Len(rest) + 1, Append(rest, 0), t2)

(* the name at place idx and the place after it; cp counts the bytes of its text *)
RECURSIVE labels_at(_, _, _, _, _, _)
labels_at(packet, j, name, cp, name_end, ptr_count) ==
    LET length == Len(packet)
        label_len == packet[j + 1]
        target == (label_len % 64) * 256 + packet[j + 2]
        dotted == IF name = <<>> THEN cp ELSE cp + 1
    IN  IF j >= length THEN [ok |-> FALSE]
        ELSE IF label_len = 0
        THEN [ok |-> cp < NameLen, name |-> name, idx |-> IF name_end < 0 THEN j + 1 ELSE name_end]
        ELSE IF label_len >= 64
        THEN IF j + 1 >= length THEN [ok |-> FALSE]
             ELSE IF target >= length \/ ptr_count + 1 > length THEN [ok |-> FALSE]
             ELSE labels_at(packet, target, name, cp, IF name_end < 0 THEN j + 2 ELSE name_end,
                            ptr_count + 1)
        ELSE IF (name # <<>> /\ cp + 1 >= NameLen) \/ dotted + label_len >= NameLen
                \/ j + 1 + label_len > length
        THEN [ok |-> FALSE]
        ELSE labels_at(packet, j + 1 + label_len,
                       Append(name, SubSeq(packet, j + 2, j + 1 + label_len)),
                       dotted + label_len, name_end, ptr_count)
name_parse(packet, idx) == labels_at(packet, idx, <<>>, 0, -1, 0)

(* evdns_request_data_build: one question, and no table *)
evdns_request_data_build(name) ==
    dnsname_to_labels([i \in 1..HeaderLen |-> 0], name, <<>>)
-----------------------------------------------------------------------------
(* evdns_server_request_format_response, a record at a time: those with a   *)
(* name for data (CNAME, PTR) have two names.                               *)
Zeros(n) == [i \in 1..n |-> 0]
append_question(b, name, t) ==
    LET r == dnsname_to_labels(b, name, t)
    IN  IF r.j < 0 THEN r ELSE Result(r.j + 4, r.buf \o Zeros(4), r.table)
append_item(b, name, data, t) ==
    LET r == dnsname_to_labels(b, name, t)
        d == dnsname_to_labels(r.buf \o Zeros(10), data, r.table)
        start == Len(r.buf) + 10
        length == d.j - start
        at == start - 1       \* where the length of the data is
    IN  IF r.j < 0 THEN r ELSE IF d.j < 0 THEN d
        ELSE Result(d.j, [d.buf EXCEPT ![at] = length \div 256, ![at + 1] = length % 256], d.table)

WireIdle == buf = <<>> /\ table = <<>> /\ written = <<>>
WireInit == buf = Zeros(HeaderLen) /\ table = <<>> /\ written = <<>>
Write(r, names) ==
    /\ Len(written) < MaxRecords
    /\ r.j >= 0 /\ buf' = r.buf /\ table' = r.table /\ written' = Append(written, names)
AddQuestion ==
    /\ \A i \in DOMAIN written : Len(written[i]) = 1
    /\ \E n \in Names : Write(append_question(buf, n, table), <<n>>)
AddItem ==
    /\ written # <<>>
    /\ \E n, d \in Names : Write(append_item(buf, n, d, table), <<n, d>>)
WireNext == AddQuestion \/ AddItem

(* the response: cut where it is too long *)
evdns_server_request_format_response_ends(b) ==
    IF Len(b) > UdpLimit THEN SubSeq(b, 1, UdpLimit) ELSE b

(* What a reader like reply_parse finds from place idx on, record by        *)
(* record, until one is not all there.                                      *)
RECURSIVE names_read(_, _, _)
names_read(packet, idx, kinds) ==
    LET one == name_parse(packet, idx)
        two == name_parse(packet, one.idx + 10)
        datalen == packet[one.idx + 9] * 256 + packet[one.idx + 10]
        fixed == IF kinds[1] = 1 THEN 4 ELSE 10
    IN  IF kinds = <<>> THEN <<>>
        ELSE IF ~one.ok THEN <<>>
        ELSE IF one.idx + fixed > Len(packet) THEN <<>>
        ELSE IF kinds[1] = 1 THEN <<<<one.name>>>> \o names_read(packet, one.idx + 4, Tail(kinds))
        ELSE IF ~two.ok THEN <<>>
        ELSE IF two.idx # one.idx + 10 + datalen THEN <<<<>>>>
        ELSE <<<<one.name, two.name>>>> \o names_read(packet, two.idx, Tail(kinds))

(* Names survive compression: a reader with name_parse finds in a response  *)
(* the names that the server put there, each as long as it says, however    *)
(* pointers go through the names before it; in one that was truncated it    *)
(* finds the first of them and never another name; and a request is read    *)
(* as the name it was built for.                                            *)
NamesSurvive ==
    LET kinds == [i \in DOMAIN written |-> Len(written[i])]
        packet == evdns_server_request_format_response_ends(buf)
        found == names_read(packet, HeaderLen, kinds)
    IN  /\ IF packet = buf THEN found = written ELSE IsPrefix(found, written)
        /\ \A name \in Asked : buf # <<>> /\ written = <<>> =>
              LET r == evdns_request_data_build(name)
              IN  r.j >= 0 => name_parse(r.buf, HeaderLen) = [ok |-> TRUE, name |-> name, idx |-> r.j]
=============================================================================
