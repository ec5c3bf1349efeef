------------------------------- MODULE EvTag -------------------------------
(* Tagged messages (event_tagging.c), which evrpc.c sends: one side         *)
(* marshals items into an evbuffer, the bytes arrive at the other in pieces *)
(* and are unmarshalled.  A number is the sequence of its 4-bit digits from *)
(* the lowest, the highest not zero: 8 of them are a uint32_t, 16 a         *)
(* uint64_t.  A tag is an integer, and a byte is one below 256.             *)
EXTENDS Integers, Sequences, SequencesExt, FiniteSetsExt
CONSTANTS
    Items,      \* what is marshalled, see Item
    MaxItems    \* bound on how many
VARIABLES
    sent,       \* the items that are still to be read
    wire,       \* the bytes that are on their way
    evbuf,      \* the bytes that have arrived
    marshalled, \* how many items were
    misread     \* has the reader got something else than what was sent?

Item == [tag : Nat, kind : {"data", "string", "int", "int64", "timeval"}, value : Seq(Seq(Nat))]
tagvars == <<sent, wire, evbuf, marshalled, misread>>
-----------------------------------------------------------------------------
RECURSIVE digits(_)
digits(n) == IF n = 0 THEN <<>> ELSE <<n % 16>> \o digits(n \div 16)
RECURSIVE number(_)
number(q) == IF q = <<>> THEN 0 ELSE q[1] + 16 * number(Tail(q))
Normal(q) == SubSeq(q, 1, Max({0} \union {i \in DOMAIN q : q[i] # 0}))
After(q, n) == SubSeq(q, n + 1, Len(q))

(* Mutant: the half byte with the number of digits is not counted. *)
encode_int_even(q) ==
    LET n == Len(q)
        all == <<IF n > 1 THEN n - 1 ELSE 0>> \o q \o <<0>>
    IN  [i \in 1..((n + 1) \div 2) |-> all[2 * i - 1] * 16 + all[2 * i]]
(* Half a byte for the number of digits less one, then the digits. *)
encode_int_internal(q) ==
    LET n == Len(q)
        all == <<IF n > 1 THEN n - 1 ELSE 0>> \o q \o <<0>>
    IN  [i \in 1..((n + 2) \div 2) |-> all[2 * i - 1] * 16 + all[2 * i]]
evtag_encode_int(buf, n) == buf \o encode_int_internal(digits(n))

(* seven bits a byte, from the lowest *)
RECURSIVE evtag_encode_tag(_, _)
evtag_encode_tag(buf, tag) ==
    IF tag < 128 THEN Append(buf, tag)
    ELSE evtag_encode_tag(Append(buf, 128 + (tag % 128)), tag \div 128)

evtag_marshal(buf, tag, data) == evtag_encode_int(evtag_encode_tag(buf, tag), Len(data)) \o data
evtag_marshal_buffer(buf, tag, data) == evtag_encode_int(evtag_encode_tag(buf, tag), Len(data)) \o data
evtag_marshal_string(buf, tag, string) == evtag_marshal(buf, tag, string)
evtag_marshal_int(buf, tag, q) ==
    LET data == encode_int_internal(q)
    IN  evtag_encode_int(evtag_encode_tag(buf, tag), Len(data)) \o data
evtag_marshal_int64(buf, tag, q) ==
    LET data == encode_int_internal(q)
    IN  evtag_encode_int(evtag_encode_tag(buf, tag), Len(data)) \o data
evtag_marshal_timeval(buf, tag, sec, usec) ==
    evtag_marshal(buf, tag, encode_int_internal(sec) \o encode_int_internal(usec))
-----------------------------------------------------------------------------
(* Reading: res is the number of bytes of what was read, -1 for an error. *)
Error == [res |-> -1]

tag_of(buf, n) ==
    IF n > 5 \/ (n = 5 /\ buf[5] > 15) THEN Error
    ELSE [res |-> n, tag |-> FoldLeft(LAMBDA t, i : t * 128 + (buf[n + 1 - i] % 128), 0,
                                      [i \in 1..n |-> i])]
decode_tag_internal(buf) ==
    LET ends == {i \in DOMAIN buf : buf[i] < 128}
    IN  IF ends = {} THEN Error ELSE tag_of(buf, Min(ends))

number_of(data, nibbles) ==
    LET len == nibbles \div 2 + 1
        half(i) == IF i % 2 = 1 THEN data[i \div 2 + 1] % 16 ELSE data[i \div 2 + 1] \div 16
    IN  IF len > Len(data) THEN Error
        ELSE [res |-> len, number |-> Normal([i \in 1..nibbles |-> half(i)])]
DECODE_INT_INTERNAL(buf, offset, maxnibbles) ==
    IF Len(buf) <= offset THEN Error
    ELSE IF buf[offset + 1] \div 16 + 1 > maxnibbles THEN Error
    ELSE number_of(After(buf, offset), buf[offset + 1] \div 16 + 1)
decode_int_internal(buf, offset) == DECODE_INT_INTERNAL(buf, offset, 8)
decode_int64_internal(buf, offset) == DECODE_INT_INTERNAL(buf, offset, 16)

evtag_peek(buf) == decode_tag_internal(buf)
evtag_payload_length(buf) ==
    LET length(l) == IF l.res = -1 THEN -1 ELSE number(l.number)
        after(t) == IF t.res = -1 THEN -1 ELSE length(decode_int_internal(buf, t.res))
    IN  after(decode_tag_internal(buf))
evtag_peek_length(buf) ==
    LET length(t, l) == IF l.res = -1 THEN -1 ELSE number(l.number) + l.res + t
        after(t) == IF t.res = -1 THEN -1 ELSE length(t.res, decode_int_internal(buf, t.res))
    IN  after(decode_tag_internal(buf))

(* buf is what is left in the buffer, also where res is -1. *)
evtag_unmarshal_header(buf) ==
    LET whole(tag, rest, n) == [res |-> IF Len(rest) < n THEN -1 ELSE n, buf |-> rest, tag |-> tag]
        sized(tag, rest, l) == IF l.res = -1 THEN [res |-> -1, buf |-> rest]
                               ELSE whole(tag, After(rest, l.res), number(l.number))
        tagged(t, rest) == IF t.res = -1 THEN [res |-> -1, buf |-> buf]
                           ELSE sized(t.tag, rest, decode_int_internal(rest, 0))
        header(t) == tagged(t, After(buf, t.res))
    IN  header(decode_tag_internal(buf))
Take(h, n, value) == [res |-> n, buf |-> After(h.buf, h.res), value |-> value]

consume(h) == IF h.res = -1 THEN h ELSE Take(h, 0, <<>>)
evtag_consume(buf) == consume(evtag_unmarshal_header(buf))
unmarshal(h) == IF h.res = -1 THEN h ELSE Take(h, h.res, <<SubSeq(h.buf, 1, h.res)>>)
evtag_unmarshal(buf) == unmarshal(evtag_unmarshal_header(buf))

(* evtag_unmarshal_int and evtag_unmarshal_int64 *)
unmarshal_number(buf, need_tag, decode(_, _)) ==
    LET read(h, n) == IF n.res = -1 \/ n.res > h.res THEN Take(h, -1, <<>>)
                      ELSE Take(h, n.res, <<n.number>>)
        after(h) == IF h.res = -1 THEN h ELSE read(h, decode(h.buf, 0))
        tagged(t) == IF t.res # -1 /\ t.tag # need_tag THEN [res |-> -1, buf |-> After(buf, t.res)]
                     ELSE after(evtag_unmarshal_header(buf))
    IN  tagged(decode_tag_internal(buf))
evtag_unmarshal_int(buf, need_tag) == unmarshal_number(buf, need_tag, decode_int_internal)
evtag_unmarshal_int64(buf, need_tag) == unmarshal_number(buf, need_tag, decode_int64_internal)

evtag_unmarshal_fixed(buf, need_tag, len) ==
    LET after(h) == IF h.res = -1 \/ h.tag # need_tag \/ h.res # len THEN [res |-> -1, buf |-> h.buf]
                    ELSE Take(h, 0, <<SubSeq(h.buf, 1, len)>>)
    IN  after(evtag_unmarshal_header(buf))
evtag_unmarshal_string(buf, need_tag) ==
    LET after(h) == IF h.res = -1 \/ h.tag # need_tag THEN [res |-> -1, buf |-> h.buf]
                    ELSE Take(h, 0, <<SubSeq(h.buf, 1, h.res)>>)
    IN  after(evtag_unmarshal_header(buf))
evtag_unmarshal_timeval(buf, need_tag) ==
    LET both(h, sec, usec) == IF usec.res = -1 \/ sec.res + usec.res > h.res THEN Take(h, -1, <<>>)
                              ELSE Take(h, 0, <<sec.number, usec.number>>)
        first(h, sec) == IF h.tag # need_tag \/ sec.res = -1 THEN Take(h, -1, <<>>)
                         ELSE both(h, sec, decode_int_internal(h.buf, sec.res))
        after(h) == IF h.res = -1 THEN h ELSE first(h, decode_int_internal(h.buf, 0))
    IN  after(evtag_unmarshal_header(buf))
-----------------------------------------------------------------------------
Marshalled(buf, it) ==
    CASE it.kind = "data" -> evtag_marshal_buffer(buf, it.tag, it.value[1])
      [] it.kind = "string" -> evtag_marshal_string(buf, it.tag, it.value[1])
      [] it.kind = "int" -> evtag_marshal_int(buf, it.tag, it.value[1])
      [] it.kind = "int64" -> evtag_marshal_int64(buf, it.tag, it.value[1])
      [] it.kind = "timeval" -> evtag_marshal_timeval(buf, it.tag, it.value[1], it.value[2])
Unmarshalled(buf, tag, kind, len) ==
    CASE kind = "data" -> evtag_unmarshal(buf)
      [] kind = "skip" -> evtag_consume(buf)
      [] kind = "fixed" -> evtag_unmarshal_fixed(buf, tag, len)
      [] kind = "string" -> evtag_unmarshal_string(buf, tag)
      [] kind = "int" -> evtag_unmarshal_int(buf, tag)
      [] kind = "int64" -> evtag_unmarshal_int64(buf, tag)
      [] kind = "timeval" -> evtag_unmarshal_timeval(buf, tag)
Kinds == {"data", "string", "int", "int64", "timeval", "skip", "fixed"}

TagInit == sent = <<>> /\ wire = <<>> /\ evbuf = <<>> /\ marshalled = 0 /\ misread = FALSE
Marshal ==
    /\ marshalled < MaxItems /\ marshalled' = marshalled + 1
    /\ \E it \in Items : sent' = Append(sent, it) /\ wire' = Marshalled(wire, it)
    /\ UNCHANGED <<evbuf, misread>>
Arrive ==
    /\ \E n \in 1..Len(wire) : evbuf' = evbuf \o SubSeq(wire, 1, n) /\ wire' = After(wire, n)
    /\ UNCHANGED <<sent, marshalled, misread>>
(* The reader looks first whether the whole message is there, and at its    *)
(* tag and length, and then reads it as any kind, the right one or not.     *)
Unmarshal ==
    LET it == Head(sent)
        reads(kind, r) ==
            /\ evbuf' = r.buf /\ sent' = Tail(sent)
            /\ misread' = /\ kind = it.kind \/ (kind = "fixed" /\ it.kind = "data")
                          /\ r.res = -1 \/ r.value # it.value
    IN  /\ sent # <<>> /\ evtag_peek_length(evbuf) \in 0..Len(evbuf)
        /\ \E kind \in Kinds :
              reads(kind, Unmarshalled(evbuf, evtag_peek(evbuf).tag, kind, evtag_payload_length(evbuf)))
        /\ UNCHANGED <<wire, marshalled>>
TagNext == ~misread /\ (Marshal \/ Arrive \/ Unmarshal)

(* Messages survive the way: each is read as the value that was marshalled, *)
(* evtag_peek_length and evtag_peek tell of a message in pieces nothing or  *)
(* the truth, and not before the value is known to be there; and reading a  *)
(* message as another kind, which may fail, leaves the buffer at the start  *)
(* of the next one, for all lengths of tags and numbers.                    *)
MessagesSurvive ==
    LET first == Len(Marshalled(<<>>, sent[1]))
        len == evtag_peek_length(evbuf)
    IN  /\ ~misread
        /\ evbuf \o wire = FoldLeft(Marshalled, <<>>, sent)
        /\ sent # <<>> =>
              /\ len \in {-1, first} /\ (Len(evbuf) >= first => len = first)
              /\ evtag_peek(evbuf).res # -1 => evtag_peek(evbuf).tag = sent[1].tag
=============================================================================
