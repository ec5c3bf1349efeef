------------------------------ MODULE EvBuffer ------------------------------
(***************************************************************************)
(* struct evbuffer and its chains (buffer.c): the list of chains that a    *)
(* buffer keeps with first, last, next and last_with_datap, the memory the *)
(* chains point into, and the reference counts.  Every call holds the      *)
(* buffer's lock from its first to its last line and is one action.        *)
(*                                                                         *)
(* A pointer to a chain is the chain's number, Null for NULL.  The pointer *)
(* to a pointer last_with_datap is Null for &buf->first and c for          *)
(* &c->next.  Running out of chain numbers is running out of memory.       *)
(* Nothing in this build pins a chain, so that CHAIN_PINNED is false.      *)
(***************************************************************************)
EXTENDS SequencesExt, Integers

CONSTANTS
    Bufs,                   \* the buffers
    MaxChains,              \* bound: chains in all
    Programs,               \* what programs do, see Program
    May,                    \* what the program may do as well, see the calls:
                            \* "oom", "cross", "expanded", "shared", "unmapped"
    MIN_BUFFER_SIZE,
    EVBUFFER_CHAIN_SIZE,
    EVBUFFER_CHAIN_MAX_AUTO_SIZE,
    MAX_TO_COPY_IN_EXPAND,
    MAX_TO_REALIGN_IN_EXPAND,
    NUM_READ_IOVEC,
    vprintf_space           \* the 64 of evbuffer_add_vprintf

(* A program: the bound on the bytes it keeps in a buffer, the pieces of   *)
(* data it adds, and for each buffer the calls it makes and what its       *)
(* evbuffer_cb does.  "count" only looks at the numbers it is told,        *)
(* "drain" drains the buffer, "cross" drains the other ones, "defer" is a  *)
(* deferred "count".                                                       *)
Program == [max : Nat,
            data : SUBSET Seq(STRING),
            calls : [Bufs -> SUBSET STRING],
            cb : [Bufs -> {"none", "count", "drain", "cross", "defer"}]]

VARIABLES
    does,       \* the program
    buf,        \* struct evbuffer
    chain,      \* struct evbuffer_chain
    want,       \* what is in a buffer when it is a queue of bytes
    broken      \* "assert", "wild", "bytes" (other bytes than want's) or "no"

vars == <<does, buf, chain, want, broken>>

Null == 0

Chains == 1..MaxChains

(* mem is the chain in whose memory buffer points, bytes is that memory. *)
NoChain == [live |-> FALSE, next |-> Null, kind |-> "own", mem |-> Null,
            buffer_len |-> 0, misalign |-> 0, off |-> 0, immutable |-> FALSE,
            refcnt |-> 0, parent |-> Null, source |-> Null, bytes |-> <<>>]

(* seen is what a callback that sums up what it is told takes for the length. *)
NewBuffer == [live |-> TRUE, owned |-> TRUE, refcnt |-> 1, first |-> Null, last |-> Null,
              last_with_datap |-> Null, total_len |-> 0, freeze |-> {},
              n_add_for_cb |-> 0, n_del_for_cb |-> 0, deferred |-> FALSE, seen |-> 0]

NoBuffer == [NewBuffer EXCEPT !.live = FALSE, !.owned = FALSE, !.refcnt = 0]

Breaks(s, how) == [s EXCEPT !.broken = IF @ = "no" THEN how ELSE @]

Ensure(s, holds) == IF holds THEN s ELSE Breaks(s, "assert")

Over(F(_, _), q, s) ==
    LET go[i \in 0..Len(q)] == IF i = 0 THEN s ELSE F(go[i - 1], q[i])
    IN  go[Len(q)]

Least(i, j) == IF i < j THEN i ELSE j

-----------------------------------------------------------------------------
(* Pointers, lists and memory. *)

(* the pointer p points to, a store through it, and a walk along next *)
At(s, b, p) == IF p = Null THEN s.buf[b].first ELSE s.chain[p].next

Store(s, b, p, c) == IF p = Null THEN [s EXCEPT !.buf[b].first = c]
                     ELSE [s EXCEPT !.chain[p].next = c]

RECURSIVE steps(_, _, _)

steps(s, from, n) == IF from = Null \/ n = 0 THEN <<>>
                     ELSE <<from>> \o steps(s, s.chain[from].next, n - 1)

Walk(s, from) == steps(s, from, MaxChains + 1)

List(s, b) == Walk(s, s.buf[b].first)

(* what the bytes off at misalign of a chain are *)
Bytes(s, c) ==
    LET x == s.chain[c]
        m == s.chain[x.mem].bytes
    IN  [i \in 1..x.off |-> IF x.misalign + i \in DOMAIN m THEN m[x.misalign + i] ELSE "?"]

Concat(q) == FoldLeft(LAMBDA x, y : x \o y, <<>>, q)

Held(s, cs) == Concat([i \in 1..Len(cs) |-> Bytes(s, cs[i])])

Content(s, b) == Held(s, List(s, b))

CHAIN_SPACE_LEN(s, c) ==
    LET x == s.chain[c]
    IN  IF x.immutable THEN 0 ELSE x.buffer_len - (x.misalign + x.off)

(* memcpy of d to chain->buffer + at *)
Copy(s, c, at, d) ==
    LET m == s.chain[c].mem
        bs == s.chain[m].bytes
    IN  IF at + Len(d) > Len(bs) THEN Breaks(s, "wild")
        ELSE [s EXCEPT !.chain[m].bytes =
                [i \in 1..Len(bs) |-> IF i \in (at + 1)..(at + Len(d)) THEN d[i - at] ELSE bs[i]]]

(* d goes after the bytes the chain has *)
Extend(s, c, d) ==
    [Copy(s, c, s.chain[c].misalign + s.chain[c].off, d) EXCEPT !.chain[c].off = @ + Len(d)]

Unused(s) == {c \in Chains : ~s.chain[c].live}

(* evbuffer_chain_new's result is in s.new, Null when there is no memory *)
Sizes == [i \in 0..4 |-> MIN_BUFFER_SIZE * 2 ^ i - EVBUFFER_CHAIN_SIZE]

evbuffer_chain_new(s, size) ==
    LET c == CHOOSE x \in Unused(s) : \A y \in Unused(s) : x <= y
        i == CHOOSE j \in DOMAIN Sizes :
                Sizes[j] >= size /\ \A k \in DOMAIN Sizes : Sizes[k] >= size => j <= k
    IN  IF Unused(s) = {} THEN [s EXCEPT !.new = Null]
        ELSE [s EXCEPT !.new = c,
                       !.chain[c] = [NoChain EXCEPT
                            !.live = TRUE, !.refcnt = 1, !.mem = c,
                            !.buffer_len = Sizes[i],
                            !.bytes = [j \in 1..Sizes[i] |-> "?"]]]

RECURSIVE evbuffer_chain_free(_, _), evbuffer_decref_and_unlock_(_, _)

evbuffer_free_all_chains(s, from) == Over(evbuffer_chain_free, Walk(s, from), s)

(* A chain that refers to another one's memory lets go of it. *)
evbuffer_chain_free(s, c) ==
    LET x == s.chain[c]
        t == [s EXCEPT !.chain[c] = NoChain]
    IN  CASE x.refcnt = 0 -> Breaks(s, "assert")
          [] x.refcnt > 1 -> [s EXCEPT !.chain[c].refcnt = @ - 1]
          [] x.refcnt = 1 /\ x.kind = "multicast" ->
                evbuffer_decref_and_unlock_(evbuffer_chain_free(t, x.parent), x.source)
          [] OTHER -> t

evbuffer_decref_and_unlock_(s, b) ==
    CASE s.buf[b].refcnt = 0 -> Breaks(s, "assert")
      [] s.buf[b].refcnt > 1 -> [s EXCEPT !.buf[b].refcnt = @ - 1]
      [] OTHER -> IF s.buf[b].owned THEN Breaks(s, "wild")
                  ELSE [evbuffer_free_all_chains(s, s.buf[b].first) EXCEPT !.buf[b] = NoBuffer]

(* the place for a new chain, in s.at *)
evbuffer_free_trailing_empty_chains(s, b) ==
    LET p == s.buf[b].last_with_datap
        cs == Walk(s, At(s, b, p))
        empty == {i \in 1..Len(cs) : s.chain[cs[i]].off = 0}
        i == CHOOSE j \in empty : \A k \in empty : j <= k
        ch == IF i = 1 THEN p ELSE cs[i - 1]
    IN  IF empty = {}
        THEN [s EXCEPT !.at = IF cs = <<>> THEN p ELSE Last(cs)]
        ELSE [Store(evbuffer_free_all_chains(
                        Ensure(s, \A k \in i..Len(cs) : k \in empty), cs[i]), b, ch, Null)
                EXCEPT !.at = ch]

evbuffer_chain_insert(s, b, c) ==
    LET after(t) == [Store(t, b, t.at, c) EXCEPT
                        !.buf[b].last_with_datap = IF s.chain[c].off > 0 THEN t.at ELSE @]
    IN  [IF At(s, b, s.buf[b].last_with_datap) = Null
         THEN [Ensure(s, s.buf[b].last_with_datap = Null /\ s.buf[b].first = Null)
                    EXCEPT !.buf[b].first = c]
         ELSE after(evbuffer_free_trailing_empty_chains(s, b))
         EXCEPT !.buf[b].last = c, !.buf[b].total_len = @ + s.chain[c].off]

evbuffer_chain_insert_new(s, b, datlen) ==
    LET insert(t) == IF t.new = Null THEN t ELSE evbuffer_chain_insert(t, b, t.new)
    IN  insert(evbuffer_chain_new(s, datlen))

advance_last_with_data(s, b) ==
    LET cs == Walk(s, At(s, b, s.buf[b].last_with_datap))
        full == {i \in 2..Len(cs) : s.chain[cs[i]].off > 0}
    IN  IF full = {} THEN s
        ELSE [s EXCEPT !.buf[b].last_with_datap =
                cs[(CHOOSE i \in full : \A j \in full : j <= i) - 1]]

ZERO_CHAIN(s, b) == [s EXCEPT !.buf[b].first = Null, !.buf[b].last = Null,
                              !.buf[b].last_with_datap = Null, !.buf[b].total_len = 0]

-----------------------------------------------------------------------------
(* The callbacks, and draining, which a callback may do. *)

RECURSIVE evbuffer_invoke_callbacks_(_, _), drain_chains(_, _, _, _)

Drop(q, n) == SubSeq(q, n + 1, Len(q))

(* A mutant: last_with_datap may stay in the chain that is freed. *)
drain_chains_dangling(s, b, c, remaining) ==
    IF remaining < s.chain[c].off
    THEN [s EXCEPT !.buf[b].first = c, !.chain[c].misalign = @ + remaining,
                   !.chain[c].off = @ - remaining]
    ELSE drain_chains(
            evbuffer_chain_free(
                [s EXCEPT !.buf[b].last_with_datap =
                    IF c = At(s, b, @) THEN Null ELSE @], c),
            b, s.chain[c].next, remaining - s.chain[c].off)

(* frees the chains that are drained to their end *)
drain_chains(s, b, c, remaining) ==
    LET p == s.buf[b].last_with_datap
    IN  IF remaining < s.chain[c].off
        THEN [s EXCEPT !.buf[b].first = c, !.chain[c].misalign = @ + remaining,
                       !.chain[c].off = @ - remaining]
        ELSE drain_chains(
                evbuffer_chain_free(
                    [s EXCEPT !.buf[b].last_with_datap =
                        IF c = At(s, b, p) \/ c = p THEN Null ELSE @], c),
                b, s.chain[c].next, remaining - s.chain[c].off)

evbuffer_drain(s, b, len) ==
    LET old_len == s.buf[b].total_len
        n == Least(len, old_len)
        t == [s EXCEPT !.want[b] = Drop(@, n), !.buf[b].n_del_for_cb = @ + n, !.ret = 0]
    IN  CASE old_len = 0 -> [s EXCEPT !.ret = 0]
          [] old_len > 0 /\ "start" \in s.buf[b].freeze -> [s EXCEPT !.ret = -1]
          [] OTHER ->
                evbuffer_invoke_callbacks_(
                    IF n = old_len
                    THEN ZERO_CHAIN(evbuffer_free_all_chains(t, t.buf[b].first), b)
                    ELSE drain_chains([t EXCEPT !.buf[b].total_len = @ - n], b,
                                      t.buf[b].first, n), b)

(* the one callback of b is told of the bytes added and deleted *)
evbuffer_run_callbacks(s, b) ==
    LET x == s.buf[b]
        orig_size == x.total_len + x.n_del_for_cb - x.n_add_for_cb
        t == [Ensure(s, orig_size = x.seen) EXCEPT
                !.buf[b].n_add_for_cb = 0, !.buf[b].n_del_for_cb = 0,
                !.buf[b].seen = orig_size + x.n_add_for_cb - x.n_del_for_cb]
    IN  CASE x.n_add_for_cb = 0 /\ x.n_del_for_cb = 0 -> s
          [] x.n_add_for_cb > 0 /\ s.does.cb[b] = "drain" -> evbuffer_drain(t, b, x.total_len)
          [] x.n_add_for_cb > 0 /\ s.does.cb[b] = "cross" ->
                LET o == CHOOSE y \in Bufs : y # b
                IN  IF t.buf[o].owned THEN evbuffer_drain(t, o, t.buf[o].total_len) ELSE t
          [] OTHER -> t

(* A mutant: a deferred callback that holds no reference. *)
invoke_callbacks_unheld(s, b) ==
    CASE s.does.cb[b] = "none" ->
            [s EXCEPT !.buf[b].n_add_for_cb = 0, !.buf[b].n_del_for_cb = 0,
                      !.buf[b].seen = s.buf[b].total_len]
      [] s.does.cb[b] = "defer" -> [s EXCEPT !.buf[b].deferred = TRUE]
      [] OTHER -> evbuffer_run_callbacks(s, b)

evbuffer_invoke_callbacks_(s, b) ==
    CASE s.does.cb[b] = "none" ->
            [s EXCEPT !.buf[b].n_add_for_cb = 0, !.buf[b].n_del_for_cb = 0,
                      !.buf[b].seen = s.buf[b].total_len]
      [] s.does.cb[b] = "defer" ->
            IF s.buf[b].deferred THEN s
            ELSE [s EXCEPT !.buf[b].deferred = TRUE, !.buf[b].refcnt = @ + 1]
      [] OTHER -> evbuffer_run_callbacks(s, b)

(* n bytes were added: total_len is for the caller to count *)
Added(s, b, n) == evbuffer_invoke_callbacks_([s EXCEPT !.buf[b].n_add_for_cb = @ + n], b)

-----------------------------------------------------------------------------
(* Making room. *)

evbuffer_chain_should_realign(s, c, datlen) ==
    LET x == s.chain[c]
    IN  /\ x.buffer_len - x.off >= datlen
        /\ x.off < x.buffer_len \div 2
        /\ x.off <= MAX_TO_REALIGN_IN_EXPAND

(* A mutant: the bytes stay where they were. *)
chain_align_in_place(s, c) == [s EXCEPT !.chain[c].misalign = 0]

evbuffer_chain_align(s, c) ==
    [Copy(Ensure(s, ~s.chain[c].immutable), c, 0, Bytes(s, c)) EXCEPT !.chain[c].misalign = 0]

(* the first place after the data with room in it *)
first_space(s, b) ==
    LET p == s.buf[b].last_with_datap
    IN  IF At(s, b, p) # Null /\ CHAIN_SPACE_LEN(s, At(s, b, p)) = 0 THEN At(s, b, p) ELSE p

(* chain is replaced by a larger one *)
resize(s, b, p, c, datlen) ==
    LET x == s.chain[c]
        t == evbuffer_chain_new(s, x.off + datlen)
        n == t.new
        u == Store([Extend(t, n, Bytes(s, c)) EXCEPT
                        !.buf[b].last = IF @ = c THEN n ELSE @, !.chain[n].next = x.next], b, p, n)
    IN  IF n = Null THEN t ELSE evbuffer_chain_free(u, c)

(* The chain with datlen bytes of room is in s.new. *)
evbuffer_expand_singlechain(s, b, datlen) ==
    LET p == first_space(s, b)
        c == At(s, b, p)
        x == s.chain[c]
        next_fits == x.next # Null /\ CHAIN_SPACE_LEN(s, x.next) >= datlen
        worthwhile == ~(CHAIN_SPACE_LEN(s, c) < x.buffer_len \div 8
                        \/ x.off > MAX_TO_COPY_IN_EXPAND)
        ok(t) == Ensure(t, t.new # Null => CHAIN_SPACE_LEN(t, t.new) >= datlen)
    IN  ok(IF c = Null \/ s.chain[c].immutable THEN evbuffer_chain_insert_new(s, b, datlen)
           ELSE CASE CHAIN_SPACE_LEN(s, c) >= datlen -> [s EXCEPT !.new = c]
                  [] CHAIN_SPACE_LEN(s, c) < datlen /\ x.off = 0 ->
                        evbuffer_chain_insert_new(s, b, datlen)
                  [] OTHER ->
                        CASE evbuffer_chain_should_realign(s, c, datlen) ->
                                [evbuffer_chain_align(s, c) EXCEPT !.new = c]
                          [] ~evbuffer_chain_should_realign(s, c, datlen) /\ worthwhile ->
                                resize(s, b, p, c, datlen)
                          [] OTHER -> IF next_fits THEN [s EXCEPT !.new = x.next]
                                      ELSE evbuffer_chain_insert_new(s, b, datlen))

(* Counts the room from c on, and realigns the empty chains it counts. *)
RECURSIVE count_space(_, _, _, _)

count_space(s, c, datlen, n) ==
    LET x == s.chain[c]
        t == IF x.off > 0
             THEN [s EXCEPT !.avail = @ + CHAIN_SPACE_LEN(s, c),
                            !.used = @ + IF CHAIN_SPACE_LEN(s, c) > 0 THEN 1 ELSE 0]
             ELSE [s EXCEPT !.chain[c].misalign = 0, !.avail = @ + x.buffer_len,
                            !.used = @ + 1]
    IN  CASE c = Null -> s
          [] c # Null /\ (t.avail >= datlen \/ t.used = n) -> t
          [] OTHER -> count_space(t, x.next, datlen, n)

(* all the empty chains go, and one that is large enough comes *)
replace_empty(s, b, datlen) ==
    LET c == At(s, b, s.buf[b].last_with_datap)
        rmv_all == s.chain[c].off = 0
        avail == IF rmv_all THEN 0 ELSE CHAIN_SPACE_LEN(s, c)
        t == evbuffer_free_all_chains(s, IF rmv_all THEN c ELSE s.chain[c].next)
        link(u) == IF rmv_all
                   THEN [Ensure(u, c = s.buf[b].first) EXCEPT
                            !.buf[b].first = u.new, !.buf[b].last = u.new,
                            !.buf[b].last_with_datap = Null,
                            !.buf[b].total_len = IF u.new = Null THEN 0 ELSE @]
                   ELSE [u EXCEPT !.chain[c].next = u.new,
                                  !.buf[b].last = IF u.new = Null THEN c ELSE u.new]
    IN  link(evbuffer_chain_new(Ensure(t, datlen >= avail), datlen - avail))

evbuffer_expand_fast_(s, b, datlen, n) ==
    LET c == s.buf[b].last
        done(v) == [v EXCEPT !.ret = IF v.new = Null THEN -1 ELSE 0]
        link(u) == IF u.new = Null THEN u
                   ELSE [u EXCEPT !.chain[c].next = u.new, !.buf[b].last = u.new]
        counted(t) == CASE t.avail >= datlen -> [t EXCEPT !.ret = 0]
                        [] t.avail < datlen /\ t.used < n ->
                                done(link(evbuffer_chain_new(t, datlen - t.avail)))
                        [] OTHER -> done(replace_empty(t, b, datlen))
    IN  IF c = Null \/ s.chain[c].immutable THEN done(evbuffer_chain_insert_new(s, b, datlen))
        ELSE counted(count_space([s EXCEPT !.avail = 0, !.used = 0],
                                 At(s, b, s.buf[b].last_with_datap), datlen, n))

-----------------------------------------------------------------------------
(* Adding bytes.  want is set to what the call is to leave in the buffer. *)

Fails(s) == [s EXCEPT !.ret = -1]

(* d goes to the end of chain c *)
add_here(s, b, c, d) ==
    [Extend(s, c, d) EXCEPT !.buf[b].total_len = @ + Len(d), !.buf[b].n_add_for_cb = @ + Len(d)]

(* the chain is full: what fits of d, and the rest in a new chain *)
add_chain(s, b, c, d) ==
    LET x == s.chain[c]
        remain == CHAIN_SPACE_LEN(s, c)
        double == IF x.buffer_len <= EVBUFFER_CHAIN_MAX_AUTO_SIZE \div 2
                  THEN 2 * x.buffer_len ELSE x.buffer_len
        rest == Drop(d, remain)
        fill(t) == Extend(add_here(t, b, c, SubSeq(d, 1, remain)), t.new, rest)
        with(t) == IF t.new = Null THEN Fails(t)
                   ELSE [Added(evbuffer_chain_insert(fill(t), b, t.new), b, Len(rest))
                            EXCEPT !.ret = 0]
    IN  with(evbuffer_chain_new(s, IF Len(d) > double THEN Len(d) ELSE double))

add_to(s, b, c, d) ==
    CASE ~s.chain[c].immutable /\ CHAIN_SPACE_LEN(s, c) >= Len(d) ->
            [Added(add_here(s, b, c, d), b, 0) EXCEPT !.ret = 0]
      [] ~s.chain[c].immutable /\ CHAIN_SPACE_LEN(s, c) < Len(d)
         /\ evbuffer_chain_should_realign(s, c, Len(d)) ->
            [Added(add_here(evbuffer_chain_align(s, c), b, c, d), b, 0) EXCEPT !.ret = 0]
      [] OTHER -> add_chain(s, b, c, d)

add_bytes(s, b, d) ==
    LET p == At(s, b, s.buf[b].last_with_datap)
        c == IF p = Null THEN s.buf[b].last ELSE p
        to(t) == IF t.new = Null THEN Fails(t) ELSE add_to(t, b, t.new, d)
    IN  IF "end" \in s.buf[b].freeze THEN Fails(s)
        ELSE to(IF c # Null THEN [s EXCEPT !.new = c]
                ELSE evbuffer_chain_insert_new(s, b, Len(d)))

(* What was wanted of a call that fails is unchanged.  The callbacks run   *)
(* before the call is known to succeed, so the wish comes first.           *)
Wish(s, b, q) == [s EXCEPT !.want[b] = q]

Unless(t, s) == IF t.ret = -1 THEN [t EXCEPT !.want = s.want] ELSE t

evbuffer_add(s, b, d) == Unless(add_bytes(Wish(s, b, s.want[b] \o d), b, d), s)

prepend_here(s, b, c, d) ==
    [Copy(s, c, s.chain[c].misalign - Len(d), d) EXCEPT
        !.chain[c].off = @ + Len(d), !.chain[c].misalign = @ - Len(d),
        !.buf[b].total_len = @ + Len(d), !.buf[b].n_add_for_cb = @ + Len(d)]

prepend_chain(s, b, c, d) ==
    LET link(t, n) == [t EXCEPT !.chain[n].misalign = t.chain[n].buffer_len,
                                !.chain[n].next = c, !.buf[b].first = n,
                                !.buf[b].last_with_datap =
                                    IF @ = Null /\ s.chain[c].off > 0 THEN n ELSE @]
        with(t) == IF t.new = Null THEN Fails(t)
                   ELSE [Added(prepend_here(link(t, t.new), b, t.new, d), b, 0) EXCEPT !.ret = 0]
    IN  with(evbuffer_chain_new(s, Len(d)))

prepend_to(s, b, c, d) ==
    LET t == IF s.chain[c].off > 0 THEN s
             ELSE [s EXCEPT !.chain[c].misalign = s.chain[c].buffer_len]
        fits == Least(t.chain[c].misalign, Len(d))
        u == prepend_here(t, b, c, Drop(d, Len(d) - fits))
    IN  CASE s.chain[c].immutable -> prepend_chain(s, b, c, d)
          [] ~s.chain[c].immutable /\ fits = Len(d) -> [Added(u, b, 0) EXCEPT !.ret = 0]
          [] OTHER -> prepend_chain(u, b, c, SubSeq(d, 1, Len(d) - fits))

evbuffer_prepend(s, b, d) ==
    LET t == Wish(s, b, d \o s.want[b])
        to(u) == IF u.new = Null THEN Fails(u) ELSE prepend_to(u, b, u.new, d)
    IN  CASE d = <<>> -> [s EXCEPT !.ret = 0]
          [] d # <<>> /\ "start" \in s.buf[b].freeze -> Fails(s)
          [] OTHER -> Unless(to(IF s.buf[b].first # Null THEN [t EXCEPT !.new = s.buf[b].first]
                                ELSE evbuffer_chain_insert_new(t, b, Len(d))), s)

(* evbuffer_add_reference, and evbuffer_add_file on a buffer that is not   *)
(* EVBUFFER_FLAG_DRAINS_TO_FD: the memory is the caller's or the mapping.  *)
add_external(s, b, d, kind) ==
    LET t == evbuffer_chain_new(s, 0)
        n == t.new
        u == [Wish(t, b, s.want[b] \o d) EXCEPT
                !.chain[n].kind = kind, !.chain[n].immutable = TRUE,
                !.chain[n].buffer_len = Len(d), !.chain[n].off = Len(d), !.chain[n].bytes = d]
    IN  IF n = Null \/ "end" \in s.buf[b].freeze THEN Fails(s)
        ELSE [Added(evbuffer_chain_insert(u, b, n), b, Len(d)) EXCEPT !.ret = 0]

evbuffer_add_reference(s, b, d) == add_external(s, b, d, "reference")

(* materializes: the file can be mapped or read *)
evbuffer_add_file_segment(s, b, d, materializes) ==
    IF materializes THEN add_external(s, b, d, "filesegment") ELSE Fails(s)

(* The segment is freed with the call's own reference, or by the chain; no *)
(* one frees it when it cannot be mapped or read.                          *)
evbuffer_add_file(s, b, d, materializes) ==
    LET t == evbuffer_add_file_segment(s, b, d, materializes)
    IN  IF materializes THEN t ELSE Breaks(t, "leak")

evbuffer_add_iovec(s, b, d, e) ==
    LET add(t, x) == IF t.ret < 0 THEN t ELSE evbuffer_add(t, b, x)
    IN  add(add(evbuffer_expand_fast_(s, b, Len(d) + Len(e), 2), d), e)

RECURSIVE vprintf_into(_, _, _)

vprintf_into(s, b, d) ==
    CASE s.new = Null -> Fails(s)
      [] s.new # Null /\ Len(d) < CHAIN_SPACE_LEN(s, s.new) ->
            [evbuffer_invoke_callbacks_(
                advance_last_with_data(add_here(s, b, s.new, d), b), b) EXCEPT !.ret = 0]
      [] OTHER -> vprintf_into(evbuffer_expand_singlechain(s, b, Len(d) + 1), b, d)

evbuffer_add_vprintf(s, b, d) ==
    IF "end" \in s.buf[b].freeze THEN Fails(s)
    ELSE Unless(vprintf_into(evbuffer_expand_singlechain(
                                Wish(s, b, s.want[b] \o d), b, vprintf_space), b, d), s)

-----------------------------------------------------------------------------
(* Moving bytes from one buffer to another. *)

(* outbuf has no bytes: it takes over inbuf's list *)
COPY_CHAIN(s, out, in) ==
    [s EXCEPT !.buf[out].first = s.buf[in].first, !.buf[out].last = s.buf[in].last,
              !.buf[out].last_with_datap = s.buf[in].last_with_datap,
              !.buf[out].total_len = s.buf[in].total_len]

APPEND_CHAIN(s, out, in) ==
    LET t == evbuffer_free_trailing_empty_chains(s, out)
        p == s.buf[in].last_with_datap
    IN  [Store(t, out, t.at, s.buf[in].first) EXCEPT
            !.buf[out].last_with_datap = IF p = Null THEN t.at ELSE p,
            !.buf[out].last = s.buf[in].last,
            !.buf[out].total_len = @ + s.buf[in].total_len]

PREPEND_CHAIN(s, out, in) ==
    LET p == s.buf[out].last_with_datap
        last == s.buf[in].last
    IN  [s EXCEPT !.chain[last].next = s.buf[out].first,
                  !.buf[out].first = s.buf[in].first,
                  !.buf[out].total_len = @ + s.buf[in].total_len,
                  !.buf[out].last_with_datap =
                        CASE At(s, out, p) = Null -> s.buf[in].last_with_datap
                          [] At(s, out, p) # Null /\ p = Null -> last
                          [] OTHER -> p]

(* evbuffer_add_buffer and evbuffer_prepend_buffer differ in how the lists *)
(* are linked and in the end of outbuf that may be frozen                  *)
move_all(s, out, in, Link(_, _, _), frozen, q) ==
    LET n == s.buf[in].total_len
        t == Wish(Wish(s, in, <<>>), out, q)
        u == IF s.buf[out].total_len = 0
             THEN COPY_CHAIN(evbuffer_free_all_chains(t, t.buf[out].first), out, in)
             ELSE Link(t, out, in)
        v == [ZERO_CHAIN(u, in) EXCEPT !.buf[in].n_del_for_cb = @ + n,
                                       !.buf[out].n_add_for_cb = @ + n]
    IN  CASE n = 0 -> [s EXCEPT !.ret = 0]
          [] n > 0 /\ (frozen \in s.buf[out].freeze \/ "start" \in s.buf[in].freeze) -> Fails(s)
          [] OTHER -> [evbuffer_invoke_callbacks_(evbuffer_invoke_callbacks_(v, in), out)
                            EXCEPT !.ret = 0]

evbuffer_add_buffer(s, out, in) ==
    move_all(s, out, in, APPEND_CHAIN, "end", s.want[out] \o s.want[in])

evbuffer_prepend_buffer(s, out, in) ==
    move_all(s, out, in, PREPEND_CHAIN, "start", s.want[in] \o s.want[out])

(* One chain of in is referred to by a new chain of out. *)
refer(s, out, in, c) ==
    LET t == evbuffer_chain_new(s, 0)
        n == t.new
        x == s.chain[c]
        u == [t EXCEPT !.buf[in].refcnt = @ + 1, !.chain[c].refcnt = @ + 1,
                       !.chain[c].immutable = TRUE,
                       !.chain[n] = [@ EXCEPT !.kind = "multicast", !.immutable = TRUE,
                            !.source = in, !.parent = c, !.mem = x.mem, !.bytes = <<>>,
                            !.buffer_len = x.buffer_len, !.misalign = x.misalign,
                            !.off = x.off]]
    IN  IF x.off = 0 \/ s.new = Null THEN s
        ELSE IF n = Null THEN t ELSE evbuffer_chain_insert(u, out, n)

APPEND_CHAIN_MULTICAST(s, out, in) ==
    Over(LAMBDA t, c : refer(t, out, in, c), List(s, in), [s EXCEPT !.new = 1])

evbuffer_add_buffer_reference(s, out, in) ==
    LET n == s.buf[in].total_len
        t == Wish(s, out, s.want[out] \o s.want[in])
        u == IF s.buf[out].total_len = 0 THEN evbuffer_free_all_chains(t, s.buf[out].first)
             ELSE t
        bad == \E i \in 1..Len(List(s, in)) :
                    s.chain[List(s, in)[i]].kind \in {"filesegment", "multicast"}
    IN  CASE n = 0 -> [s EXCEPT !.ret = 0]
          [] n > 0 /\ ("end" \in s.buf[out].freeze \/ bad) -> Fails(s)
          [] OTHER -> [Added(APPEND_CHAIN_MULTICAST(u, out, in), out, n) EXCEPT !.ret = 0]

(* src's chains up to the first one that holds more than datlen bytes:     *)
(* what is left of datlen is in s.left, that chain in s.at, the one before *)
(* it in s.new                                                             *)
RECURSIVE whole_chains(_, _, _, _, _)

whole_chains(s, src, c, previous, datlen) ==
    IF s.chain[c].off > datlen THEN [s EXCEPT !.left = datlen, !.at = c, !.new = previous]
    ELSE whole_chains(
            [Ensure(s, c # At(s, src, s.buf[src].last_with_datap)) EXCEPT
                !.buf[src].last_with_datap = IF @ = c THEN Null ELSE @],
            src, s.chain[c].next, c, datlen - s.chain[c].off)

(* the chains of src before c are linked to dst, nread bytes *)
move_chains(s, src, dst, c, previous, nread) ==
    LET t == evbuffer_free_trailing_empty_chains(s, dst)
        u == Store(t, dst, IF t.buf[dst].first = Null THEN Null ELSE t.at, s.buf[src].first)
    IN  IF c = s.buf[src].first THEN s
        ELSE [advance_last_with_data(
                [u EXCEPT !.buf[dst].last = previous, !.chain[previous].next = Null,
                          !.buf[src].first = c], dst)
                EXCEPT !.buf[dst].total_len = @ + nread, !.buf[dst].n_add_for_cb = @ + nread]

move_some(s, src, dst, n) ==
    LET t == whole_chains(s, src, s.buf[src].first, s.buf[src].first, n)
        c == t.at
        u == move_chains(t, src, dst, c, t.new, n - t.left)
        rest(v) == [v EXCEPT !.chain[c].misalign = @ + t.left, !.chain[c].off = @ - t.left,
                             !.buf[src].total_len = @ - n, !.buf[src].n_del_for_cb = @ + n]
        tell(v) == IF ~v.chain[c].live THEN Breaks(v, "wild")
                   ELSE [evbuffer_invoke_callbacks_(evbuffer_invoke_callbacks_(rest(v), dst), src)
                            EXCEPT !.ret = n]
    IN  tell(add_bytes(u, dst, SubSeq(Bytes(u, c), 1, t.left)))

evbuffer_remove_buffer(s, src, dst, datlen) ==
    LET t == Wish(Wish(s, src, Drop(s.want[src], datlen)), dst,
                  s.want[dst] \o SubSeq(s.want[src], 1, datlen))
    IN  CASE datlen = 0 -> [s EXCEPT !.ret = 0]
          [] datlen > 0 /\ ("end" \in s.buf[dst].freeze \/ "start" \in s.buf[src].freeze) ->
                Fails(s)
          [] OTHER -> IF datlen >= s.buf[src].total_len THEN evbuffer_add_buffer(s, dst, src)
                      ELSE move_some(t, src, dst, datlen)

-----------------------------------------------------------------------------
(* Pulling up: the first size bytes are to be in one chain. *)

(* Copies need bytes from c on to at in tmp, and frees the chains used up. *)
RECURSIVE pull(_, _, _, _, _, _, _)

pull(s, b, tmp, at, c, need, last_with_data) ==
    LET x == s.chain[c]
        n == Least(x.off, need)
        t == Copy(s, tmp, at, SubSeq(Bytes(s, c), 1, n))
    IN  CASE c = Null -> [s EXCEPT !.buf[b].last = tmp, !.chain[tmp].next = Null]
          [] c # Null /\ need < x.off ->
                [t EXCEPT !.chain[c].misalign = @ + n, !.chain[c].off = @ - n,
                          !.chain[tmp].next = c]
          [] OTHER ->
                pull(evbuffer_chain_free(
                        [t EXCEPT !.gone = @ \cup (IF c = last_with_data THEN {"data"} ELSE {})
                                     \cup (IF c = s.buf[b].last_with_datap THEN {"datap"} ELSE {})],
                        c), b, tmp, at + n, x.next, need - n, last_with_data)

pulled(s, b) ==
    LET f == s.chain[s.buf[b].first]
    IN  CASE "data" \in s.gone -> [s EXCEPT !.buf[b].last_with_datap = Null]
          [] s.gone = {"datap"} ->
                [s EXCEPT !.buf[b].last_with_datap =
                    IF f.next # Null /\ s.chain[f.next].off > 0 THEN s.buf[b].first ELSE Null]
          [] OTHER -> s

evbuffer_pullup(s, b, size) ==
    LET c == s.buf[b].first
        x == s.chain[c]
        t == [s EXCEPT !.gone = {}, !.chain[c].off = size]
        u == evbuffer_chain_new([s EXCEPT !.gone = {}], size)
        v == [u EXCEPT !.chain[u.new].off = size, !.buf[b].first = u.new]
        lwd(r) == At(r, b, r.buf[b].last_with_datap)
    IN  CASE size = 0 \/ size > s.buf[b].total_len -> Fails(s)
          [] size > 0 /\ size <= s.buf[b].total_len /\ x.off >= size -> [s EXCEPT !.ret = 0]
          [] OTHER ->
                CASE x.buffer_len - x.misalign >= size ->
                        [pulled(pull(t, b, c, x.misalign + x.off, x.next, size - x.off, lwd(t)), b)
                            EXCEPT !.ret = 0]
                  [] x.buffer_len - x.misalign < size /\ u.new = Null -> Fails(u)
                  [] OTHER -> [pulled(pull(v, b, u.new, 0, c, size, lwd(v)), b) EXCEPT !.ret = 0]

-----------------------------------------------------------------------------
(* Reserving and committing space, reading and writing. *)

(* up to n places for howmuch bytes: chains with the room offered in them *)
evbuffer_read_setup_vecs_(s, b, howmuch, n, exact) ==
    LET cs == Walk(s, At(s, b, first_space(s, b)))
        room(i) == CHAIN_SPACE_LEN(s, cs[i])
        before[i \in 1..(Len(cs) + 1)] == IF i = 1 THEN 0 ELSE before[i - 1] + room(i - 1)
        k == Cardinality({i \in 1..Least(n, Len(cs)) : before[i] < howmuch})
    IN  [i \in 1..k |-> [c |-> cs[i],
                         len |-> IF exact THEN Least(room(i), howmuch - before[i]) ELSE room(i)]]

(* The vectors are in s.vec, none when it fails. *)
evbuffer_reserve_space(s, b, size, n_vecs) ==
    LET one(t) == [t EXCEPT !.vec = IF t.new = Null THEN <<>>
                                    ELSE <<[c |-> t.new, len |-> CHAIN_SPACE_LEN(t, t.new)]>>]
        many(t) == [t EXCEPT !.vec = IF t.ret < 0 THEN <<>>
                                     ELSE evbuffer_read_setup_vecs_(t, b, size, n_vecs, FALSE)]
    IN  CASE "end" \in s.buf[b].freeze -> [s EXCEPT !.vec = <<>>]
          [] "end" \notin s.buf[b].freeze /\ n_vecs = 1 ->
                one(evbuffer_expand_singlechain(s, b, size))
          [] OTHER -> many(evbuffer_expand_fast_(s, b, size, n_vecs))

(* the caller puts parts[i] into the i-th vector and commits them *)
commit_vecs(s, b, parts) ==
    LET cs == Walk(s, At(s, b, first_space(s, b)))
        go[i \in 0..Len(parts)] ==
            IF i = 0 THEN s
            ELSE LET t == Extend(go[i - 1], cs[i], parts[i])
                 IN  [t EXCEPT !.buf[b].last_with_datap =
                        CASE parts[i] = <<>> -> @
                          [] parts[i] # <<>> /\ i = 1 -> first_space(s, b)
                          [] OTHER -> cs[i - 1]]
    IN  IF /\ At(s, b, s.buf[b].last_with_datap) # Null
           /\ Len(parts) <= Len(cs)
           /\ \A i \in 1..Len(parts) :
                s.vec[i].c = cs[i] /\ Len(parts[i]) <= CHAIN_SPACE_LEN(s, cs[i])
        THEN [go[Len(parts)] EXCEPT !.ret = 0] ELSE Fails(s)

evbuffer_commit_space(s, b, parts) ==
    LET d == Concat(parts)
        last == s.buf[b].last
        one == Extend(s, last, d)
        okay(t) == [Added([t EXCEPT !.want[b] = @ \o d, !.buf[b].total_len = @ + Len(d)],
                          b, Len(d)) EXCEPT !.ret = 0]
        whether(t) == IF t.ret < 0 THEN t ELSE okay(t)
    IN  CASE "end" \in s.buf[b].freeze -> Fails(s)
          [] "end" \notin s.buf[b].freeze /\ parts = <<>> -> [s EXCEPT !.ret = 0]
          [] OTHER ->
                CASE Len(parts) = 1 /\ last # Null /\ s.vec[1].c = last ->
                        IF Len(d) > CHAIN_SPACE_LEN(s, last) THEN Fails(s)
                        ELSE okay(IF d = <<>> THEN one ELSE advance_last_with_data(one, b))
                  [] OTHER -> whether(commit_vecs(s, b, parts))

(* d arrives for a read of howmuch bytes; the chains take it as it comes *)
RECURSIVE read_into(_, _, _, _, _)

read_into(s, b, p, d, nvecs) ==
    LET c == At(s, b, p)
        space == CHAIN_SPACE_LEN(s, c)
    IN  CASE nvecs = 0 -> s
          [] nvecs > 0 /\ space < Len(d) ->
                read_into(Extend(s, c, SubSeq(d, 1, space)), b, c, Drop(d, space), nvecs - 1)
          [] OTHER -> [Extend(s, c, d) EXCEPT !.buf[b].last_with_datap = p]

read_vecs(t, b, howmuch, d) ==
    LET vecs == evbuffer_read_setup_vecs_(t, b, howmuch, NUM_READ_IOVEC, TRUE)
        room == FoldLeft(LAMBDA n, v : n + v.len, 0, vecs)
        u == read_into(Wish(t, b, t.want[b] \o d), b, first_space(t, b), d, Len(vecs))
    IN  CASE t.ret < 0 -> t
          [] t.ret >= 0 /\ room # howmuch -> Breaks(t, "assert")
          [] OTHER -> IF d = <<>> THEN [t EXCEPT !.ret = 0]
                      ELSE [Added([u EXCEPT !.buf[b].total_len = @ + Len(d)], b, Len(d))
                                EXCEPT !.ret = Len(d)]

evbuffer_read(s, b, howmuch, d) ==
    IF "end" \in s.buf[b].freeze THEN Fails(s)
    ELSE read_vecs(evbuffer_expand_fast_(s, b, howmuch, NUM_READ_IOVEC), b, howmuch, d)

(* the bytes given to writev *)
RECURSIVE write_iovec(_, _, _)

write_iovec(s, c, howmuch) ==
    CASE c = Null \/ howmuch = 0 -> <<>>
      [] c # Null /\ howmuch > 0 /\ howmuch >= s.chain[c].off ->
            Bytes(s, c) \o write_iovec(s, s.chain[c].next, howmuch - s.chain[c].off)
      [] OTHER -> SubSeq(Bytes(s, c), 1, howmuch)

(* bytes that go out or are looked at are to be those of the queue *)
Sees(s, b, d) == IF IsPrefix(d, s.want[b]) THEN s ELSE Breaks(s, "bytes")

(* n of the bytes are taken by the socket *)
evbuffer_write_atmost(s, b, howmuch, n) ==
    LET d == write_iovec(s, s.buf[b].first, Least(howmuch, s.buf[b].total_len))
    IN  IF "start" \in s.buf[b].freeze THEN Fails(s)
        ELSE evbuffer_drain(Sees(s, b, SubSeq(d, 1, Least(n, Len(d)))), b, Least(n, Len(d)))

-----------------------------------------------------------------------------
(* Looking at bytes: an evbuffer_ptr is a position with its chain and the  *)
(* place in it.                                                            *)

RECURSIVE copyout(_, _, _, _), ptr_walk(_, _, _, _), ptr_memcmp(_, _, _, _),
          search_from(_, _, _, _), find_from(_, _, _), span(_, _, _)

NotFound == [pos |-> -1, c |-> Null, i |-> 0]

Start(s, b) == [pos |-> 0, c |-> s.buf[b].first, i |-> 0]

copyout(s, c, i, n) ==
    CASE n = 0 -> <<>>
      [] n > 0 /\ n >= s.chain[c].off - i ->
            Drop(Bytes(s, c), i) \o copyout(s, s.chain[c].next, 0, n - (s.chain[c].off - i))
      [] OTHER -> SubSeq(Bytes(s, c), i + 1, i + n)

evbuffer_copyout_from(s, b, ptr, datlen) ==
    copyout(s, ptr.c, ptr.i, Least(datlen, s.buf[b].total_len - ptr.pos))

evbuffer_remove(s, b, datlen) ==
    LET d == evbuffer_copyout_from(s, b, Start(s, b), datlen)
    IN  IF d = <<>> THEN [s EXCEPT !.ret = 0]
        ELSE IF "start" \in s.buf[b].freeze THEN Fails(s)
        ELSE evbuffer_drain(Sees(s, b, d), b, Len(d))

ptr_walk(s, c, position, left) ==
    CASE c = Null -> IF left = 0 THEN [c |-> Null, i |-> 0] ELSE [c |-> Null, i |-> -1]
      [] c # Null /\ position + left >= s.chain[c].off ->
            ptr_walk(s, s.chain[c].next, 0, left - (s.chain[c].off - position))
      [] OTHER -> [c |-> c, i |-> position + left]

(* how: EVBUFFER_PTR_SET from the start, EVBUFFER_PTR_ADD from ptr *)
evbuffer_ptr_set(s, b, ptr, n, how) ==
    LET from == IF how = "SET" THEN Start(s, b) ELSE ptr
        w == ptr_walk(s, from.c, from.i, n)
    IN  IF from.pos < 0 \/ w.i < 0 THEN NotFound
        ELSE [pos |-> from.pos + n, c |-> w.c, i |-> w.i]

evbuffer_ptr_subtract(s, b, ptr, n) ==
    CASE ptr.pos < 0 \/ n > ptr.pos -> NotFound
      [] ptr.pos >= n /\ ptr.c # Null /\ n <= ptr.i ->
            [ptr EXCEPT !.pos = @ - n, !.i = @ - n]
      [] OTHER -> evbuffer_ptr_set(s, b, ptr, ptr.pos - n, "SET")

(* is what at place i of chain c? *)
ptr_memcmp(s, c, i, what) ==
    LET n == Least(Len(what), s.chain[c].off - i)
    IN  what = <<>> \/ c = Null
        \/ (SubSeq(Bytes(s, c), i + 1, i + n) = SubSeq(what, 1, n)
            /\ ptr_memcmp(s, s.chain[c].next, 0, Drop(what, n)))

(* the first place from ptr on where one of chars is: evbuffer_strchr,     *)
(* evbuffer_find_eol_char and the memchr of evbuffer_search                *)
find_from(s, ptr, chars) ==
    LET bs == Bytes(s, ptr.c)
        hits == {j \in (ptr.i + 1)..Len(bs) : bs[j] \in chars}
        j == CHOOSE x \in hits : \A y \in hits : x <= y
    IN  CASE ptr.c = Null -> NotFound
          [] ptr.c # Null /\ hits # {} -> [ptr EXCEPT !.pos = @ + (j - 1 - ptr.i), !.i = j - 1]
          [] OTHER -> find_from(s, [pos |-> ptr.pos + Len(bs) - ptr.i,
                                    c |-> s.chain[ptr.c].next, i |-> 0], chars)

search_from(s, b, ptr, what) ==
    LET hit == find_from(s, ptr, {what[1]})
        on == IF hit.i + 1 = s.chain[hit.c].off
              THEN [pos |-> hit.pos + 1, c |-> s.chain[hit.c].next, i |-> 0]
              ELSE [hit EXCEPT !.pos = @ + 1, !.i = @ + 1]
    IN  CASE hit.pos < 0 -> NotFound
          [] hit.pos >= 0 /\ hit.pos + Len(what) <= s.buf[b].total_len
             /\ ptr_memcmp(s, hit.c, hit.i, what) -> hit
          [] OTHER -> search_from(s, b, on, what)

(* A mutant: a match may begin before end and reach past it. *)
search_range_past(s, b, what, ptr, end) ==
    LET hit == search_from(s, b, ptr, what)
    IN  IF what = <<>> THEN ptr ELSE IF hit.pos >= end THEN NotFound ELSE hit

evbuffer_search_range(s, b, what, ptr, end) ==
    LET hit == search_from(s, b, ptr, what)
    IN  IF what = <<>> THEN ptr
        ELSE IF hit.pos >= 0 /\ hit.pos + Len(what) > end THEN NotFound ELSE hit

span(s, ptr, chars) ==
    LET bs == Bytes(s, ptr.c)
    IN  CASE ptr.c = Null -> 0
          [] ptr.c # Null /\ ptr.i = Len(bs) ->
                span(s, [ptr EXCEPT !.c = s.chain[ptr.c].next, !.i = 0], chars)
          [] OTHER -> IF bs[ptr.i + 1] \in chars
                      THEN 1 + span(s, [ptr EXCEPT !.i = @ + 1], chars) ELSE 0

(* the end of the first line and the bytes it takes *)
evbuffer_search_eol(s, b, start, style) ==
    LET eol == find_from(s, start, {"CR", "LF"})
        lf == find_from(s, start, {"LF"})
        cr == evbuffer_ptr_subtract(s, b, lf, 1)
        strict == search_from(s, b, start, <<"CR", "LF">>)
    IN  CASE style = "ANY" -> [at |-> eol.pos, len |-> IF eol.pos < 0 THEN 0
                                                       ELSE span(s, eol, {"CR", "LF"})]
          [] style = "CRLF_STRICT" -> [at |-> strict.pos, len |-> IF strict.pos < 0 THEN 0 ELSE 2]
          [] style = "LF" -> [at |-> lf.pos, len |-> IF lf.pos < 0 THEN 0 ELSE 1]
          [] style = "CRLF" ->
                IF lf.pos >= 0 /\ lf.pos # start.pos /\ cr.pos >= 0
                   /\ Bytes(s, cr.c)[cr.i + 1] = "CR"
                THEN [at |-> cr.pos, len |-> 2]
                ELSE [at |-> lf.pos, len |-> IF lf.pos < 0 THEN 0 ELSE 1]

evbuffer_readln(s, b, style) ==
    LET take(eol) == IF eol.at < 0 THEN Fails(s)
                     ELSE evbuffer_drain(evbuffer_remove(s, b, eol.at), b, eol.len)
    IN  IF "start" \in s.buf[b].freeze THEN Fails(s)
        ELSE take(evbuffer_search_eol(s, b, Start(s, b), style))

(* how many iovecs of n_vec are filled, and with what *)
evbuffer_peek(s, b, len, n_vec) ==
    LET cs == List(s, b)
        before[i \in 1..(Len(cs) + 1)] ==
            IF i = 1 THEN 0 ELSE before[i - 1] + s.chain[cs[i - 1]].off
        k == Cardinality({i \in 1..Len(cs) : before[i] < len})
    IN  SubSeq(cs, 1, Least(n_vec, k))

-----------------------------------------------------------------------------
(* The calls of the program. *)

(* new, at, ret, vec, ...: results of the functions above *)
State == [does |-> does, buf |-> buf, chain |-> chain, want |-> want, broken |-> broken,
          new |-> Null, at |-> Null, left |-> 0, ret |-> 0, vec |-> <<>>, gone |-> {},
          avail |-> 0, used |-> 0]

(* Memory no chain points at does not matter. *)
Forget(s) ==
    [c \in Chains |-> [s.chain[c] EXCEPT !.bytes =
        [i \in 1..Len(@) |->
            IF \E x \in Chains : /\ s.chain[x].live /\ s.chain[x].mem = c
                                 /\ i \in (s.chain[x].misalign + 1)..
                                          (s.chain[x].misalign + s.chain[x].off)
            THEN @[i] ELSE "?"]]]

(* The numbers of the chains mean nothing: they are kept in list order. *)
Renumber(s) ==
    LET listed == Over(LAMBDA q, b : q \o List(s, b), SetToSeq(Bufs), <<>>)
        others(live) == SelectSeq([c \in Chains |-> c], LAMBDA c :
                            c \notin Range(listed) /\ s.chain[c].live = live)
        all == listed \o others(TRUE) \o others(FALSE)
        new(c) == IF c = Null THEN Null ELSE CHOOSE i \in Chains : all[i] = c
        ch == Forget(s)
    IN  IF Len(all) # MaxChains THEN s
        ELSE [s EXCEPT
            !.buf = [b \in Bufs |-> [@[b] EXCEPT
                        !.first = new(@), !.last = new(@), !.last_with_datap = new(@)]],
            !.chain = [c \in Chains |-> [ch[all[c]] EXCEPT
                        !.next = new(@), !.mem = new(@), !.parent = new(@)]]]

Becomes(s) ==
    LET t == Renumber(s)
    IN  /\ buf' = t.buf
        /\ chain' = t.chain
        /\ want' = t.want
        /\ broken' = t.broken
        /\ UNCHANGED does

Init ==
    /\ does \in Programs
    /\ buf = [b \in Bufs |-> NewBuffer]
    /\ chain = [c \in Chains |-> NoChain]
    /\ want = [b \in Bufs |-> <<>>]
    /\ broken = "no"

(* a deferred callback is behind by a bounded number of bytes *)
Call(f, b) ==
    /\ broken = "no" /\ f \in does.calls[b] /\ buf[b].owned
    /\ \A x \in Bufs : buf[x].n_add_for_cb <= does.max /\ buf[x].n_del_for_cb <= does.max

Fits(b, n) == Len(want[b]) + n <= does.max

(* Is there memory for n chains, or may a call run out of it half way? *)
Memory(n) == Cardinality(Unused(State)) >= n \/ "oom" \in May

Add(b) == Call("add", b) /\ \E d \in does.data : Fits(b, Len(d)) /\ Becomes(evbuffer_add(State, b, d))

Prepend(b) ==
    /\ Call("prepend", b) /\ Memory(2)
    /\ \E d \in does.data : Fits(b, Len(d)) /\ Becomes(evbuffer_prepend(State, b, d))

AddReference(b) ==
    /\ Call("reference", b)
    /\ \E d \in does.data : Fits(b, Len(d)) /\ Becomes(evbuffer_add_reference(State, b, d))

AddFile(b) ==
    /\ Call("file", b)
    /\ \E d \in does.data : /\ Fits(b, Len(d))
                       /\ Becomes(evbuffer_add_file(State, b, d, "unmapped" \notin May))

AddIovec(b) ==
    /\ Call("iovec", b)
    /\ \E d, e \in does.data :
          Fits(b, Len(d) + Len(e)) /\ Becomes(evbuffer_add_iovec(State, b, d, e))

AddPrintf(b) ==
    /\ Call("printf", b)
    /\ \E d \in does.data : Fits(b, Len(d)) /\ Becomes(evbuffer_add_vprintf(State, b, d))

Drain(b) == Call("drain", b) /\ \E n \in 1..does.max : Becomes(evbuffer_drain(State, b, n))

RemoveBytes(b) == Call("remove", b) /\ \E n \in 1..does.max : Becomes(evbuffer_remove(State, b, n))

Readln(b) ==
    Call("readln", b) /\ \E style \in {"ANY", "CRLF"} : Becomes(evbuffer_readln(State, b, style))

AddBuffer(b, in) ==
    /\ Call("move", b) /\ b # in /\ buf[in].owned /\ Fits(b, Len(want[in]))
    /\ Becomes(evbuffer_add_buffer(State, b, in))

PrependBuffer(b, in) ==
    /\ Call("move", b) /\ b # in /\ buf[in].owned /\ Fits(b, Len(want[in]))
    /\ Becomes(evbuffer_prepend_buffer(State, b, in))

RemoveBuffer(b, dst) ==
    /\ Call("move", b) /\ b # dst /\ buf[dst].owned /\ Memory(1)
    /\ does.cb[dst] = "cross" => "cross" \in May
    /\ \E n \in 1..does.max : /\ Fits(dst, Least(n, Len(want[b])))
                               /\ Becomes(evbuffer_remove_buffer(State, b, dst, n))

AddBufferReference(b, in) ==
    /\ Call("multicast", b) /\ b # in /\ buf[in].owned /\ Fits(b, Len(want[in]))
    /\ Memory(Len(List(State, in)))
    /\ buf[b].total_len = 0 /\ buf[b].first # Null => "expanded" \in May
    /\ Becomes(evbuffer_add_buffer_reference(State, b, in))

(* The bytes of a chain that others refer to, or that refers to another. *)
Shared(c) == chain[c].refcnt > 1 \/ chain[c].kind = "multicast"

Pullup(b) ==
    /\ Call("pullup", b)
    /\ \E n \in 1..does.max :
          /\ buf[b].first # Null /\ Shared(buf[b].first) => "shared" \in May
          /\ LET s == evbuffer_pullup(State, b, n)
             IN  Becomes(IF s.ret < 0 THEN s
                         ELSE Sees(s, b, SubSeq(Bytes(s, s.buf[b].first), 1, n)))

Expand(b) ==
    Call("expand", b) /\ \E n \in 1..does.max : Becomes(evbuffer_expand_singlechain(State, b, n))

(* The caller writes d into the vectors of s, k bytes into the first of two. *)
Commit(s, b, d, k) ==
    LET parts == IF Len(s.vec) < 2 THEN SubSeq(<<d>>, 1, Len(s.vec))
                 ELSE <<SubSeq(d, 1, k), Drop(d, k)>>
    IN  /\ Fits(b, Len(d)) /\ k <= Len(d)
        /\ \A i \in 1..Len(parts) : Len(parts[i]) <= s.vec[i].len
        /\ Becomes(evbuffer_commit_space(s, b, parts))

ReserveCommit(b) ==
    /\ Call("reserve", b)
    /\ \E n_vecs \in 1..2, d \in does.data, k \in 0..does.max :
          Commit(evbuffer_reserve_space(State, b, Len(d), n_vecs), b, d, k)

Read(b) ==
    /\ Call("read", b)
    /\ \E d \in does.data, n \in 1..does.max :
          Len(d) <= n /\ Fits(b, Len(d)) /\ Becomes(evbuffer_read(State, b, n, d))

Write(b) ==
    /\ Call("write", b)
    /\ \E n \in 1..does.max : Becomes(evbuffer_write_atmost(State, b, does.max, n))

Freeze(b) ==
    /\ Call("freeze", b)
    /\ \E f \in SUBSET {"start", "end"} : Becomes([State EXCEPT !.buf[b].freeze = f])

evbuffer_free(b) ==
    /\ Call("free", b)
    /\ Becomes(evbuffer_decref_and_unlock_(
            [State EXCEPT !.buf[b].owned = FALSE, !.want[b] = <<>>], b))

evbuffer_deferred_callback(b) ==
    /\ broken = "no" /\ buf[b].deferred
    /\ Becomes(evbuffer_decref_and_unlock_(
            evbuffer_run_callbacks([State EXCEPT !.buf[b].deferred = FALSE], b), b))

Next ==
    \E b \in Bufs :
        \/ Add(b) \/ Prepend(b) \/ AddReference(b) \/ AddFile(b) \/ AddIovec(b) \/ AddPrintf(b)
        \/ Drain(b) \/ RemoveBytes(b) \/ Readln(b) \/ Pullup(b) \/ Expand(b)
        \/ ReserveCommit(b) \/ Read(b) \/ Write(b) \/ Freeze(b)
        \/ evbuffer_free(b) \/ evbuffer_deferred_callback(b)
        \/ \E c \in Bufs : AddBuffer(b, c) \/ PrependBuffer(b, c) \/ RemoveBuffer(b, c)
                           \/ AddBufferReference(b, c)

Spec == Init /\ [][Next]_vars

-----------------------------------------------------------------------------
(* Properties *)

(* No EVUTIL_ASSERT of buffer.c fails, no callback is told other numbers   *)
(* than the change since it was last told, no freed chain is used, no      *)
(* memory is written past its end, and no file segment is left behind.     *)
NothingBreaks == broken \in {"no", "bytes"}

(* A buffer is a queue of bytes: whatever chains hold them, and whichever  *)
(* of them share memory, what is in it is what the calls put there, and    *)
(* what a call copies out, writes or pulls up is the front of it.          *)
HoldsWhatWasPut ==
    broken = "no" \/ broken = "bytes" =>
        broken = "no" /\ \A b \in Bufs : buf[b].owned => Content(State, b) = want[b]

(* The shape every function relies on: last is the end of the list,        *)
(* last_with_datap points to the last chain that has bytes, or to first,   *)
(* a chain's bytes are inside its memory, and total_len, off and what      *)
(* callbacks were told and are still to be told add up.                    *)
ListIsSound ==
    broken = "no" => \A b \in Bufs : buf[b].live =>
        LET cs == List(State, b)
            full == {i \in 1..Len(cs) : chain[cs[i]].off > 0}
            p == buf[b].last_with_datap
        IN  /\ IsInjective(cs) /\ \A i \in 1..Len(cs) : chain[cs[i]].live
            /\ buf[b].last = IF cs = <<>> THEN Null ELSE Last(cs)
            /\ IF full = {} THEN p = Null
               ELSE At(State, b, p) = cs[CHOOSE i \in full : \A j \in full : j <= i]
                    /\ (p = Null \/ p \in Range(cs))
            /\ \A i \in 1..Len(cs) :
                  chain[cs[i]].misalign + chain[cs[i]].off <= chain[cs[i]].buffer_len
            /\ buf[b].total_len = Len(Content(State, b))
            /\ buf[b].total_len = buf[b].seen + buf[b].n_add_for_cb - buf[b].n_del_for_cb

(* Every reference is counted and every count is a reference: a chain      *)
(* lives as long as a list or a multicast chain has it, a buffer as long   *)
(* as its owner, a multicast chain or a deferred callback needs it, so     *)
(* that nothing leaks when all buffers are freed.                          *)
RefcountsAgree ==
    broken = "no" =>
        /\ \A c \in Chains : chain[c].refcnt =
              Cardinality({b \in Bufs : buf[b].live /\ c \in Range(List(State, b))})
              + Cardinality({x \in Chains : chain[x].live /\ chain[x].parent = c})
        /\ \A b \in Bufs : buf[b].refcnt =
              (IF buf[b].owned THEN 1 ELSE 0) + (IF buf[b].deferred THEN 1 ELSE 0)
              + Cardinality({x \in Chains : chain[x].live /\ chain[x].source = b})
        /\ \A c \in Chains : chain[c].live <=> chain[c].refcnt > 0

(* The lists and the counts of references are right after every call. *)
ChainsSound == ListIsSound /\ RefcountsAgree

(* the first place of q with P, from 0 as the code counts, or -1 *)
FirstOf(q, P(_)) ==
    LET hits == {i \in 1..Len(q) : P(i)}
    IN  IF hits = {} THEN -1 ELSE (CHOOSE i \in hits : \A j \in hits : i <= j) - 1

(* Searching, copying and peeking walk along the chains and yet find what  *)
(* they would find in one piece of memory: lines split over chains, and    *)
(* chains without bytes, make no difference.                               *)
ReadersAgree ==
    broken = "no" => \A b \in Bufs : buf[b].owned =>
        LET q == want[b]
            from(n) == evbuffer_ptr_set(State, b, NotFound, n, "SET")
            eol(style) == evbuffer_search_eol(State, b, Start(State, b), style)
            run == {i \in 1..Len(q) : \A j \in (eol("ANY").at + 1)..i : q[j] \in {"CR", "LF"}}
            lf == FirstOf(q, LAMBDA i : q[i] = "LF")
        IN  /\ \A n \in 0..Len(q) : from(n).pos = n
                  /\ \A m \in 0..(Len(q) - n) :
                        /\ evbuffer_copyout_from(State, b, from(n), m) = SubSeq(q, n + 1, n + m)
                        /\ evbuffer_ptr_set(State, b, from(n), m, "ADD") = from(n + m)
            /\ from(Len(q) + 1) = NotFound
            /\ \A d \in does.data, n \in 0..Len(q) : d # <<>> =>
                  evbuffer_search_range(State, b, d, Start(State, b), n).pos =
                  FirstOf(SubSeq(q, 1, n), LAMBDA i : i + Len(d) - 1 <= n
                                                      /\ SubSeq(q, i, i + Len(d) - 1) = d)
            /\ eol("ANY").at = FirstOf(q, LAMBDA i : q[i] \in {"CR", "LF"})
            /\ eol("ANY").at >= 0 =>
                  eol("ANY").len = Cardinality({i \in run : i > eol("ANY").at})
            /\ eol("CRLF") = [at |-> IF lf > 0 /\ q[lf] = "CR" THEN lf - 1 ELSE lf,
                              len |-> CASE lf < 0 -> 0
                                        [] lf > 0 /\ q[lf] = "CR" -> 2 [] OTHER -> 1]
            /\ \A n \in 1..Len(q) :
                  IsPrefix(SubSeq(q, 1, n),
                           Held(State, evbuffer_peek(State, b, n, MaxChains)))

=============================================================================
