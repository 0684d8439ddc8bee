------------------------------ MODULE Tagging ------------------------------
(***************************************************************************)
(* The tagged values of event_tagging.c, which carry RPCs.  A buffer is a  *)
(* sequence of bytes.  An integer is the sequence of its nibbles, the      *)
(* least first and without leading zeros, so that 64 bits fit; a tag is    *)
(* the sequence of its groups of seven bits, likewise.                     *)
(***************************************************************************)
EXTENDS Integers, Sequences

Drain(buf, n) == SubSeq(buf, n + 1, Len(buf))
Take(buf, n) == SubSeq(buf, 1, n)

\* Without the zeros at the high end.
Trim(digits) ==
    LET top == {i \in 1..Len(digits) : digits[i] # 0}
    IN  IF top = {} THEN <<>> ELSE SubSeq(digits, 1, CHOOSE i \in top : \A j \in top : j <= i)
Nibbles(n) == LET d[k \in 0..n] == IF k = 0 THEN <<>> ELSE <<k % 16>> \o d[k \div 16] IN d[n]
\* The value, as far as a length can use it: longer ones are longer than any buffer.
Huge == 1000000
Value(digits) ==
    LET v[i \in 1..Len(digits) + 1] == IF i > Len(digits) THEN 0
                                       ELSE IF v[i + 1] >= Huge \div 16 THEN Huge ELSE digits[i] + 16 * v[i + 1]
    IN  v[1]

\* Nibble i of the bytes: the low half of a byte comes at odd places.
NibbleAt(data, i) == IF i % 2 = 1 THEN data[i \div 2 + 1] % 16 ELSE data[i \div 2 + 1] \div 16

\* The count of nibbles, less one, then the nibbles, the least first.
encode_int_internal(number) ==
    LET off == Len(number) + 1
        count == IF off > 2 THEN off - 2 ELSE 0
        at(i) == IF i = 0 THEN count % 16 ELSE IF i <= Len(number) THEN number[i] ELSE 0
    IN  [b \in 1..((off + 1) \div 2) |-> IF b = 1 THEN 16 * at(0) + at(1) ELSE 16 * at(2 * b - 2) + at(2 * b - 1)]

\* [len, number]: len is -1 when the bytes do not hold an integer.
decode_int_internal(buf, offset, maxnibbles) ==
    LET len == Len(buf) - offset
        data == Drain(buf, offset)
        nibbles == data[1] \div 16 + 1
    IN  IF len <= 0 THEN [len |-> -1, number |-> <<>>]
        ELSE IF nibbles > maxnibbles \/ nibbles \div 2 + 1 > len THEN [len |-> -1, number |-> <<>>]
        ELSE [len |-> nibbles \div 2 + 1, number |-> Trim([i \in 1..nibbles |-> NibbleAt(data, i)])]

evtag_encode_int(buf, number) == buf \o encode_int_internal(number)

\* [ok, number, buf]: drained only when it was read.
evtag_decode_int(buf, maxnibbles) ==
    LET r == decode_int_internal(buf, 0, maxnibbles)
    IN  [ok |-> r.len # -1, number |-> r.number, buf |-> IF r.len = -1 THEN buf ELSE Drain(buf, r.len)]

\* Mutant: the last group of a long tag says that another one follows.
encode_tag_more(buf, tag) == buf \o (IF tag = <<>> THEN <<0>> ELSE [i \in 1..Len(tag) |-> tag[i] + (IF Len(tag) > 1 THEN 128 ELSE 0)])
evtag_encode_tag(buf, tag) ==
    buf \o (IF tag = <<>> THEN <<0>> ELSE [i \in 1..Len(tag) |-> tag[i] + (IF i < Len(tag) THEN 128 ELSE 0)])

\* [len, tag, buf]: len is -1 when there is no tag of 32 bits.  When the fifth byte goes
\* on, a sixth is looked at behind those pulled up, and refused whatever it holds.
decode_tag_internal(buf, dodrain) ==
    LET ends == {i \in 1..Len(buf) : buf[i] < 128}
        count == CHOOSE i \in ends : \A j \in ends : i <= j
        bad == ends = {} \/ count > 5 \/ (count = 5 /\ buf[5] > 15)
    IN  IF bad THEN [len |-> -1, tag |-> <<>>, buf |-> buf]
        ELSE [len |-> count, tag |-> Trim([i \in 1..count |-> buf[i] % 128]),
              buf |-> IF dodrain THEN Drain(buf, count) ELSE buf]

-----------------------------------------------------------------------------
(* Writing *)

evtag_marshal(buf, tag, data) == evtag_encode_int(evtag_encode_tag(buf, tag), Nibbles(Len(data))) \o data
evtag_marshal_buffer(buf, tag, data) == evtag_encode_int(evtag_encode_tag(buf, tag), Nibbles(Len(data))) \o data
evtag_marshal_int(buf, tag, integer) ==
    LET data == encode_int_internal(integer)
    IN  evtag_encode_int(evtag_encode_tag(buf, tag), Nibbles(Len(data))) \o data
\* Seconds of 64 bits become 32.
U32(number) == Trim(SubSeq(number, 1, IF Len(number) < 8 THEN Len(number) ELSE 8))
evtag_marshal_timeval(buf, tag, sec, usec) ==
    evtag_marshal(buf, tag, encode_int_internal(U32(sec)) \o encode_int_internal(U32(usec)))

-----------------------------------------------------------------------------
(* Reading.  What was drained before a failure stays drained.              *)

\* The length of the whole value, header and payload; -1 when it cannot be told.
PeekAfter(t, l) == IF t.len = -1 \/ l.len = -1 THEN -1 ELSE Value(l.number) + l.len + t.len
PayloadAfter(t, l) == IF t.len = -1 \/ l.len = -1 THEN -1 ELSE Value(l.number)
LengthAfter(buf, t) == IF t.len = -1 THEN t ELSE decode_int_internal(buf, t.len, 8)
PeekOf(buf, t) == PeekAfter(t, LengthAfter(buf, t))
evtag_peek_length(buf) == PeekOf(buf, decode_tag_internal(buf, FALSE))
PayloadOf(buf, t) == PayloadAfter(t, LengthAfter(buf, t))
evtag_payload_length(buf) == PayloadOf(buf, decode_tag_internal(buf, FALSE))

\* Mutant: the length is not held against what is in the buffer.
header_unbounded(t, l) ==
    IF ~l.ok THEN [len |-> -1, tag |-> t.tag, buf |-> t.buf] ELSE [len |-> Value(l.number), tag |-> t.tag, buf |-> l.buf]
\* [len, tag, buf]
HeaderAfter(t, l) ==
    IF ~l.ok THEN [len |-> -1, tag |-> t.tag, buf |-> t.buf]
    ELSE [len |-> IF Len(l.buf) < Value(l.number) THEN -1 ELSE Value(l.number), tag |-> t.tag, buf |-> l.buf]
HeaderOf(t) == IF t.len = -1 THEN t ELSE HeaderAfter(t, evtag_decode_int(t.buf, 8))
evtag_unmarshal_header(buf) == HeaderOf(decode_tag_internal(buf, TRUE))

Refused(buf) == [ok |-> FALSE, value |-> <<>>, buf |-> buf]
Consumed(h) == IF h.len = -1 THEN Refused(h.buf) ELSE [ok |-> TRUE, value |-> <<>>, buf |-> Drain(h.buf, h.len)]
Moved(h) == IF h.len = -1 THEN Refused(h.buf) ELSE [ok |-> TRUE, value |-> Take(h.buf, h.len), buf |-> Drain(h.buf, h.len)]

evtag_consume(buf) == Consumed(evtag_unmarshal_header(buf))
evtag_unmarshal(buf) == Moved(evtag_unmarshal_header(buf))

\* The integer is read from all that is there, and then held against the length.
IntIn(buf, len, n) ==
    IF n.len < 0 \/ n.len > len THEN Refused(Drain(buf, len)) ELSE [ok |-> TRUE, value |-> n.number, buf |-> Drain(buf, len)]
IntAfter(l, maxnibbles) ==
    IF ~l.ok \/ Len(l.buf) < Value(l.number) THEN Refused(l.buf)
    ELSE IntIn(l.buf, Value(l.number), decode_int_internal(l.buf, 0, maxnibbles))
IntOf(t, need_tag, maxnibbles) ==
    IF t.len = -1 \/ need_tag # t.tag THEN Refused(t.buf) ELSE IntAfter(evtag_decode_int(t.buf, 8), maxnibbles)
evtag_unmarshal_int(buf, need_tag, maxnibbles) == IntOf(decode_tag_internal(buf, TRUE), need_tag, maxnibbles)

Fixed(h, need_tag, len) ==
    IF h.len < 0 \/ h.tag # need_tag \/ h.len # len THEN Refused(h.buf)
    ELSE [ok |-> TRUE, value |-> Take(h.buf, len), buf |-> Drain(h.buf, len)]
evtag_unmarshal_fixed(buf, need_tag, len) == Fixed(evtag_unmarshal_header(buf), need_tag, len)

String(h, need_tag) == IF h.tag # need_tag THEN Refused(h.buf) ELSE Moved(h)
evtag_unmarshal_string(buf, need_tag) == String(evtag_unmarshal_header(buf), need_tag)

UsecAfter(h, s, u) ==
    IF u.len = -1 \/ s.len + u.len > h.len THEN Refused(Drain(h.buf, h.len))
    ELSE [ok |-> TRUE, value |-> <<s.number, u.number>>, buf |-> Drain(h.buf, h.len)]
SecAfter(h, s) == IF s.len = -1 THEN Refused(Drain(h.buf, h.len)) ELSE UsecAfter(h, s, decode_int_internal(h.buf, s.len, 8))
Timeval(h, need_tag) ==
    IF h.len = -1 THEN Refused(h.buf)
    ELSE IF h.tag # need_tag THEN Refused(Drain(h.buf, h.len))
    ELSE SecAfter(h, decode_int_internal(h.buf, 0, 8))
evtag_unmarshal_timeval(buf, need_tag) == Timeval(evtag_unmarshal_header(buf), need_tag)

-----------------------------------------------------------------------------
\* A value [tag, kind, data] written after buf, and read from the front of it.
Marshal(buf, v) ==
    CASE v.kind = "int" -> evtag_marshal_int(buf, v.tag, v.data[1])
      [] v.kind = "timeval" -> evtag_marshal_timeval(buf, v.tag, v.data[1], v.data[2])
      [] v.kind = "buffer" -> evtag_marshal_buffer(buf, v.tag, v.data[1])
      [] OTHER -> evtag_marshal(buf, v.tag, v.data[1])
Unmarshalled(u, v) == [u EXCEPT !.value = IF v.kind = "timeval" THEN @ ELSE <<@>>]
Unmarshal(buf, v) ==
    Unmarshalled(CASE v.kind = "int" -> evtag_unmarshal_int(buf, v.tag, IF v.wide THEN 16 ELSE 8)
                   [] v.kind = "timeval" -> evtag_unmarshal_timeval(buf, v.tag)
                   [] v.kind = "fixed" -> evtag_unmarshal_fixed(buf, v.tag, Len(v.data[1]))
                   [] v.kind = "string" -> evtag_unmarshal_string(buf, v.tag)
                   [] OTHER -> evtag_unmarshal(buf), v)

\* What is marshalled is unmarshalled: a stream of values gives them back in
\* order and nothing is left over; a reader can tell the length of the next value
\* beforehand, and passing over it drops exactly that.  Only times come back without
\* the part of their seconds above 32 bits.
Carried(v) == IF v.kind = "timeval" THEN <<U32(v.data[1]), U32(v.data[2])>> ELSE v.data
ReadAs(buf, u, v) ==
    /\ u.ok /\ u.value = Carried(v)
    /\ evtag_consume(buf).buf = u.buf
    /\ evtag_peek_length(buf) = Len(buf) - Len(u.buf)
StreamRead(values, wire) ==
    \E left \in {LET l[i \in 0..Len(values)] == IF i = 0 THEN wire ELSE Unmarshal(l[i - 1], values[i]).buf IN l} :
        /\ \A i \in 1..Len(values) : ReadAs(left[i - 1], Unmarshal(left[i - 1], values[i]), values[i])
        /\ left[Len(values)] = <<>>
StreamsRoundTrip(values) ==
    StreamRead(values, LET w[i \in 0..Len(values)] == IF i = 0 THEN <<>> ELSE Marshal(w[i - 1], values[i]) IN w[Len(values)])

\* Part of a value is never taken for one: every reader refuses what has been cut
\* short, whatever came of it so far.
CutRefused(wire, v) == \A k \in 0..(Len(wire) - 1) : ~Unmarshal(Take(wire, k), v).ok /\ ~evtag_consume(Take(wire, k)).ok
CutShortRefused(v) == CutRefused(Marshal(<<>>, v), v)

\* No bytes make a reader take more than there is: what is left is an end of what
\* there was, the payload and its header are inside, and a tag has 32 bits.
Inside(buf, rest) == rest = Drain(buf, Len(buf) - Len(rest))
StayInside(buf, t, c) ==
    /\ t.len # -1 => t.len \in 1..5 /\ Len(t.tag) <= 5 /\ (Len(t.tag) = 5 => t.tag[5] <= 15)
    /\ Inside(buf, c.buf)
    /\ c.ok => evtag_peek_length(buf) = Len(buf) - Len(c.buf) /\ evtag_payload_length(buf) <= Len(buf)
    /\ \A w \in {8, 16} : Inside(buf, evtag_unmarshal_int(buf, t.tag, w).buf)
    /\ Inside(buf, evtag_unmarshal_timeval(buf, t.tag).buf) /\ Inside(buf, evtag_unmarshal_fixed(buf, t.tag, 1).buf)
ReadersStayInside(buf) == StayInside(buf, decode_tag_internal(buf, TRUE), evtag_consume(buf))
=============================================================================
