------------------------------ MODULE DnsWire ------------------------------
(***************************************************************************)
(* The DNS packets of evdns.c: names with their compression, the requests  *)
(* a resolver sends and the replies it parses, the requests a server port  *)
(* parses and the replies it formats.  A packet is a sequence of bytes     *)
(* whose first is at position 0; a name is a sequence of labels, the last  *)
(* of them empty when the text ends in a dot.                              *)
(***************************************************************************)
EXTENDS Integers, Sequences, SequencesExt

CONSTANTS
    BufLen,     \* the room of evdns_server_request_format_response (1500)
    MaxUdp,     \* what is longer is cut (512)
    MaxAddrs,   \* MAX_V4_ADDRS and MAX_V6_ADDRS (32)
    MaxLabels,  \* MAX_LABELS (128)
    HostNameMax \* HOST_NAME_MAX, the room for a host's name (64 on Linux, else 255)

TYPE_A == 1
TYPE_CNAME == 5
TYPE_SOA == 6
TYPE_PTR == 12
TYPE_AAAA == 28
CLASS_INET == 1
NoTtl == 2147483647    \* 0xffffffff; TTLs stay below 2^31

Byte(p, j) == p[j + 1]
Slice(p, j, n) == SubSeq(p, j + 1, j + n)
Get16(p, j) == 256 * Byte(p, j) + Byte(p, j + 1)
Get32(p, j) == 65536 * Get16(p, j) + Get16(p, j + 2)
Put16(n) == <<n \div 256, n % 256>>
Put32(n) == Put16(n \div 65536) \o Put16(n % 65536)

\* strlen of the text of a name.
TextLen(name) == LET sum[i \in 0..Len(name)] == IF i = 0 THEN 0 ELSE sum[i - 1] + Len(name[i]) + 1
                 IN  IF name = <<>> THEN 0 ELSE sum[Len(name)] - 1

-----------------------------------------------------------------------------
(* Names *)

Bad == [ok |-> FALSE, idx |-> 0, name |-> <<>>, jumps |-> 0]
\* [ok, idx, name, jumps]: the name at idx, where the next field begins.
RECURSIVE NameFrom(_, _, _, _, _, _)
NameFrom(p, j, end, jumps, name, room) ==
    IF j >= Len(p) THEN Bad
    ELSE LET len == Byte(p, j)
             size == TextLen(name) + (IF name = <<>> THEN 0 ELSE 1)
             to == (len % 64) * 256 + Byte(p, j + 1)
         IN  IF len = 0 THEN IF TextLen(name) >= room THEN Bad
                             ELSE [ok |-> TRUE, idx |-> IF end < 0 THEN j + 1 ELSE end, name |-> name, jumps |-> jumps]
             ELSE IF len >= 64
             THEN IF j + 1 >= Len(p) THEN Bad
                  ELSE IF to >= Len(p) \/ jumps + 1 > Len(p) THEN Bad
                  ELSE NameFrom(p, to, IF end < 0 THEN j + 2 ELSE end, jumps + 1, name, room)
             ELSE IF (name # <<>> /\ size >= room) \/ size + len >= room \/ j + 1 + len > Len(p) THEN Bad
             ELSE NameFrom(p, j + 1 + len, end, jumps, Append(name, Slice(p, j + 1, len)), room)
\* Mutant: no room is kept for the byte that ends the text.
name_parse_full(p, idx, room) == NameFrom(p, idx, -1, 0, <<>>, room + 1)
name_parse(p, idx, room) == NameFrom(p, idx, -1, 0, <<>>, room)

dnslabel_table_get_pos(table, name) ==
    LET hits == {i \in 1..Len(table) : table[i].name = name}
    IN  IF hits = {} THEN -1 ELSE table[CHOOSE i \in hits : \A k \in hits : i <= k].pos
\* Mutant: the place behind the length of the label is remembered.
table_add_behind(table, name, pos) ==
    IF Len(table) = MaxLabels THEN table ELSE Append(table, [name |-> name, pos |-> pos + 1])
dnslabel_table_add(table, name, pos) ==
    IF Len(table) = MaxLabels THEN table ELSE Append(table, [name |-> name, pos |-> pos])

\* [err, buf, table]: the name appended to buf.  The byte that ends it is written
\* without a look at the room.
RECURSIVE Labels(_, _, _, _)
Labels(buf, name, table, compress) ==
    LET ref == IF compress THEN dnslabel_table_get_pos(table, name) ELSE -1
        label == Head(name)
        more == dnslabel_table_add(table, name, Len(buf))
        out == buf \o <<Len(label)>> \o label
    IN  IF ref >= 0 THEN IF Len(buf) + 2 > BufLen THEN [err |-> -2, buf |-> buf, table |-> table]
                         ELSE [err |-> 0, buf |-> buf \o Put16(ref + 49152), table |-> table]
        ELSE IF Len(label) > 63 THEN [err |-> -1, buf |-> buf, table |-> table]
        ELSE IF Len(buf) + Len(label) + 1 > BufLen THEN [err |-> -2, buf |-> buf, table |-> table]
        ELSE IF Len(name) > 1 THEN Labels(out, Tail(name), more, compress)
        ELSE [err |-> 0, buf |-> IF Last(out) # 0 THEN Append(out, 0) ELSE out, table |-> more]
dnsname_to_labels(buf, name, table, compress) ==
    IF TextLen(name) > 255 THEN [err |-> -2, buf |-> buf, table |-> table] ELSE Labels(buf, name, table, compress)

-----------------------------------------------------------------------------
(* Requests *)

evdns_request_len(name_len) == 96 + name_len + 2 + 4

\* <<the packet>>, or <<>> when the name cannot be sent.
evdns_request_data_build(name, trans_id, type) ==
    LET head == Put16(trans_id) \o Put16(256) \o Put16(1) \o Put16(0) \o Put16(0) \o Put16(0)
        l == dnsname_to_labels(head, name, <<>>, FALSE)
    IN  IF l.err < 0 THEN <<>> ELSE <<l.buf \o Put16(type) \o Put16(CLASS_INET)>>

\* What a server port takes of a packet: <<[trans_id, flags, questions]>>, or <<>>.
Question(nm, p, list) == Append(list, [name |-> nm.name, type |-> Get16(p, nm.idx), class |-> Get16(p, nm.idx + 2)])
RECURSIVE Questions(_, _, _, _)
QuestionAt(p, n, list, nm) == IF ~nm.ok \/ nm.idx + 4 > Len(p) THEN [ok |-> FALSE, list |-> <<>>]
                              ELSE Questions(p, n - 1, nm.idx + 4, Question(nm, p, list))
Questions(p, n, j, list) == IF n = 0 THEN [ok |-> TRUE, list |-> list] ELSE QuestionAt(p, n, list, name_parse(p, j, 256))
RequestOf(p, questions) ==
    IF ~questions.ok \/ Byte(p, 2) >= 128 THEN <<>>
    ELSE <<[trans_id |-> Get16(p, 0), flags |-> <<Byte(p, 2) % 2, 16 * ((Byte(p, 3) \div 16) % 2)>>,
            questions |-> questions.list]>>
request_parse(p) == IF Len(p) < 12 THEN <<>> ELSE RequestOf(p, Questions(p, Get16(p, 4), 12, <<>>))

-----------------------------------------------------------------------------
(* Replies: a server's request has its questions and, per section, items   *)
(* [name, type, ttl, is_name, data]                                        *)

evdns_server_request_add_reply(req, section, item) ==
    IF req.response # <<>> THEN req ELSE [req EXCEPT !.sections[section] = Append(@, item)]
AddAddrs(req, name, type, addrs, ttl) ==
    evdns_server_request_add_reply(req, 1, [name |-> name, type |-> type, ttl |-> ttl, is_name |-> FALSE,
                                            data |-> FlattenSeq(addrs)])
evdns_server_request_add_a_reply(req, name, addrs, ttl) == AddAddrs(req, name, TYPE_A, addrs, ttl)
evdns_server_request_add_aaaa_reply(req, name, addrs, ttl) == AddAddrs(req, name, TYPE_AAAA, addrs, ttl)
evdns_server_request_add_cname_reply(req, name, cname, ttl) ==
    evdns_server_request_add_reply(req, 1, [name |-> name, type |-> TYPE_CNAME, ttl |-> ttl, is_name |-> TRUE,
                                            data |-> cname])
evdns_server_request_add_ptr_reply(req, name, hostname, ttl) ==
    evdns_server_request_add_reply(req, 1, [name |-> name, type |-> TYPE_PTR, ttl |-> ttl, is_name |-> TRUE,
                                            data |-> hostname])

\* One item after the buffer; err is set where the code jumps to overflow.
PutName(head, at, d) ==
    IF d.err < 0 THEN [err |-> -1, buf |-> head, table |-> d.table]
    ELSE [err |-> 0, table |-> d.table,
          buf |-> SubSeq(d.buf, 1, at) \o Put16(Len(d.buf) - at - 2) \o SubSeq(d.buf, at + 3, Len(d.buf))]
PutData(head, table, item) ==
    IF Len(head) > BufLen THEN [err |-> -1, buf |-> SubSeq(head, 1, BufLen), table |-> table]
    ELSE IF item.is_name THEN PutName(head, Len(head), dnsname_to_labels(head \o <<0, 0>>, item.data, table, TRUE))
    ELSE IF Len(head) + 2 + Len(item.data) > BufLen THEN [err |-> -1, buf |-> head, table |-> table]
    ELSE [err |-> 0, table |-> table, buf |-> head \o Put16(Len(item.data)) \o item.data]
PutNamed(o, item, l) ==
    IF l.err < 0 THEN [o EXCEPT !.err = -1]
    ELSE PutData(l.buf \o Put16(item.type) \o Put16(CLASS_INET) \o Put32(item.ttl), l.table, item)
PutItem(o, item) == IF o.err < 0 THEN o ELSE PutNamed(o, item, dnsname_to_labels(o.buf, item.name, o.table, TRUE))
PutAll(o, items) == LET put[i \in 0..Len(items)] == IF i = 0 THEN o ELSE PutItem(put[i - 1], items[i]) IN put[Len(items)]

PutQuestion(o, q) ==
    LET l == dnsname_to_labels(o.buf, q.name, o.table, TRUE)
    IN  IF o.err < 0 THEN o ELSE IF l.err < 0 THEN l ELSE [l EXCEPT !.buf = @ \o Put16(q.type) \o Put16(q.class)]
PutQuestions(o, qs) == LET put[i \in 0..Len(qs)] == IF i = 0 THEN o ELSE PutQuestion(put[i - 1], qs[i]) IN put[Len(qs)]
Header(req, err) == Put16(req.trans_id) \o <<req.flags[1] + 128, req.flags[2] + err>> \o Put16(Len(req.questions))
                    \o Put16(Len(req.sections[1])) \o Put16(Len(req.sections[2])) \o Put16(Len(req.sections[3]))
\* What goes out: cut, and marked so, when it is too long or did not fit.
Wire(full) ==
    IF full.err < 0 \/ Len(full.buf) > MaxUdp
    THEN [SubSeq(full.buf \o [i \in 1..MaxUdp |-> 0], 1, MaxUdp) EXCEPT ![3] = IF (@ \div 2) % 2 = 1 THEN @ ELSE @ + 2]
    ELSE full.buf
FormatItems(req, asked) ==
    IF asked.err < 0 THEN req
    ELSE [req EXCEPT !.response = Wire(PutAll(asked, FlattenSeq(req.sections))), !.sections = <<<<>>, <<>>, <<>>>>]
\* The request with its response, or as it was when a question does not fit.
evdns_server_request_format_response(req, err) ==
    FormatItems(req, PutQuestions([err |-> 0, buf |-> Header(req, err), table |-> <<>>], req.questions))

\* The fixed part of a record, after its name.
RecordAt(p, nm) ==
    IF ~nm.ok \/ nm.idx + 10 > Len(p) THEN [ok |-> FALSE]
    ELSE [ok |-> TRUE, j |-> nm.idx + 10, type |-> Get16(p, nm.idx), class |-> Get16(p, nm.idx + 2),
          ttl |-> Get32(p, nm.idx + 4), len |-> Get16(p, nm.idx + 8)]
Record(p, j) == RecordAt(p, name_parse(p, j, 256))

\* The answer section: s holds ok, j, addrs, name, have, ttl, cname, and stop when the
\* rest is not looked at.
Least(a, b) == IF a < b THEN a ELSE b
TakeN(p, s, rec, size, n) ==
    IF rec.len % size # 0 \/ rec.j + size * n > Len(p) THEN [s EXCEPT !.ok = FALSE]
    ELSE [s EXCEPT !.addrs = @ \o [i \in 1..n |-> Slice(p, rec.j + size * (i - 1), size)], !.have = TRUE,
                   !.ttl = Least(rec.ttl, @), !.j = rec.j + size * n, !.stop = Len(s.addrs) + n = MaxAddrs]
TakeAddrs(p, s, rec, size) == TakeN(p, s, rec, size, Least(rec.len \div size, MaxAddrs - Len(s.addrs)))
TakePtr(s, rec, nm) ==
    IF ~nm.ok THEN [s EXCEPT !.ok = FALSE]
    ELSE [s EXCEPT !.name = nm.name, !.have = TRUE, !.stop = TRUE, !.j = nm.idx, !.ttl = Least(rec.ttl, @)]
TakeCname(s, nm) == IF ~nm.ok THEN [s EXCEPT !.ok = FALSE] ELSE [s EXCEPT !.cname = <<nm.name>>, !.j = nm.idx]
TakeRecord(p, req, s, rec) ==
    LET inet == rec.class = CLASS_INET /\ rec.type = req.type
    IN  IF inet /\ rec.type = TYPE_A THEN TakeAddrs(p, s, rec, 4)
        ELSE IF inet /\ rec.type = TYPE_AAAA THEN TakeAddrs(p, s, rec, 16)
        ELSE IF inet /\ rec.type = TYPE_PTR THEN TakePtr(s, rec, name_parse(p, rec.j, HostNameMax))
        ELSE IF rec.type = TYPE_CNAME /\ req.cname /\ s.cname = <<>> THEN TakeCname(s, name_parse(p, rec.j, HostNameMax))
        ELSE [s EXCEPT !.j = rec.j + rec.len]
RECURSIVE Answers(_, _, _, _)
AnswerAt(p, req, n, s, rec) == IF ~rec.ok THEN [s EXCEPT !.ok = FALSE] ELSE Answers(p, req, n - 1, TakeRecord(p, req, s, rec))
Answers(p, req, n, s) == IF n = 0 \/ s.stop \/ ~s.ok THEN s ELSE AnswerAt(p, req, n, s, Record(p, s.j))

\* The authority section, looked at for the TTL of a negative answer.
SoaEnd(p, s, rec, j) ==
    IF j = -1 \/ j + 20 > Len(p) THEN [s EXCEPT !.ok = FALSE]
    ELSE [s EXCEPT !.ttl = Least(Least(rec.ttl, Get32(p, j + 16)), @), !.j = j + 20]
AfterName(nm) == IF nm.ok THEN nm.idx ELSE -1
SecondName(p, j) == IF j = -1 THEN -1 ELSE AfterName(name_parse(p, j, 256))
RECURSIVE Authority(_, _, _)
AuthorityAt(p, n, s, rec) ==
    IF ~rec.ok THEN [s EXCEPT !.ok = FALSE]
    ELSE Authority(p, n - 1, IF rec.type = TYPE_SOA /\ rec.class = CLASS_INET
                             THEN SoaEnd(p, s, rec, SecondName(p, AfterName(name_parse(p, rec.j, 256))))
                             ELSE [s EXCEPT !.j = rec.j + rec.len])
Authority(p, n, s) == IF n = 0 \/ ~s.ok THEN s ELSE AuthorityAt(p, n, s, Record(p, s.j))

\* The questions of the reply, against those of the request at the same place: as they
\* are, or whatever their case when the requests were sent with a random one.
Raised(name) == [i \in DOMAIN name |-> [k \in DOMAIN name[i] |-> name[i][k] - (IF name[i][k] \in 97..122 THEN 32 ELSE 0)]]
Same(a, b, nocase) == IF nocase THEN Raised(a) = Raised(b) ELSE a = b
RECURSIVE Asked(_, _, _, _)
AskedAt(p, req, n, a, mine, asked) ==
    IF ~mine.ok \/ ~asked.ok \/ mine.idx + 4 > Len(p) THEN [a EXCEPT !.ok = FALSE]
    ELSE Asked(p, req, n - 1, [ok |-> TRUE, j |-> mine.idx + 4,
                               matches |-> a.matches \/ Same(mine.name, asked.name, req.nocase)])
Asked(p, req, n, a) ==
    IF n = 0 THEN a ELSE AskedAt(p, req, n, a, name_parse(p, a.j, 256), name_parse(req.packet, a.j, 256))

\* What becomes of the request: "ignored", "error" or "answered", with the reply.
Nothing(fate) == [fate |-> fate, have |-> FALSE, addrs |-> <<>>, name |-> <<>>, cname |-> <<>>, ttl |-> 0]
Answered(s) == IF ~s.ok THEN Nothing("error")
               ELSE [fate |-> "answered", have |-> s.have, addrs |-> s.addrs, name |-> s.name, cname |-> s.cname,
                     ttl |-> IF s.ttl = NoTtl THEN 0 ELSE s.ttl]
ReplyAnswers(p, s) == Answered(IF s.ok /\ ~s.have THEN Authority(p, Get16(p, 8), s) ELSE s)
ReplyQuestions(p, req, a) ==
    IF ~a.ok \/ ~a.matches THEN Nothing("error")
    ELSE ReplyAnswers(p, Answers(p, req, Get16(p, 6), [ok |-> TRUE, j |-> a.j, addrs |-> <<>>, name |-> <<>>, have |-> FALSE,
                                                       stop |-> FALSE, ttl |-> NoTtl, cname |-> <<>>]))
reply_parse(p, req) ==
    IF Len(p) < 12 \/ (Len(p) >= 12 => Get16(p, 0) # req.trans_id \/ Byte(p, 2) < 128) THEN Nothing("ignored")
    ELSE IF (Byte(p, 2) \div 2) % 2 = 1 \/ Byte(p, 3) % 16 \notin {0, 3} THEN Nothing("error")
    ELSE ReplyQuestions(p, req, Asked(p, req, Get16(p, 4), [ok |-> TRUE, j |-> 12, matches |-> FALSE]))

-----------------------------------------------------------------------------
\* Whatever the bytes, a name ends: within the packet, after no more jumps than
\* it has bytes, in the room there is.
NamesEnd(p, room) ==
    \A i \in 0..Len(p) : LET nm == name_parse(p, i, room)
                         IN  nm.ok => nm.idx \in 1..Len(p) /\ nm.jumps <= Len(p) /\ TextLen(nm.name) < room

Text(name) == SelectSeq(name, LAMBDA l : l # <<>>)

\* A server's request with its items, answered.
AddItem(req, it) ==
    CASE it.type = TYPE_A -> evdns_server_request_add_a_reply(req, it.name, it.data, it.ttl)
      [] it.type = TYPE_AAAA -> evdns_server_request_add_aaaa_reply(req, it.name, it.data, it.ttl)
      [] it.type = TYPE_CNAME -> evdns_server_request_add_cname_reply(req, it.name, it.data[1], it.ttl)
      [] it.type = TYPE_PTR -> evdns_server_request_add_ptr_reply(req, it.name, it.data[1], it.ttl)
AddItems(req, items) == LET add[i \in 0..Len(items)] == IF i = 0 THEN req ELSE AddItem(add[i - 1], items[i]) IN add[Len(items)]
Reply(got, items) ==
    evdns_server_request_format_response(
        AddItems([trans_id |-> got.trans_id, flags |-> got.flags, questions |-> got.questions,
                  sections |-> <<<<>>, <<>>, <<>>>>, response |-> <<>>], items), 0).response
OfType(items, type) == SelectSeq(items, LAMBDA it : it.type = type)
AllData(items) == FlattenSeq([i \in 1..Len(items) |-> items[i].data])
ReadAs(read, type, mine, addrs, aliases) ==
    LET full == type # TYPE_PTR /\ Len(addrs) >= MaxAddrs
        used == IF type = TYPE_PTR THEN SubSeq(mine, 1, IF mine = <<>> THEN 0 ELSE 1) ELSE mine
    IN  /\ read.fate = "answered" /\ read.have = (mine # <<>>)
        /\ type \in {TYPE_A, TYPE_AAAA} => read.addrs = SubSeq(addrs, 1, IF full THEN MaxAddrs ELSE Len(addrs))
        /\ type = TYPE_PTR /\ mine # <<>> => read.name = Text(mine[1].data[1])
        /\ aliases # <<>> /\ mine = <<>> => read.cname = <<Text(aliases[1].data[1])>>
        /\ ~full /\ used # <<>> => (\A i \in 1..Len(used) : read.ttl <= used[i].ttl) /\ \E i \in 1..Len(used) : read.ttl = used[i].ttl
\* An item that ends the reading of answers, and one that cannot be the name of a host.
EndsAt(items, type, k) ==
    IF type = TYPE_PTR THEN items[k].type = TYPE_PTR ELSE Len(AllData(OfType(SubSeq(items, 1, k), type))) >= MaxAddrs
TooLong(items, type, k) ==
    /\ items[k].type \in {TYPE_PTR, TYPE_CNAME} /\ TextLen(Text(items[k].data[1])) >= HostNameMax
    /\ IF items[k].type = TYPE_PTR THEN type = TYPE_PTR ELSE \A j \in 1..k - 1 : items[j].type # TYPE_CNAME
NoHostName(items, type) == \E k \in DOMAIN items : TooLong(items, type, k) /\ \A j \in 1..k - 1 : ~EndsAt(items, type, j)
ReplyRoundTrips(packet, raised, type, items, reply) ==
    /\ Len(reply) <= MaxUdp
    /\ \E req \in {[trans_id |-> 258, type |-> type, cname |-> TRUE, packet |-> packet, nocase |-> FALSE]} :
       \E read \in {reply_parse(reply, req)} :
          /\ reply_parse(reply, [req EXCEPT !.packet = raised, !.nocase = TRUE]) = read
          /\ reply_parse(reply, [req EXCEPT !.packet = raised]).fate = "error"
          /\ IF (reply[3] \div 2) % 2 = 1 \/ NoHostName(items, type) THEN read.fate = "error"
             ELSE ReadAs(read, type, OfType(items, type), AllData(OfType(items, type)), OfType(items, TYPE_CNAME))
\* What a resolver asks a server port reads, and what the port answers the
\* resolver reads: the question, the addresses up to the limit, the names (with
\* their compression) and the least TTL, in whatever case the request was sent; a
\* reply that does not fit is marked as cut, and is an error to the resolver, as is a
\* name too long for a host.
PacketsRoundTrip(name, type, items) ==
    \A packet \in Range(evdns_request_data_build(name, 258, type)) :
        /\ Len(packet) <= evdns_request_len(TextLen(name))
        /\ \E got \in {request_parse(packet)} :
              /\ got # <<>> /\ got[1].trans_id = 258 /\ Len(got[1].questions) = 1
              /\ got[1].questions[1].name = Text(name) /\ got[1].questions[1].type = type
              /\ \A raised \in Range(evdns_request_data_build(Raised(name), 258, type)) :
                    ReplyRoundTrips(packet, raised, type, items, Reply(got[1], items))
=============================================================================
