------------------------------- MODULE Evutil -------------------------------
(***************************************************************************)
(* What evutil.c and evutil_time.c compute: texts of addresses, their      *)
(* order, the part of getaddrinfo that needs no resolver, and the clock    *)
(* that never goes back.  A text is a sequence of characters: 0 to 15 are  *)
(* the hexadecimal digits, and the others are the names below.  Numbers    *)
(* stay below 2^31; what sscanf and strtol take before a number (blanks,   *)
(* signs, 0x) is left out.                                                 *)
(***************************************************************************)
EXTENDS Integers, Sequences, SequencesExt, FiniteSets

CONSTANTS
    Wrap,       \* the 32-bit tick count starts again after as many ticks
    Apart       \* how far the performance counter may be from the ticks: one second

Colon == 16
Dot == 17
Percent == 18
Opens == 19     \* [
Closes == 20    \* ]
Letter == 21    \* a letter that is no digit
Digits == 0..9
XDigits == 0..15

\* What conversions return for what they refuse.
None == <<>>
Some(v) == <<v>>
From(s, i) == SubSeq(s, i, Len(s))
\* The place of the first c from i on, or 0: strchr.
Find(s, c, i) == SelectInSubSeq(s, i, Len(s), LAMBDA x : x = c)
\* Where the run of characters of set that begins at i ends.
RunEnd(s, i, set) == CHOOSE j \in i..Len(s) + 1 : /\ \A k \in i..j - 1 : s[k] \in set
                                                  /\ j = Len(s) + 1 \/ (j <= Len(s) => s[j] \notin set)
Value(digits, base) == LET v[k \in 0..Len(digits)] == IF k = 0 THEN 0 ELSE v[k - 1] * base + digits[k] IN v[Len(digits)]
Written(n, base) ==
    LET w[k \in 0..n] == IF k < base THEN <<k>> ELSE Append(w[k \div base], k % base) IN w[n]

-----------------------------------------------------------------------------
(* From addresses to texts *)

Quad(bytes) == Written(bytes[1], 10) \o <<Dot>> \o Written(bytes[2], 10) \o <<Dot>>
                   \o Written(bytes[3], 10) \o <<Dot>> \o Written(bytes[4], 10)
Bytes(hi, lo) == <<hi \div 256, hi % 256, lo \div 256, lo % 256>>

IsIpv4(words) == /\ \A k \in 1..5 : words[k] = 0
                 /\ \/ words[6] = 0 /\ words[7] # 0 /\ words[8] # 0
                    \/ words[6] = 65535

\* The first of the longest runs of zeros, if it is longer than one: <<place, length>>.
LongestGap(words) ==
    LET runs == {<<p, n>> \in (1..8) \X (2..8) : p + n <= 9 /\ \A k \in p..p + n - 1 : words[k] = 0}
    IN  IF runs = {} THEN None
        ELSE Some(CHOOSE r \in runs : \A q \in runs : q[2] < r[2] \/ (q[2] = r[2] /\ q[1] >= r[1]))

\* Words that are written one after the other, with a colon after all but the eighth.
WordText(words, lo, hi) ==
    LET w[k \in lo - 1..hi] == IF k < lo THEN <<>>
                               ELSE w[k - 1] \o Written(words[k], 16) \o (IF k = 8 THEN <<>> ELSE <<Colon>>)
    IN  w[hi]

evutil_inet_ntop6(words) ==
    IF IsIpv4(words)
    THEN <<Colon, Colon>> \o (IF words[6] = 0 THEN <<>> ELSE Append(Written(words[6], 16), Colon))
            \o Quad(Bytes(words[7], words[8]))
    ELSE LET gap == LongestGap(words)
         IN  IF gap = None THEN WordText(words, 1, 8)
             ELSE WordText(words, 1, gap[1][1] - 1)
                    \o (IF gap[1][1] = 1 THEN <<Colon, Colon>> ELSE <<Colon>>)
                    \o WordText(words, gap[1][1] + gap[1][2], 8)

\* An address: [family, addr (bytes or words), port, scope].
Addr(family, addr, port, scope) == [family |-> family, addr |-> addr, port |-> port, scope |-> scope]
evutil_inet_ntop(a) == IF a.family = "inet" THEN Quad(a.addr) ELSE evutil_inet_ntop6(a.addr)

-----------------------------------------------------------------------------
(* From texts to addresses *)

\* sscanf of "%u.%u.%u.%u%c" that must find four numbers and nothing after them:
\* the numbers that follow those already read, from place i on.
RECURSIVE ScanNumbers(_, _, _, _)
ScanNumbers(s, i, end, read) ==
    IF end = i THEN None
    ELSE IF Len(read) = 3 THEN IF end = Len(s) + 1 THEN Some(Append(read, Value(SubSeq(s, i, end - 1), 10))) ELSE None
    ELSE IF end > Len(s) THEN None
    ELSE IF s[end] # Dot THEN None
    ELSE ScanNumbers(s, end + 1, RunEnd(s, end + 1, Digits), Append(read, Value(SubSeq(s, i, end - 1), 10)))
Below256(quad) == IF quad # None /\ \A k \in 1..4 : quad[1][k] <= 255 THEN quad ELSE None
ScanQuad(s) == Below256(ScanNumbers(s, 1, RunEnd(s, 1, Digits), <<>>))

\* The loop over the words before eow: their values and the place of the gap
\* (-1: none), or None.
RECURSIVE ScanFrom(_, _, _, _, _)
ScanFrom(s, eow, src, words, gap) ==
    LET next == RunEnd(s, src, XDigits)
        i == Len(words)
        second == src < Len(s) /\ (src < Len(s) => s[src + 1] = Colon)
        colon == next <= Len(s) /\ (next <= Len(s) => s[next] = Colon)
    IN  IF src >= eow THEN Some([words |-> words, gap |-> gap])
        ELSE IF i > 7 THEN None
        ELSE IF s[src] \in XDigits
             THEN IF next > src + 4 \/ ~(colon \/ next = eow) THEN None
                  ELSE ScanFrom(s, eow, next + 1, Append(words, Value(SubSeq(s, src, next - 1), 16)), gap)
        ELSE IF s[src] # Colon \/ gap # -1 \/ (i = 0 /\ ~second) THEN None
        ELSE ScanFrom(s, eow, IF i = 0 THEN src + 2 ELSE src + 1, words, i)
ScanWords(s, eow) == ScanFrom(s, eow, 1, <<>>, -1)

\* Mutant: the words behind the gap stay where they were read.
fill_gap_at_end(scanned, tail) ==
    IF Len(scanned.words) + Len(tail) > 8 \/ (scanned.gap = -1 /\ Len(scanned.words) + Len(tail) # 8) THEN None
    ELSE Some(scanned.words \o [k \in 1..8 - Len(scanned.words) - Len(tail) |-> 0] \o tail)
\* The words around the gap, if they fit.
FillGap(scanned, tail) ==
    IF scanned.gap = -1
    THEN IF Len(scanned.words) + Len(tail) = 8 THEN Some(scanned.words \o tail) ELSE None
    ELSE IF Len(scanned.words) + Len(tail) >= 8 THEN None
    ELSE Some(SubSeq(scanned.words, 1, scanned.gap) \o [k \in 1..8 - Len(scanned.words) - Len(tail) |-> 0]
                \o From(scanned.words, scanned.gap + 1) \o tail)
QuadWords(quad) == <<quad[1] * 256 + quad[2], quad[3] * 256 + quad[4]>>
Pton6From(quad, scanned) ==
    IF quad = None \/ scanned = None THEN None
    ELSE FillGap(scanned[1], IF quad[1] = <<>> THEN <<>> ELSE QuadWords(quad[1]))
Pton6With(s, eow, isquad) == Pton6From(IF isquad THEN ScanQuad(From(s, eow)) ELSE Some(<<>>), ScanWords(s, eow))
\* Where the number that ends before the dot begins.
BeforeDot(s, dot) ==
    CHOOSE k \in 1..dot : (\A j \in k..dot - 1 : s[j] \in Digits) /\ (k = 1 \/ (k > 1 => s[k - 1] \notin Digits))
Pton6Dot(s, dot) ==
    IF dot = 1 THEN None ELSE Pton6With(s, IF dot = 0 THEN Len(s) + 1 ELSE BeforeDot(s, dot), dot # 0)
evutil_inet_pton6(s) == Pton6Dot(s, Find(s, Dot, 1))

evutil_inet_pton(af, s) == IF af = "inet" THEN ScanQuad(s) ELSE evutil_inet_pton6(s)

\* The address and its zone: an interface's name (Letter stands for the one there
\* is, with index 1) or a number; an empty number counts as 0.
IsZone(zone) == zone = <<Letter>> \/ \A k \in 1..Len(zone) : zone[k] \in Digits
WithScope(addr, scope) == IF addr = None THEN None ELSE Some(<<addr[1], scope>>)
PtonScope(s, p, zone) ==
    IF p # 0 /\ ~IsZone(zone) THEN None
    ELSE WithScope(evutil_inet_pton6(IF p = 0 THEN s ELSE SubSeq(s, 1, p - 1)),
                   IF p = 0 THEN 0 ELSE IF zone = <<Letter>> THEN 1 ELSE Value(zone, 10))
PtonScopeAt(s, p) == PtonScope(s, p, From(s, p + 1))
evutil_inet_pton_scope(s) == PtonScopeAt(s, Find(s, Percent, 1))

atoi(s) == Value(SubSeq(s, 1, RunEnd(s, 1, Digits) - 1), 10)

\* [ipv6]:port, ipv6, [ipv6], ipv4:port or ipv4.
SixAt(six, port) == IF six = None THEN None ELSE Some(Addr("inet6", six[1][1], port, six[1][2]))
FourAt(four, port) == IF four = None THEN None ELSE Some(Addr("inet", four[1], port, 0))
HostAt(host, ipv6, port) == IF ipv6 THEN SixAt(evutil_inet_pton_scope(host), port) ELSE FourAt(evutil_inet_pton("inet", host), port)
PortOk(port) == port > 0 /\ port <= 65535
HostPort(host, ipv6, portpart) ==
    IF portpart = None THEN HostAt(host, ipv6, 0)
    ELSE IF PortOk(atoi(portpart[1])) THEN HostAt(host, ipv6, atoi(portpart[1])) ELSE None
Bracketed(s, closes) ==
    IF closes = 0 THEN None
    ELSE HostPort(SubSeq(s, 2, closes - 1), TRUE,
                  IF closes < Len(s) /\ (closes < Len(s) => s[closes + 1] = Colon) THEN Some(From(s, closes + 2)) ELSE None)
Bare(s, colon, one) ==
    HostPort(IF one THEN SubSeq(s, 1, colon - 1) ELSE s, colon # 0 /\ ~one, IF one THEN Some(From(s, colon + 1)) ELSE None)
Colons(s, colon) == Bare(s, colon, colon # 0 /\ Find(s, Colon, colon + 1) = 0)
evutil_parse_sockaddr_port(s) ==
    IF s # <<>> /\ (s # <<>> => s[1] = Opens) THEN Bracketed(s, Find(s, Closes, 1)) ELSE Colons(s, Find(s, Colon, 1))

evutil_format_sockaddr_port_(a) ==
    (IF a.family = "inet" THEN evutil_inet_ntop(a) ELSE <<Opens>> \o evutil_inet_ntop(a) \o <<Closes>>)
        \o <<Colon>> \o Written(a.port, 10)

-----------------------------------------------------------------------------
(* The order of addresses *)

\* An IPv4 address in memory is compared as the machine's integer: the bytes in
\* the order of a little-endian one.  Two ports are compared as they lie, too.
Swapped(n) == (n % 256) * 256 + n \div 256
memcmp(x, y) == IF x = y THEN 0
                ELSE LET k == CHOOSE i \in DOMAIN x : x[i] # y[i] /\ \A j \in 1..i - 1 : x[j] = y[j]
                     IN  IF x[k] < y[k] THEN -1 ELSE 1
Family == [unix |-> 1, inet |-> 2, inet6 |-> 10]
evutil_sockaddr_cmp(a, b, include_port) ==
    LET r == IF a.family = "inet" THEN memcmp(Reverse(a.addr), Reverse(b.addr)) ELSE memcmp(a.addr, b.addr)
    IN  IF a.family # b.family THEN Family[a.family] - Family[b.family]
        ELSE IF a.family = "unix" THEN 1
        ELSE IF r # 0 \/ ~include_port THEN r
        ELSE Swapped(a.port) - Swapped(b.port)

-----------------------------------------------------------------------------
(* getaddrinfo without a resolver *)

\* hints: [family ("unspec", "inet", ...), socktype, protocol, flags]; an entry has
\* the family of its address.  mem is the number of allocations that succeed.
infer_protocols(hints) ==
    LET proto == IF hints.protocol # "any" \/ hints.socktype = "any" THEN hints.protocol
                 ELSE CASE hints.socktype = "dgram" -> "udp" [] hints.socktype = "stream" -> "tcp" [] OTHER -> "any"
        type == IF hints.socktype # "any" \/ proto = "any" THEN hints.socktype
                ELSE CASE proto = "udp" -> "dgram" [] proto \in {"tcp", "sctp"} -> "stream" [] OTHER -> "any"
    IN  [hints EXCEPT !.protocol = proto, !.socktype = type]

Entry(a, type, proto) == [addr |-> a, socktype |-> type, protocol |-> proto]
\* Entries, or None when memory runs out (what was allocated is freed).
evutil_new_addrinfo_(a, hints, mem) ==
    IF hints.socktype = "any" /\ hints.protocol = "any"
    THEN IF mem < 2 THEN None ELSE <<Entry(a, "stream", "tcp"), Entry(a, "dgram", "udp")>>
    ELSE IF mem < 1 THEN None ELSE <<Entry(a, hints.socktype, hints.protocol)>>
evutil_addrinfo_append_(first, append) == first \o append

\* A port number in digits, or a name that getservbyname knows.
NamedPort == 80
parse_numeric_servname(serv) ==
    IF serv # <<>> /\ (\A k \in 1..Len(serv) : serv[k] \in Digits) /\ Value(serv, 10) <= 65535
    THEN Value(serv, 10) ELSE -1
evutil_parse_servname(serv, hints) ==
    LET n == parse_numeric_servname(serv)
    IN  IF n >= 0 THEN n
        ELSE IF "numericserv" \notin hints.flags /\ serv = <<Letter>> THEN NamedPort ELSE -1

Words(n) == [k \in 1..8 |-> IF k = 8 THEN n ELSE 0]
\* node and serv are None or the text given.  The result: [code, res, port].
Outcome(code, res, port) == [code |-> code, res |-> res, port |-> port]
Answer(res, port) == IF res = None THEN Outcome("memory", <<>>, port) ELSE Outcome("ok", res, port)
Loopback(passive) == IF passive THEN <<0, 0, 0, 0>> ELSE <<127, 0, 0, 1>>
\* No node: the IPv6 entries are made first, and come last.
AnyNode4(hints, port, passive, res6, mem) ==
    IF hints.family = "inet6" THEN <<>>
    ELSE evutil_new_addrinfo_(Addr("inet", Loopback(passive), port, 0), hints, mem - Len(res6))
AnyNode6(hints, port, passive, mem) ==
    IF hints.family = "inet" THEN <<>>
    ELSE evutil_new_addrinfo_(Addr("inet6", Words(IF passive THEN 0 ELSE 1), port, 0), hints, mem)
AnyNodeBoth(hints, port, res4, res6) ==
    IF (hints.family # "inet" /\ res6 = None) \/ (hints.family # "inet6" /\ res4 = None) THEN Outcome("memory", <<>>, port)
    ELSE Outcome("ok", evutil_addrinfo_append_(res4, res6), port)
AnyNodeAfter(hints, port, passive, res6, mem) == AnyNodeBoth(hints, port, AnyNode4(hints, port, passive, res6, mem), res6)
AnyNode(hints, port, passive, mem) == AnyNodeAfter(hints, port, passive, AnyNode6(hints, port, passive, mem), mem)
\* A numeric node.
NumericNode(a, hints, port, mem) ==
    IF a # None THEN Answer(evutil_new_addrinfo_(a[1], hints, mem), port)
    ELSE IF "numerichost" \in hints.flags THEN Outcome("noname", <<>>, port)
    ELSE Outcome("need_resolve", <<>>, port)
Either(six, four) == IF six # None THEN six ELSE four
\* Mutant: the family that was asked for is not looked at.
node_addr_any(node, family, port) == Either(SixAt(evutil_inet_pton_scope(node), port), FourAt(evutil_inet_pton("inet", node), port))
NodeAddr(node, family, port) ==
    Either(IF family = "inet" THEN None ELSE SixAt(evutil_inet_pton_scope(node), port),
           IF family = "inet6" THEN None ELSE FourAt(evutil_inet_pton("inet", node), port))
CommonAt(node, hints, port, mem) ==
    IF port < 0 THEN Outcome("noname", <<>>, port)
    ELSE IF node = None THEN AnyNode(hints, port, "passive" \in hints.flags, mem)
    ELSE NumericNode(NodeAddr(node[1], hints.family, port), hints, port, mem)
CommonWith(node, serv, hints, mem) ==
    IF (node = None /\ serv = None) THEN Outcome("noname", <<>>, 0)
    ELSE IF hints.family \notin {"unspec", "inet", "inet6"} THEN Outcome("family", <<>>, 0)
    ELSE CommonAt(node, hints, IF serv = None THEN 0 ELSE evutil_parse_servname(serv[1], hints), mem)
evutil_getaddrinfo_common_(node, serv, asked, mem) == CommonWith(node, serv, infer_protocols(asked), mem)

-----------------------------------------------------------------------------
(* Properties *)

\* Any text of an address that is written is read back as the same address:
\* evutil_inet_ntop writes what evutil_inet_pton reads, whatever the zeros in it;
\* with a port, which must not be 0, evutil_format_sockaddr_port_ and
\* evutil_parse_sockaddr_port agree, too.
AddressRoundTrips(a) ==
    /\ evutil_inet_pton(a.family, evutil_inet_ntop(a)) = Some(a.addr)
    /\ a.port # 0 => evutil_parse_sockaddr_port(evutil_format_sockaddr_port_(a)) = Some([a EXCEPT !.scope = 0])

\* What is between colons.
RECURSIVE Fields(_)
Fields(s) == LET colon == Find(s, Colon, 1)
             IN  IF colon = 0 THEN <<s>> ELSE <<SubSeq(s, 1, colon - 1)>> \o Fields(From(s, colon + 1))
\* The words that a list of groups stands for, the last of them perhaps in the form
\* of IPv4, or None.
GoodGroup(g) == Len(g) \in 1..4 /\ \A j \in 1..Len(g) : g[j] \in XDigits
GroupValue(g) == IF GoodGroup(g) THEN <<Value(g, 16)>> ELSE QuadWords(ScanQuad(g)[1])
GroupsOf(f, quadOk) ==
    IF \A k \in DOMAIN f : GoodGroup(f[k]) \/ (k = Len(f) /\ quadOk /\ ScanQuad(f[k]) # None)
    THEN Some(FlattenSeq([k \in DOMAIN f |-> GroupValue(f[k])])) ELSE None
Groups(s, quadOk) == IF s = <<>> THEN Some(<<>>) ELSE GroupsOf(Fields(s), quadOk)
\* An IPv6 address: eight groups, or fewer around one "::"; a colon that ends the
\* text after a group is passed over.
Eight(groups) == IF groups # None /\ Len(groups[1]) = 8 THEN groups ELSE None
Around(left, right) ==
    IF left = None \/ right = None THEN None
    ELSE IF Len(left[1]) + Len(right[1]) > 7 THEN None
    ELSE Some(left[1] \o [k \in 1..8 - Len(left[1]) - Len(right[1]) |-> 0] \o right[1])
AddressWith(t, gaps, whole) ==
    IF gaps = {} THEN Eight(Groups(t, whole))
    ELSE IF Cardinality(gaps) > 1 THEN None
    ELSE Around(Groups(SubSeq(t, 1, (CHOOSE k \in gaps : TRUE) - 1), FALSE), Groups(From(t, (CHOOSE k \in gaps : TRUE) + 2), whole))
AddressIn(t, whole) == AddressWith(t, {k \in 1..Len(t) - 1 : t[k] = Colon /\ t[k + 1] = Colon}, whole)
AddressOf(s) ==
    IF Len(s) > 1 /\ s[Len(s)] = Colon /\ s[Len(s) - 1] # Colon THEN AddressIn(Front(s), FALSE) ELSE AddressIn(s, TRUE)
\* evutil_inet_pton, which walks once over the text and moves the words behind the
\* gap, reads exactly the texts that the definition of an address allows, and as
\* the address they stand for.
TextsMeanAddresses(s) == evutil_inet_pton6(s) = AddressOf(s)

\* evutil_sockaddr_cmp is an order: opposite signs when the arguments change places,
\* transitive, and 0 exactly for equal addresses (with equal ports, when they count).
OrdersAddresses(as) ==
    \A port \in BOOLEAN : \A i, j, k \in DOMAIN as :
        LET c(x, y) == evutil_sockaddr_cmp(as[x], as[y], port)
        IN  /\ (c(i, j) < 0) = (c(j, i) > 0)
            /\ (c(i, j) = 0) = (as[i].addr = as[j].addr /\ as[i].family = as[j].family /\ (port => as[i].port = as[j].port))
            /\ c(i, j) <= 0 /\ c(j, k) <= 0 => c(i, k) <= 0

\* evutil_getaddrinfo_common_: an answer holds only families and socket types that
\* were asked for, all with the port, one of each type when any would do; an error
\* leaves nothing; a numeric host is never resolved, and no host is when the caller
\* forbade it or gave none.
AllTypes(res, f) == {res[k].socktype : k \in {i \in DOMAIN res : res[i].addr.family = f}} = {"stream", "dgram"}
AsAsked(r, families, node, hints) ==
    /\ hints.family = "unspec" \/ families = {hints.family}
    /\ node = None /\ hints.family = "unspec" => families = {"inet", "inet6"}
    /\ \A k \in DOMAIN r.res : /\ r.res[k].addr.port = r.port
                               /\ hints.socktype \in {"any", r.res[k].socktype}
                               /\ hints.protocol \in {"any", r.res[k].protocol}
    /\ hints.socktype = "any" /\ hints.protocol = "any" => \A f \in families : AllTypes(r.res, f)
Answers(r, node, hints, mem) ==
    /\ (r.res # <<>>) = (r.code = "ok")
    /\ r.code = "ok" => AsAsked(r, {r.res[k].addr.family : k \in DOMAIN r.res}, node, hints)
    /\ r.code = "need_resolve" => /\ node # None /\ "numerichost" \notin hints.flags /\ r.port >= 0
                                  /\ hints.family = "unspec" => NodeAddr(node[1], "unspec", 0) = None
    /\ r.code = "memory" => mem < 4
AnswersAsAsked(node, serv, hints, mem) == Answers(evutil_getaddrinfo_common_(node, serv, hints, mem), node, hints, mem)

------------------------------------------------------------------------------
(* evutil_getaddrinfo and what it needs: which address families this host  *)
(* has, the answers of gethostbyname and of the system's getaddrinfo, and  *)
(* the repairs of the latter.                                              *)

-----------------------------------------------------------------------------
(* Interfaces *)

evutil_v4addr_is_local_(b) == \/ b = <<0, 0, 0, 0>>
                              \/ b[1] = 127
                              \/ b[1] = 169 /\ b[2] = 254
                              \/ b[1] \div 16 = 14
\* Mutant: only the loopback address is local.
v6addr_is_loopback(w) == \A k \in 1..4 : w[k] = 0
evutil_v6addr_is_local_(w) == \/ \A k \in 1..4 : w[k] = 0
                              \/ (w[1] \div 256) \div 2 = 126
                              \/ w[1] \div 64 \in {1018, 1019}
                              \/ w[1] \div 256 = 255

\* The families that were found: [checked, inet, inet6].
NotChecked == [checked |-> FALSE, inet |-> FALSE, inet6 |-> FALSE]
evutil_found_ifaddr(have, a) ==
    [have EXCEPT !.inet = @ \/ (a.family = "inet" /\ (a.family = "inet" => ~evutil_v4addr_is_local_(a.addr))),
                 !.inet6 = @ \/ (a.family = "inet6" /\ (a.family = "inet6" => ~evutil_v6addr_is_local_(a.addr)))]
FoundAll(have, as) == LET f[k \in 0..Len(as)] == IF k = 0 THEN have ELSE evutil_found_ifaddr(f[k - 1], as[k]) IN f[Len(as)]
\* The addresses of all interfaces, or None when the system has no way to list them.
evutil_check_ifaddrs(have, host) == IF host.listed THEN Some(FoundAll(have, host.interfaces)) ELSE None
\* Then the addresses that sockets get which are connected to the outside.
evutil_check_interfaces(have, host) ==
    LET listed == evutil_check_ifaddrs([have EXCEPT !.checked = TRUE], host)
    IN  IF have.checked THEN have
        ELSE IF listed # None THEN listed[1]
        ELSE FoundAll([have EXCEPT !.checked = TRUE], host.outside)

evutil_adjust_hints_for_addrconfig_(hints, have) ==
    IF "addrconfig" \notin hints.flags \/ hints.family # "unspec" \/ have.inet = have.inet6 THEN hints
    ELSE [hints EXCEPT !.family = IF have.inet THEN "inet" ELSE "inet6"]

-----------------------------------------------------------------------------
(* The build without getaddrinfo *)

\* ent is [err, family, length, addrs], the answer of gethostbyname.
addrinfo_from_hostent(ent, port, hints, mem) ==
    LET one(k, left) == evutil_new_addrinfo_(Addr(ent.family, ent.addrs[k], port, 0), hints, left)
        f[k \in 0..Len(ent.addrs)] ==
            IF k = 0 THEN Some(<<>>)
            ELSE IF f[k - 1] = None THEN None
            ELSE IF one(k, mem - Len(f[k - 1][1])) = None THEN None
            ELSE Some(evutil_addrinfo_append_(f[k - 1][1], one(k, mem - Len(f[k - 1][1]))))
    IN  IF f[Len(ent.addrs)] = None THEN <<>> ELSE f[Len(ent.addrs)][1]
HostError(err) == CASE err = "try_again" -> "again" [] err = "not_found" -> "noname"
                    [] err = "no_address" -> "nodata" [] OTHER -> "fail"
HostAnswer(res) == [code |-> IF res = <<>> THEN "memory" ELSE "ok", res |-> res]
HostResolved(r, hints, ent, mem) ==
    IF r.code # "need_resolve" THEN [code |-> r.code, res |-> r.res]
    ELSE IF ent.err # "none" THEN [code |-> HostError(ent.err), res |-> <<>>]
    ELSE IF hints.family \notin {"unspec", ent.family} THEN [code |-> "noname", res |-> <<>>]
    ELSE IF ent.length = 0 THEN [code |-> "nodata", res |-> <<>>]
    ELSE IF ent.family \notin {"inet", "inet6"} THEN [code |-> "family", res |-> <<>>]
    ELSE HostAnswer(addrinfo_from_hostent(ent, r.port, infer_protocols(hints), mem))
HostLookup(node, serv, hints, ent, mem) == HostResolved(evutil_getaddrinfo_common_(node, serv, hints, mem), hints, ent, mem)
getaddrinfo_hostent(node, serv, hints_in, have, ent, mem) ==
    HostLookup(node, serv, evutil_adjust_hints_for_addrconfig_(hints_in, have), ent, mem)

-----------------------------------------------------------------------------
(* The build with one, whose faults are found by trying it *)

\* Entries of other families than these two, which lose their place, are left out.
\* faults: "port" (no numeric port without a socket type), "proto" (the protocol
\* as it was asked for, which may be any).
\* The entries of the system's getaddrinfo for one address.
Native(a, hints, port, faults) ==
    IF port # 0 /\ hints.socktype = "any" /\ "port" \in faults THEN None
    ELSE <<Entry([a EXCEPT !.port = port], hints.socktype, IF "proto" \in faults THEN hints.protocol ELSE infer_protocols(hints).protocol)>>
apply_numeric_port_hack(port, res) == [k \in DOMAIN res |-> [res[k] EXCEPT !.addr.port = port]]
Repaired(e) == LET i == infer_protocols([family |-> "unspec", socktype |-> e.socktype, protocol |-> e.protocol, flags |-> {}])
               IN  IF i.socktype = "any" /\ i.protocol = "any"
                   THEN <<Entry(e.addr, "stream", "tcp"), Entry(e.addr, "dgram", "udp")>>
                   ELSE <<Entry(e.addr, i.socktype, i.protocol)>>
\* None when there is no memory for the second entries.
apply_socktype_protocol_hack(res, mem) ==
    LET f[k \in 0..Len(res)] == IF k = 0 THEN <<>> ELSE f[k - 1] \o Repaired(res[k])
    IN  IF Len(f[Len(res)]) - Len(res) > mem THEN None ELSE f[Len(res)]
\* For the address a that the host's name stands for.
getaddrinfo_native(a, port, hints, faults, mem) ==
    LET np == "port" \in faults /\ port # 0 /\ hints.socktype = "any"
        asked == IF "proto" \in faults THEN infer_protocols(hints) ELSE hints
        res == Native(a, asked, IF np THEN 0 ELSE port, faults)
        ported == IF np THEN apply_numeric_port_hack(port, res) ELSE res
    IN  IF "proto" \in faults THEN apply_socktype_protocol_hack(ported, mem) ELSE ported

-----------------------------------------------------------------------------
\* With AI_ADDRCONFIG only families of which this host has an address that reaches
\* outside are asked for, unless it has none at all; and what is found is the same
\* whether the system lists its interfaces or sockets must be connected to find out.
Global(a) == CASE a.family = "inet" -> /\ a.addr[1] \in 1..223 \ {127}
                                       /\ ~(a.addr[1] = 169 /\ a.addr[2] = 254)
               [] a.family = "inet6" -> a.addr[1] \in 8192..16383
               [] OTHER -> FALSE
Reaches(host, family) == \E k \in DOMAIN host.interfaces : host.interfaces[k].family = family /\ Global(host.interfaces[k])
FamiliesReach(hints, host) ==
    LET have == evutil_check_interfaces(NotChecked, host)
        h == evutil_adjust_hints_for_addrconfig_(hints, have)
    IN  /\ have = evutil_check_interfaces(NotChecked, [host EXCEPT !.listed = ~@])
        /\ \A f \in {"inet", "inet6"} : have[f] = Reaches(host, f)
        /\ h # hints => Reaches(host, h.family) /\ \A f \in {"inet", "inet6"} \ {h.family} : ~Reaches(host, f)
        /\ "addrconfig" \in hints.flags /\ hints.family = "unspec" /\ h = hints => Reaches(host, "inet") = Reaches(host, "inet6")
\* Whichever faults the system's getaddrinfo has, the answers have the port and carry
\* the socket types and protocols that a resolver of our own would have given.
RepairsHide(a, port, hints) ==
    \A faults \in SUBSET {"port", "proto"} : "proto" \in faults =>
        LET r == getaddrinfo_native(a, port, hints, faults, 1)
        IN  r = evutil_new_addrinfo_([a EXCEPT !.port = port], infer_protocols(hints), 2)
\* An answer by gethostbyname is complete or an error, with the port that was found.
Whole(r, hints) ==
    /\ (r.code = "ok") = (r.res # <<>>)
    /\ \A k \in DOMAIN r.res : r.res[k].addr.family \in {"inet", "inet6"}
    /\ r.code = "ok" /\ hints.socktype = "any" /\ hints.protocol = "any" =>
          Cardinality({k \in DOMAIN r.res : r.res[k].socktype = "stream"}) * 2 = Len(r.res)
HostAnswersWhole(node, serv, hints, have, ent, mem) == Whole(getaddrinfo_hostent(node, serv, hints, have, ent, mem), hints)

-----------------------------------------------------------------------------
(* The clock of evutil_time.c that must never go back, for each of the     *)
(* builds, over a sequence of readings of the clocks below it: [time (the  *)
(* system's monotonic clock, in ticks), wall (gettimeofday), counter (the  *)
(* performance counter)].  One tick is the unit of all of them.            *)

Failed == -1
\* A timer: the clock it uses, the ratchet, and the state of the Windows build.
NewTimer == [clock |-> "wall", adjust |-> 0, last |-> 0, ticks |-> "own", last_tick |-> 0, adjust_tick |-> 0,
             first_tick |-> 0, perf |-> FALSE, first_counter |-> 0]

\* Mutant: the step back is not kept for later times.
adjust_once(base, tv) == IF tv < base.last THEN base ELSE [base EXCEPT !.last = tv]
adjust_monotonic_time(base, tv) ==
    LET t == tv + base.adjust
    IN  IF t < base.last THEN [base EXCEPT !.adjust = @ + (base.last - t)] ELSE [base EXCEPT !.last = t]

\* The tick count and the timer after it: the 64-bit count, the 32-bit one with the
\* bits Windows keeps above it, or the timer's own count of how often it started again.
evutil_GetTickCount_(base, r) ==
    LET ticks == r.time % Wrap
    IN  IF base.ticks # "own" THEN <<r.time, base>>
        ELSE LET b == [base EXCEPT !.adjust_tick = IF ticks < base.last_tick THEN @ + Wrap ELSE @, !.last_tick = ticks]
             IN  <<ticks + b.adjust_tick, b>>

configure_posix(flags, r) ==
    [NewTimer EXCEPT !.clock = IF "fallback" \in flags \/ "no_monotonic" \in flags THEN "wall" ELSE "time"]
configure_mach(flags, r) ==
    [NewTimer EXCEPT !.clock = IF "fallback" \in flags \/ r.time = 0 THEN "wall" ELSE "time"]
configure_win32(flags, r) ==
    LET found == [NewTimer EXCEPT !.ticks = IF "fallback" \in flags \/ "no_library" \in flags THEN "own" ELSE "64",
                                  !.clock = "ticks"]
        t == evutil_GetTickCount_(found, r)
        b == [t[2] EXCEPT !.first_tick = t[1], !.last_tick = t[1]]
    IN  IF "precise" \in flags /\ "fallback" \notin flags THEN [b EXCEPT !.perf = TRUE, !.first_counter = r.counter] ELSE b
configure_fallback(flags, r) == NewTimer
evutil_configure_monotonic_time_(build, flags, r) ==
    CASE build = "posix" -> configure_posix(flags, r)
      [] build = "mach" -> configure_mach(flags, r)
      [] build = "win32" -> configure_win32(flags, r)
      [] OTHER -> configure_fallback(flags, r)

abs64(i) == IF i < 0 THEN -i ELSE i
\* <<the time, the timer>>; a negative wall clock stands for a failing gettimeofday.
gettime_ratchet(base, tv) == LET b == adjust_monotonic_time(base, tv) IN <<b.last, b>>
gettime_wall(base, r) == IF r.wall < 0 THEN <<Failed, base>> ELSE gettime_ratchet(base, r.wall)
gettime_win32(base, r) ==
    LET t == evutil_GetTickCount_(base, r)
        counter == r.counter - base.first_counter
        ticks == t[1] - base.first_tick
    IN  IF ~base.perf THEN gettime_ratchet(t[2], t[1])
        ELSE IF abs64(ticks - counter) > Apart
             THEN gettime_ratchet([t[2] EXCEPT !.first_counter = r.counter - ticks], ticks)
             ELSE gettime_ratchet(t[2], counter)
evutil_gettime_monotonic_(base, r) ==
    CASE base.clock = "wall" -> gettime_wall(base, r)
      [] base.clock = "time" -> <<r.time, base>>
      [] OTHER -> gettime_win32(base, r)

\* The times and timers that the readings give; the first one configures the timer.
Times(build, flags, readings) ==
    LET f[k \in 1..Len(readings)] ==
            IF k = 1 THEN <<Failed, evutil_configure_monotonic_time_(build, flags, readings[1])>>
            ELSE evutil_gettime_monotonic_(f[k - 1][2], readings[k])
    IN  f

MaxSeconds == 2147482
\* Milliseconds, rounded up; -1 for what does not fit (in a 32-bit long).
evutil_tv_to_msec_(sec, usec) ==
    IF usec > 1000000 \/ sec > MaxSeconds THEN -1 ELSE sec * 1000 + ((usec + 999) \div 1000)

-----------------------------------------------------------------------------
\* In no build does the time go back, whatever the clocks below do; a wall clock that
\* is set back costs only the step itself, every later advance counts in full; and
\* ticks are counted on when the 32-bit count starts again, as long as the timer is
\* read once in each of its rounds.
ClockRatchets(build, flags, readings) ==
    LET t == Times(build, flags, readings)
        clock == t[1][2].clock
        step(k) == readings[k].wall - readings[k - 1].wall
    IN  Len(readings) > 1 =>
        /\ \A j, k \in 2..Len(readings) : j <= k /\ t[j][1] # Failed /\ t[k][1] # Failed => t[j][1] <= t[k][1]
        /\ \A k \in 3..Len(readings) : clock = "wall" /\ readings[k].wall >= 0 /\ readings[k - 1].wall >= 0 =>
              t[k][1] - t[k - 1][1] = IF step(k) > 0 THEN step(k) ELSE 0
        /\ clock = "ticks" /\ ~t[1][2].perf /\ (\A k \in 2..Len(readings) : readings[k].time - readings[k - 1].time < Wrap) =>
              \A k \in 3..Len(readings) : t[k][1] - t[2][1] = readings[k].time - readings[2].time
\* A time in milliseconds is never shorter than it was, and less than one longer: a
\* backend that waits so long does not wake before the timeout.
MsecCovers(sec, usec) ==
    LET m == evutil_tv_to_msec_(sec, usec)
    IN  m # -1 => m >= sec * 1000 /\ (m - sec * 1000) * 1000 >= usec /\ (m - sec * 1000) * 1000 < usec + 1000
=============================================================================
