------------------------------ MODULE MCCodecs ------------------------------
(***************************************************************************)
(* What libevent reads and writes, for TLC: URIs and HTTP messages,        *)
(* escapes and names of servers (HttpText), DNS packets (DnsWire), tagged  *)
(* values (Tagging), configuration files (ResolvConf), addresses, answers  *)
(* of getaddrinfo and clock readings (Evutil).  An input grows by one      *)
(* piece at a time, as it would arrive: every text up to the bound of its  *)
(* part, and every beginning of it, is looked at.                          *)
(***************************************************************************)
EXTENDS Integers, Sequences, TLC

CONSTANTS
    Parts,      \* which parts are exercised
    Bounds,     \* the most pieces of an input, per part
    BufLen, MaxUdp, MaxAddrs, MaxLabels, HostNameMax, Numbers, Addresses, HostDomain, Wrap, Apart

VARIABLES part, input

H == INSTANCE HttpText
D == INSTANCE DnsWire
T == INSTANCE Tagging
C == INSTANCE ResolvConf
N == INSTANCE Evutil

-----------------------------------------------------------------------------
(* Values of the constants *)

Pieces == [uri |-> 4, escape |-> 3, query |-> 2, request |-> 4, response |-> 4, message |-> 2, match |-> 4, vhost |-> 3,
           dnsname |-> 5, dnsreply |-> 2, tags |-> 2, tagbytes |-> 4, conf |-> 3, hosts |-> 2, address |-> 8,
           iptext |-> 5, order |-> 3, node |-> 2, interfaces |-> 2, clock |-> 4]
NumberTexts == [n0 |-> 0, n1 |-> 1000, n2500 |-> 2500, n300 |-> 300000, n70000 |-> 70000000]
AddressTexts == [localhost4 |-> 0, host1 |-> 0, host2 |-> 0, hostport |-> 53] @@ ("127.0.0.1" :> 0)
Domain == <<"home">>
-----------------------------------------------------------------------------
(* The pieces of each part, and where its inputs begin *)

b1 == <<98>>
Names == {<<b1>>, <<<<97, 98>>, b1>>, <<<<120>>, <<97, 98>>, b1>>, <<b1, <<>>>>}
Addr4 == {<<1, 2, 3, 4>>}
Item(name, type, data, ttl) == [name |-> name, type |-> type, data |-> data, ttl |-> ttl]
Items == {Item(n, 1, <<<<1, 2, 3, 4>>, <<9, 9, 9, 9>>>>, t) : n \in Names, t \in {1, 70000}}
         \cup {Item(n, 28, <<[k \in 1..16 |-> k]>>, 5) : n \in Names}
         \cup {Item(n, c, <<x>>, 7) : n \in Names, c \in {5, 12}, x \in Names}

Tagged(tag, kind, data) == [tag |-> tag, kind |-> kind, wide |-> FALSE, data |-> data]
Tags == {<<>>, <<1>>, <<0, 1>>, <<127, 127, 127, 127, 15>>}
Numbers16 == {<<>>, <<1>>, <<0, 1>>, <<15, 0, 15>>, [k \in 1..8 |-> 15]}
TagValues == {Tagged(t, "int", <<n>>) : t \in Tags, n \in Numbers16}
             \cup {[Tagged(t, "int", <<n>>) EXCEPT !.wide = TRUE] : t \in Tags, n \in {[k \in 1..16 |-> k - 1]}}
             \cup {Tagged(t, "timeval", <<m, n>>) : t \in {<<1>>}, m \in Numbers16 \cup {[k \in 1..9 |-> 1]}, n \in Numbers16}
             \cup {Tagged(t, k, <<d>>) : t \in Tags, k \in {"buffer", "fixed", "string", "bytes"}, d \in {<<>>, <<7, 0>>}}

W(s) == <<s>>
Bl == <<" ">>
ConfLines == {<<W("nameserver"), Bl, W("host1")>>, <<W("nameserver"), Bl, Bl, W("host2")>>, <<W("nameserver"), Bl, W("junk")>>,
              <<W("nameserver")>>, <<W("domain"), Bl, W("d1"), Bl, W("d2")>>, <<W("domain")>>, <<W("search")>>,
              <<W("search"), Bl, W("d2"), Bl, W("d1")>>,
              <<W("options"), Bl, <<"attempts", "n300">>, Bl, <<"timeout", "n2500">>>>,
              <<W("options"), Bl, <<"max-inflight", "n70000">>, Bl, <<"ndots", "n1">>>>,
              <<W("options"), Bl, <<"attempts", "n0">>, Bl, <<"timeout", "n0">>, Bl, <<"max-timeouts", "">>>>,
              <<W("options"), Bl, <<"initial-probe-timeout", "n70000">>, Bl, <<"bind-to", "hostport">>, Bl, <<"max-inflight", "n2500">>>>,
              <<W("other"), Bl, W("x")>>}
HostLines == {<<W("host1"), Bl, W("a"), Bl, W("b")>>, <<W("host2"), Bl, Bl, W("b"), Bl, <<"#">>, Bl, W("c")>>,
              <<W("hostport"), Bl, W("a")>>, <<W("junk"), Bl, W("a")>>, <<<<"#">>, Bl, W("host1"), Bl, W("a")>>,
              <<W("host1"), Bl, <<"a", "x">>, Bl, W("b")>>, <<W("host1")>>}

Ip(n) == [k \in 1..8 |-> IF k \in {1, 8} THEN n ELSE 0]
SomeAddrs == {N!Addr("inet", a, p, 0) : a \in {<<1, 0, 0, 2>>, <<2, 0, 0, 1>>, <<127, 0, 0, 1>>}, p \in {80, 256}}
             \cup {N!Addr("inet6", Ip(n), p, 0) : n \in {0, 258, 8193}, p \in {80, 256}}
Interfaces == {N!Addr("inet", a, 0, 0) : a \in {<<0, 0, 0, 0>>, <<127, 0, 0, 1>>, <<169, 254, 1, 1>>, <<224, 0, 0, 1>>, <<8, 8, 8, 8>>}}
              \cup {N!Addr("inet6", Ip(n), 0, 0) : n \in {0, 65152, 65281, 64512, 8193}} \cup {N!Addr("unix", <<>>, 0, 0)}
Readings == [time : {0, 3}, wall : {-1, 0, 2}, counter : {0, 3}]
Char == [k \in {"1", "f"} |-> IF k = "1" THEN 1 ELSE 15]

Headers == {H!H("Connection", "close"), H!H("Connection", "keep-alive"), H!H("Proxy-Connection", "keep-alive"),
            H!H("Content-Length", "0"), H!H("Transfer-Encoding", "chunked"), H!H("Expect", "100-continue"),
            [key |-> <<"X">>, value |-> <<"a", "\r", "\n", " ", "B">>], [key |-> <<"X">>, value |-> <<>>]}

Alphabet ==
    CASE part = "uri" -> {"http", ":", "/", "?", "#", "@", "[", "]", "ip6", "%", "a", "5", " "}
      [] part = "escape" -> {"%", "2", "0", "5", "+", " ", "?", "a", "B", "<", "&", "\"", "nul", "/"}
      [] part = "query" -> [key : {"a", "B"}, value : {<<>>, <<"a">>, <<" ">>, <<"%", "2", "0">>, <<"+">>, <<"/", "B">>}]
      [] part = "request" -> {"GET", " ", "/", "HTTP/1.1", "\r", "\n", "a", ":"}
      [] part = "response" -> {"HTTP/1.0", " ", "200", "\r", "\n", "a", "\t"}
      [] part = "message" -> Headers
      [] part = "match" -> {"*", "a", "."}
      [] part = "vhost" -> {"a", "B", "."}
      [] part = "dnsname" -> {0, 1, 2, 64, 192, 193}
      [] part = "dnsreply" -> Items
      [] part = "tags" -> TagValues
      [] part = "tagbytes" -> {0, 1, 17, 32, 127, 128, 129, 255}
      [] part = "conf" -> ConfLines
      [] part = "hosts" -> HostLines
      [] part = "address" -> {0, 1, 65535}
      [] part = "iptext" -> {1, 15, 16, 17, 0}
      [] part = "order" -> SomeAddrs
      [] part = "node" -> {1, 15, 16, 17, 18, 21}
      [] part = "interfaces" -> Interfaces
      [] OTHER -> Readings

Six == <<1, 16, 1, 16, 1, 16, 1, 16, 1, 16, 1, 16>>
Seeds(p) ==
    CASE p = "uri" -> {<<>>, <<"http", ":", "/", "/">>, <<"/", "/", "a", ":">>}
      [] p = "request" -> {<<"GET", " ", "/">>, <<"GET", " ", "/", " ", "HTTP/1.1", "\r", "\n">>,
                           <<"GET", " ", "/", " ", "HTTP/1.1", "\r", "\n", "a", ":", " ", "a", "\r", "\n">>}
      [] p = "response" -> {<<>>, <<"HTTP/1.0", " ", "200">>, <<"HTTP/1.0", " ", "200", " ", "\n">>}
      [] p = "tagbytes" -> {<<>>, <<128, 128, 128, 128>>}
      [] p = "iptext" -> {<<>>, Six, <<16, 16, 1, 17, 1, 17>>, Six \o <<1, 17, 1, 17>>, Six \o <<1, 16, 1>>}
      [] p = "node" -> {<<>>, <<16, 16>>, <<1, 17, 1, 17>>}
      [] OTHER -> {<<>>}

vars == <<part, input>>
Init == part \in Parts /\ input \in Seeds(part)
\* A time is not before the one that was read last.
Follows(piece) == IF part = "clock" /\ input # <<>> THEN [piece EXCEPT !.time = @ + input[Len(input)].time] ELSE piece
Feed ==
    /\ UNCHANGED part
    /\ \E seed \in Seeds(part) : /\ Len(input) \in Len(seed)..Len(seed) + Bounds[part] - 1
                                 /\ seed = SubSeq(input, 1, Len(seed))
    /\ \E piece \in Alphabet : input' = Append(input, Follows(piece))
Spec == Init /\ [][Feed]_vars

-----------------------------------------------------------------------------
(* What the properties give the operations besides the input *)

\* A server with two virtual hosts, one of which has one of its own.
Server(aliases, vhosts, pattern) == [aliases |-> aliases, vhosts |-> vhosts, pattern |-> pattern]
Trees == {[root |-> Server({<<"B">>}, <<"v1", "v2">>, <<>>), v1 |-> Server(al, <<"v3">>, p),
           v2 |-> Server({}, <<>>, <<"*", "B">>), v3 |-> Server({<<"a", "B">>}, <<>>, <<"*", "a">>)] :
             al \in {{}, {<<"a">>}}, p \in {<<"a", "*", "a">>, <<"a", "*">>, <<"*", "a">>}}
Tree == CHOOSE t \in Trees : TRUE
Requests(headers) ==
    [kind : {"request"}, type : {"GET", "POST", "CONNECT"}, version : {<<1, 1>>, <<1, 0>>}, uri : {<<"a", "/", "a", "5">>}, proxy : {FALSE},
     code : {0}, code_line : {<<>>}, input : {<<>>}, output : {headers}, body : {<<>>, <<"a">>}, default_type : {FALSE}]
Responses(headers) ==
    [kind : {"response"}, type : {"GET", "HEAD"}, version : {<<1, 1>>, <<1, 0>>}, uri : {<<"/">>}, proxy : BOOLEAN,
     code : {200, 204}, code_line : {<<"a">>}, input : {<<>>, <<H!H("Connection", "close")>>, <<H!H("Connection", "keep-alive")>>,
     <<H!H("Proxy-Connection", "keep-alive")>>}, output : {headers}, body : {<<>>, <<"a">>}, default_type : BOOLEAN]
ShortNames == {<<>>, <<"a">>, <<".">>, <<"a", "a">>, <<"a", ".">>, <<".", "a", "a">>, <<"a", ".", "a">>, <<"a", ".", "a", ".">>}
Hints == [family : {"unspec", "inet", "inet6", "other"}, socktype : {"any", "stream", "dgram", "raw"},
          protocol : {"any", "tcp", "udp", "sctp", "icmp"}, flags : {{}, {"passive"}, {"numerichost", "numericserv"}}]
FewHints == [family : {"unspec", "inet", "inet6"}, socktype : {"any", "stream"}, protocol : {"any", "udp"}, flags : {{}, {"addrconfig"}}]
Services == {<<>>, <<<<8, 0>>>>, <<<<21>>>>, <<<<6, 5, 5, 3, 6>>>>, <<<<>>>>}
Nodes == IF Len(input) = 0 THEN {<<>>, <<input>>} ELSE {<<input>>}
HostEnt(err, family, length, addrs) == [err |-> err, family |-> family, length |-> length, addrs |-> addrs]
Hosts == {HostEnt("none", "inet", 4, <<<<9, 9, 9, 9>>, <<8, 8, 8, 8>>>>), HostEnt("none", "inet6", 16, <<Ip(8193)>>),
          HostEnt("none", "unix", 108, <<<<>>>>), HostEnt("none", "inet", 0, <<>>), HostEnt("not_found", "inet", 4, <<>>)}
\* The host, whose sockets get addresses that reach outside when they are connected.
Outside == SelectSeq(input, LAMBDA a : N!Global(a))
Host == [listed |-> TRUE, interfaces |-> input, outside |-> Outside]
ClockFlags == SUBSET {"fallback", "precise"} \cup {{"no_library"}, {"no_monotonic"}}

-----------------------------------------------------------------------------
(* Properties *)

\* What the library writes, its own reader on the other side takes for what was
\* meant: URIs joined from their parts, escaped texts and queries, HTTP messages
\* however they are cut into packets, DNS requests and replies, streams of tagged
\* values, and the texts of addresses.
RoundTrips ==
    /\ part = "uri" => \A f \in {"none", "nonconformant"} : H!UriRoundTrips(input, f)
    /\ part = "escape" => H!EscapesRoundTrip(input)
    /\ part = "query" => H!QueriesRoundTrip(input)
    /\ part = "message" => \A r \in Requests(input) \cup Responses(input) : H!MessageRoundTrips(Tree, r)
    /\ part = "dnsreply" => \A n \in Names, t \in {1, 12, 28} : D!PacketsRoundTrip(n, t, input)
    /\ part = "tags" => T!StreamsRoundTrip(input) /\ (Len(input) = 1 => T!CutShortRefused(input[1]))
    /\ part = "address" /\ Len(input) = 8 => N!AddressRoundTrips(N!Addr("inet6", input, 80, 0))
    /\ part = "order" => \A k \in DOMAIN input : N!AddressRoundTrips(input[k])

\* Whatever comes in, from the network, a file or a clock, is read as its definition
\* says and no further than it goes: URI parts are those the setters take, messages
\* are the same however they arrive and their ends can be told, patterns match and
\* servers are found as described, DNS names end inside their packet and tagged values
\* inside their buffer, configuration lines, addresses and their order mean what they
\* should, getaddrinfo answers what was asked, and the time never goes back.
ReadsAsDefined ==
    /\ part = "uri" => \A f \in {"none", "nonconformant"} : H!UriPartsAccepted(input, f)
    /\ part = "request" => \A max \in {20, 100} : H!FragmentsAgree(Tree, "request", input, max)
    /\ part = "response" => \A max \in {12, 100} : H!FragmentsAgree(Tree, "response", input, max)
    /\ part = "message" => \A r \in Responses(input) : H!AnswersAreFramed(r)
    /\ part = "match" => \A n \in ShortNames : H!PatternsMatch(input, n)
    /\ part = "vhost" => \A t \in Trees : H!VhostsFound(t, input)
    /\ part = "dnsname" => \A room \in {3, 256} : D!NamesEnd(input, room)
    /\ part = "tagbytes" => T!ReadersStayInside(input)
    /\ part = "conf" => C!ConfMeans(input) /\ C!OwnStrtokAgrees(input)
    /\ part = "hosts" => C!HostsMean(input)
    /\ part = "iptext" => N!TextsMeanAddresses(input)
    /\ part = "order" => N!OrdersAddresses(input)
    /\ part = "node" => \A h \in Hints, s \in Services, n \in Nodes, mem \in {0, 1, 2, 3, 4} : N!AnswersAsAsked(n, s, h, mem)
    /\ part = "interfaces" => \A h \in FewHints : /\ N!FamiliesReach(h, Host)
                                                  /\ N!RepairsHide(N!Addr("inet", <<8, 8, 8, 8>>, 0, 0), 80, h)
                                                  /\ \A e \in Hosts, mem \in {0, 1, 3, 4} :
                                                       N!HostAnswersWhole(<<<<21>>>>, <<<<8, 0>>>>, h, N!evutil_check_interfaces(N!NotChecked, Host), e, mem)
    /\ part = "clock" => /\ \A b \in {"posix", "mach", "win32", "fallback"}, f \in ClockFlags : N!ClockRatchets(b, f, input)
                         /\ \A sec \in {0, 1, Len(input), 2147482, 2147483}, usec \in {0, 1, 999, 1000, 1001, 999999, 1000000} :
                              N!MsecCovers(sec, usec)
=============================================================================
