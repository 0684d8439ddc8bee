------------------------------ MODULE HttpText ------------------------------
(***************************************************************************)
(* The texts of http.c.  First the URI parser: evhttp_uri_parse_with_flags *)
(* and the functions it is made of, the setters, and evhttp_uri_join.      *)
(* Then what is written on the wire and read from it: the first line and   *)
(* the headers of a message, the escapes of URIs, queries and HTML, and    *)
(* the names a server compares a request with.                             *)
(*                                                                         *)
(* A string is a sequence of characters, a few of each class the code      *)
(* tells apart; a word that is compared as a whole ("Connection") is one   *)
(* character of its Width in bytes, and is given in one case where case is *)
(* ignored; "ip6" stands for the text of an IPv6 address (which            *)
(* evutil_inet_pton accepts between brackets).  An optional part is <<>>   *)
(* or a one-element sequence.                                              *)
(***************************************************************************)
EXTENDS Integers, SequencesExt

Alpha == {"a", "v", "B", "F", "http"}
Digit == {"0", "1", "2", "5", "7"}
XDigit == Digit \cup {"a", "B", "F"}
CHAR_IS_UNRESERVED == Alpha \cup Digit \cup {"-", "."}
SUBDELIMS == {"+"}
DigitValue == [d \in XDigit |-> CASE d = "0" -> 0 [] d = "1" -> 1 [] d = "2" -> 2 [] d = "5" -> 5 [] d = "7" -> 7
                                 [] d = "a" -> 10 [] d = "B" -> 11 [] d = "F" -> 15]
MaxPort == 65535

evhttp_uri_new == [flags |-> "none", scheme |-> <<>>, userinfo |-> <<>>, host |-> <<>>, port |-> -1,
                   path |-> <<>>, query |-> <<>>, fragment |-> <<>>]

At(s, i) == IF i \in 1..Len(s) THEN s[i] ELSE "nul"
Rest(s, i) == SubSeq(s, i, Len(s))

\* The first position from i on that holds one of chars, or the end.
FirstOf(s, i, chars) ==
    LET hits == {k \in i..Len(s) : s[k] \in chars}
    IN  IF hits = {} THEN Len(s) + 1 ELSE CHOOSE k \in hits : \A l \in hits : k <= l

\* The position after the longest run, from i on, of chars and %-escapes.
EndOfRun(s, i, chars) ==
    LET end[k \in i..Len(s) + 1] ==
            IF At(s, k) \in chars THEN end[k + 1]
            ELSE IF At(s, k) = "%" /\ At(s, k + 1) \in XDigit /\ At(s, k + 2) \in XDigit THEN end[k + 3]
            ELSE k
    IN  end[i]

scheme_ok(s) ==
    /\ s # <<>>
    /\ s[1] \in Alpha
    /\ \A i \in 2..Len(s) : s[i] \in Alpha \cup Digit \cup {"+", "-", "."}

userinfo_ok(s) == EndOfRun(s, 1, CHAR_IS_UNRESERVED \cup SUBDELIMS \cup {":"}) = Len(s) + 1

\* An escape is looked at past eos, where only a delimiter can stand.
regname_ok(s) == EndOfRun(s, 1, CHAR_IS_UNRESERVED \cup SUBDELIMS) = Len(s) + 1

\* -1 for anything but a number up to 65535; the loop stops before it overflows.
parse_port(s) ==
    LET port[i \in 0..Len(s)] ==
            IF i = 0 THEN 0
            ELSE IF port[i - 1] = -1 \/ s[i] \notin Digit THEN -1
            ELSE LET n == port[i - 1] * 10 + DigitValue[s[i]] IN IF n > MaxPort THEN -1 ELSE n
    IN  port[Len(s)]

bracket_addr_ok(s) ==
    /\ Len(s) >= 3 /\ s[1] = "[" /\ s[Len(s)] = "]"
    /\ IF s[2] = "v"
       THEN LET dot == FirstOf(s, 3, {".", "]"})
            IN  /\ s[3] \in XDigit
                /\ \A i \in 3..(dot - 1) : s[i] \in XDigit
                /\ s[dot] = "."
                /\ \A i \in (dot + 1)..(Len(s) - 1) : s[i] \in CHAR_IS_UNRESERVED \cup SUBDELIMS \cup {":"}
       ELSE SubSeq(s, 2, Len(s) - 1) = <<"ip6">>

\* [ok, userinfo, host, port] of the text between "//" and the path: at is the place
\* of the @, or the end, colon that of the last character which is no digit.
AuthorityParts(s, at, cp, colon) ==
    LET user == at <= Len(s)
        hasport == colon >= cp /\ s[colon] = ":"
        portpart == IF hasport THEN Rest(s, colon + 1) ELSE <<>>
        host == SubSeq(s, cp, IF hasport THEN colon - 1 ELSE Len(s))
    IN  [ok |-> /\ user => userinfo_ok(SubSeq(s, 1, at - 1))
                /\ portpart # <<>> => parse_port(portpart) >= 0
                /\ IF At(host, 1) = "[" /\ Len(host) >= 2 /\ At(host, Len(host)) = "]"
                   THEN bracket_addr_ok(host) ELSE regname_ok(host),
         userinfo |-> IF user THEN <<SubSeq(s, 1, at - 1)>> ELSE <<>>,
         host |-> <<host>>, port |-> IF portpart = <<>> THEN -1 ELSE parse_port(portpart)]
LastNonDigit(s, cp) == CHOOSE k \in (cp - 1)..Len(s) : /\ \A i \in (k + 1)..Len(s) : s[i] \in Digit
                                                       /\ k >= cp => s[k] \notin Digit
AuthorityFrom(s, at, cp) == AuthorityParts(s, at, cp, LastNonDigit(s, cp))
AuthorityAt(s, at) == AuthorityFrom(s, at, IF at <= Len(s) THEN at + 1 ELSE 1)
parse_authority(s) ==
    IF s = <<>> THEN [ok |-> TRUE, userinfo |-> <<>>, host |-> <<<<>>>>, port |-> -1]
    ELSE AuthorityAt(s, FirstOf(s, 1, {"@"}))

end_of_authority(s, i) == FirstOf(s, i, {"?", "#", "/"})

\* The end of the path, the query or the fragment that starts at i.
end_of_path(s, i, uri_part, flags) ==
    IF flags = "nonconformant"
    THEN FirstOf(s, i, CASE uri_part = "path" -> {"#", "?"} [] uri_part = "query" -> {"#"} [] OTHER -> {})
    ELSE EndOfRun(s, i, CHAR_IS_UNRESERVED \cup SUBDELIMS \cup {":", "@", "/"}
                        \cup (IF uri_part = "path" THEN {} ELSE {"?"}))

path_matches_noscheme(path) == At(path, FirstOf(path, 1, {":", "/"})) # ":"

\* The URI when all of the text is used and its parts go together, else <<>>: the
\* path starts at p, q, f and e are the ends of path, query and fragment.
Parsed(s, flags, scheme, authority, p, q, f, e) ==
    LET path == SubSeq(s, p, q - 1)
        auth == IF authority = <<>> THEN [ok |-> TRUE, userinfo |-> <<>>, host |-> <<>>, port |-> -1] ELSE authority[1]
    IN  IF /\ auth.ok
           /\ e = Len(s) + 1
           /\ ~(authority = <<>> /\ At(s, p) = "/" /\ q > p + 1 /\ At(s, p + 1) = "/")
           /\ authority # <<>> => q = p \/ At(s, p) = "/"
           /\ scheme # <<>> \/ path_matches_noscheme(path)
        THEN <<[flags |-> flags, scheme |-> scheme,
                userinfo |-> auth.userinfo, host |-> auth.host, port |-> auth.port, path |-> <<path>>,
                query |-> IF At(s, q) = "?" THEN <<SubSeq(s, q + 1, f - 1)>> ELSE <<>>,
                fragment |-> IF At(s, f) = "#" THEN <<SubSeq(s, f + 1, e - 1)>> ELSE <<>>]>>
        ELSE <<>>
ParseFragment(s, flags, scheme, authority, p, q, f) ==
    Parsed(s, flags, scheme, authority, p, q, f, IF At(s, f) = "#" THEN end_of_path(s, f + 1, "fragment", flags) ELSE f)
ParseQuery(s, flags, scheme, authority, p, q) ==
    ParseFragment(s, flags, scheme, authority, p, q, IF At(s, q) = "?" THEN end_of_path(s, q + 1, "query", flags) ELSE q)
ParsePath(s, flags, scheme, authority, p) ==
    ParseQuery(s, flags, scheme, authority, p, end_of_path(s, p, "path", flags))
ParseAuthorityTo(s, flags, scheme, start, p) ==
    ParsePath(s, flags, scheme, <<parse_authority(SubSeq(s, start + 2, p - 1))>>, p)
ParseRest(s, flags, scheme, start) ==
    IF At(s, start) = "/" /\ At(s, start + 1) = "/"
    THEN ParseAuthorityTo(s, flags, scheme, start, end_of_authority(s, start + 2))
    ELSE ParsePath(s, flags, scheme, <<>>, start)
ParseScheme(s, flags, colon) ==
    IF colon <= Len(s) /\ scheme_ok(SubSeq(s, 1, colon - 1))
    THEN ParseRest(s, flags, <<SubSeq(s, 1, colon - 1)>>, colon + 1) ELSE ParseRest(s, flags, <<>>, 1)
\* <<>> when the text is no URI, else <<the URI>>.
evhttp_uri_parse_with_flags(s, flags) == ParseScheme(s, flags, FirstOf(s, 1, {":"}))

\* CONNECT's target: an authority and nothing else; what follows is not looked at.
AuthorityUri(auth) ==
    IF auth.ok THEN <<[evhttp_uri_new EXCEPT !.userinfo = auth.userinfo, !.host = auth.host,
                                             !.port = auth.port, !.path = <<<<>>>>]>>
    ELSE <<>>
evhttp_uri_parse_authority(s) == AuthorityUri(parse_authority(SubSeq(s, 1, end_of_authority(s, 1) - 1)))

PortText(n) ==
    LET dig(d) == CHOOSE c \in Digit : DigitValue[c] = d
        text[k \in 0..MaxPort] == (IF k < 10 THEN <<>> ELSE text[k \div 10]) \o <<dig(k % 10)>>
    IN  text[n]

\* Mutant: a query or a fragment that is empty is left out.
opt_unless_empty(pre, part) == IF part \in {<<>>, <<<<>>>>} THEN <<>> ELSE pre \o part[1]
Opt(pre, part) == IF part = <<>> THEN <<>> ELSE pre \o part[1]

\* <<>> when the parts do not go together or the text, with its NUL, is over limit.
evhttp_uri_join(uri, limit) ==
    LET text == (IF uri.scheme = <<>> THEN <<>> ELSE uri.scheme[1] \o <<":">>)
                \o (IF uri.host = <<>> THEN <<>>
                    ELSE <<"/", "/">> \o (IF uri.userinfo = <<>> THEN <<>> ELSE uri.userinfo[1] \o <<"@">>)
                         \o uri.host[1] \o (IF uri.port >= 0 THEN <<":">> \o PortText(uri.port) ELSE <<>>))
                \o Opt(<<>>, uri.path) \o Opt(<<"?">>, uri.query) \o Opt(<<"#">>, uri.fragment)
        torn == uri.host # <<>> /\ uri.path # <<>> /\ At(uri.path[1], 1) \notin {"/", "nul"}
    IN  IF torn \/ Len(text) + 1 > limit THEN <<>> ELSE <<text>>

\* The setters: the URI as it was when the part is not acceptable.
evhttp_uri_set_scheme(uri, s) == IF s # <<>> /\ ~scheme_ok(s[1]) THEN uri ELSE [uri EXCEPT !.scheme = s]
evhttp_uri_set_userinfo(uri, s) == IF s # <<>> /\ ~userinfo_ok(s[1]) THEN uri ELSE [uri EXCEPT !.userinfo = s]
evhttp_uri_set_host(uri, s) ==
    IF s # <<>> /\ ~(IF At(s[1], 1) = "[" THEN bracket_addr_ok(s[1]) ELSE regname_ok(s[1]))
    THEN uri ELSE [uri EXCEPT !.host = s]
evhttp_uri_set_port(uri, port) == IF port < -1 THEN uri ELSE [uri EXCEPT !.port = port]
SetRun(uri, uri_part, s) ==
    IF s # <<>> /\ end_of_path(s[1], 1, uri_part, uri.flags) # Len(s[1]) + 1
    THEN uri ELSE [uri EXCEPT ![uri_part] = s]
evhttp_uri_set_path(uri, s) == SetRun(uri, "path", s)
evhttp_uri_set_query(uri, s) == SetRun(uri, "query", s)
evhttp_uri_set_fragment(uri, s) == SetRun(uri, "fragment", s)

\* A URI put together by the setters, from the parts of u.
Assemble(u) ==
    LET a == evhttp_uri_set_scheme([evhttp_uri_new EXCEPT !.flags = u.flags], u.scheme)
        b == evhttp_uri_set_host(evhttp_uri_set_userinfo(a, u.userinfo), u.host)
        c == evhttp_uri_set_path(evhttp_uri_set_port(b, u.port), u.path)
    IN  evhttp_uri_set_fragment(evhttp_uri_set_query(c, u.query), u.fragment)

-----------------------------------------------------------------------------
\* What is parsed can be written and parsed again: evhttp_uri_join of a URI that
\* evhttp_uri_parse_with_flags returned gives a text that parses to the same URI,
\* and needs exactly its length and a NUL of room.
ReadsBack(uri, text) ==
    /\ evhttp_uri_parse_with_flags(text, uri.flags) = <<uri>>
    /\ evhttp_uri_join(uri, Len(text)) = <<>>
UriRoundTrips(s, flags) ==
    \E got \in {evhttp_uri_parse_with_flags(s, flags)} :
        got # <<>> => \E join \in {evhttp_uri_join(got[1], Len(s) + 1)} : join # <<>> /\ ReadsBack(got[1], join[1])

\* Every part the parser takes is one the setters take: a URI can be copied part
\* by part.  The authority of a URI parses on its own to the same host and port.
Server(uri) == [uri EXCEPT !.scheme = <<>>, !.path = <<>>, !.query = <<>>, !.fragment = <<>>]
SameServer(uri, again) == again # <<>> /\ again[1].host = uri.host /\ again[1].port = uri.port
                                       /\ again[1].userinfo = uri.userinfo
UriPartsAccepted(s, flags) ==
    \E got \in {evhttp_uri_parse_with_flags(s, flags)} :
        got # <<>> =>
            /\ Assemble(got[1]) = got[1]
            /\ got[1].host # <<>> =>
                   SameServer(got[1], evhttp_uri_parse_authority(Rest(evhttp_uri_join(Server(got[1]), Len(s) + 1)[1], 3)))

-----------------------------------------------------------------------------
(* Messages on the wire.                                                   *)

CR == "\r"
LF == "\n"
Lws == {" ", "\t"}
Methods == {"GET", "PUT", "POST", "HEAD", "PATCH", "TRACE", "DELETE", "OPTIONS", "CONNECT"}
Versions == [v \in {"HTTP/1.0", "HTTP/1.1", "HTTP/2.0"} |->
                CASE v = "HTTP/1.0" -> <<1, 0>> [] v = "HTTP/1.1" -> <<1, 1>> [] OTHER -> <<2, 0>>]
Codes == [c \in {"200", "204"} |-> IF c = "200" THEN 200 ELSE 204]

Width(c) == CASE c \in DOMAIN Versions -> 8 [] c \in DOMAIN Codes -> 3 [] c \in {"GET", "PUT"} -> 3
              [] c \in {"POST", "HEAD"} -> 4 [] c \in {"CONNECT", "OPTIONS"} -> 7 [] OTHER -> 1
Bytes(s) == LET sum[i \in 0..Len(s)] == IF i = 0 THEN 0 ELSE sum[i - 1] + Width(s[i]) IN sum[Len(s)]

\* What a C string function sees.
CString(s) == SubSeq(s, 1, FirstOf(s, 1, {"nul"}) - 1)
SkipFirst(s, chars) ==
    LET keep == {i \in 1..Len(s) : s[i] \notin chars}
    IN  IF keep = {} THEN <<>> ELSE Rest(s, CHOOSE i \in keep : \A j \in keep : i <= j)
evutil_rtrim_lws_(s) == Reverse(SkipFirst(Reverse(s), Lws))

-----------------------------------------------------------------------------
(* Escapes *)

html_replace(ch) ==
    CASE ch = "<" -> <<"&", "lt", ";">> [] ch = ">" -> <<"&", "gt", ";">> [] ch = "\"" -> <<"&", "quot", ";">>
      [] ch = "'" -> <<"&", "#039", ";">> [] ch = "&" -> <<"&", "amp", ";">> [] OTHER -> <<ch>>
evhttp_htmlescape(html) == FlattenSeq([i \in 1..Len(html) |-> html_replace(html[i])])

CharCode == [c \in {"nul", " ", "+", "%", "/", "a", "B", "F"} \cup Digit |->
                CASE c \in Digit -> 48 + DigitValue[c] [] c = "nul" -> 0 [] c = " " -> 32 [] c = "%" -> 37
                  [] c = "+" -> 43 [] c = "/" -> 47 [] c = "B" -> 66 [] c = "F" -> 70 [] c = "a" -> 97]
Chr(n) == IF \E c \in DOMAIN CharCode : CharCode[c] = n
          THEN CHOOSE c \in DOMAIN CharCode : CharCode[c] = n ELSE "other"
\* printf("%02X")
Hex2(n) == [k \in 1..2 |-> CHOOSE d \in XDigit : DigitValue[d] = IF k = 1 THEN n \div 16 ELSE n % 16]

evhttp_uriencode(uri, space_as_plus) ==
    FlattenSeq([i \in 1..Len(uri) |->
        IF uri[i] \in CHAR_IS_UNRESERVED THEN <<uri[i]>>
        ELSE IF uri[i] = " " /\ space_as_plus THEN <<"+">>
        ELSE <<"%">> \o Hex2(CharCode[uri[i]])])

\* decode_plus_ctl < 0: a plus is a space after the first ?.
evhttp_decode_uri_internal(uri, decode_plus_ctl) ==
    LET plus(i) == \/ decode_plus_ctl = 1
                   \/ decode_plus_ctl < 0 /\ \E j \in 1..(i - 1) : uri[j] = "?"
        out[i \in 1..Len(uri) + 1] ==
            IF i > Len(uri) THEN <<>>
            ELSE IF uri[i] = "+" /\ plus(i) THEN <<" ">> \o out[i + 1]
            ELSE IF /\ i + 2 <= Len(uri) /\ uri[i] = "%"
                    /\ uri[i + 1] \in XDigit /\ uri[i + 2] \in XDigit
                 THEN <<Chr(16 * DigitValue[uri[i + 1]] + DigitValue[uri[i + 2]])>> \o out[i + 3]
            ELSE <<uri[i]>> \o out[i + 1]
    IN  out[1]

\* [ok, headers]: the arguments of a query, in order; none when one is malformed.
QueryArg(q, i, eq, end) ==
    [key |-> SubSeq(q, i, eq - 1), value |-> CString(evhttp_decode_uri_internal(SubSeq(q, eq + 1, end - 1), 1))]
RECURSIVE QueryArgs(_, _, _)
QueryArgs(q, i, found) ==
    LET end == FirstOf(q, i, {"&"})
        eq == FirstOf(q, i, {"="})
    IN  IF i > Len(q) THEN [ok |-> TRUE, headers |-> found]
        ELSE IF eq >= end \/ eq = i THEN [ok |-> FALSE, headers |-> <<>>]
        ELSE QueryArgs(q, IF end > Len(q) THEN end ELSE end + 1, Append(found, QueryArg(q, i, eq, end)))
QueryOf(uri) ==
    IF uri = <<>> THEN [ok |-> FALSE, headers |-> <<>>]
    ELSE QueryArgs(IF uri[1].query = <<>> THEN <<>> ELSE uri[1].query[1], 1, <<>>)
evhttp_parse_query_impl(str, is_whole_uri) ==
    IF is_whole_uri THEN QueryOf(evhttp_uri_parse_with_flags(str, "none")) ELSE QueryArgs(str, 1, <<>>)

-----------------------------------------------------------------------------
(* Headers: a sequence of [key, value] *)

\* The position of the first header of that name, 0 if there is none.
HeaderAt(headers, key) ==
    LET hits == {i \in 1..Len(headers) : headers[i].key = key}
    IN  IF hits = {} THEN 0 ELSE CHOOSE i \in hits : \A j \in hits : i <= j
evhttp_find_header(headers, key) ==
    IF HeaderAt(headers, key) = 0 THEN <<>> ELSE <<headers[HeaderAt(headers, key)].value>>
evhttp_remove_header(headers, key) ==
    IF HeaderAt(headers, key) = 0 THEN headers ELSE RemoveAt(headers, HeaderAt(headers, key))

\* Every run of line ends is followed by a space or a tab.
evhttp_header_is_valid_value(value) ==
    \A i \in 1..Len(value) : value[i] \in {CR, LF} => At(value, i + 1) \in {CR, LF} \cup Lws

\* <<>> when the header is dropped, else <<the headers>>.
evhttp_add_header(headers, key, value) ==
    IF (\E i \in 1..Len(key) : key[i] \in {CR, LF}) \/ ~evhttp_header_is_valid_value(value) THEN <<>>
    ELSE <<Append(headers, [key |-> key, value |-> value])>>

\* Mutant: a continued line is put on without a blank.
append_without_blank(headers, line) ==
    IF headers = <<>> THEN <<>>
    ELSE <<[headers EXCEPT ![Len(headers)].value = @ \o evutil_rtrim_lws_(SkipFirst(line, Lws))]>>
evhttp_append_to_last_header(headers, line) ==
    IF headers = <<>> THEN <<>>
    ELSE <<[headers EXCEPT ![Len(headers)].value = @ \o <<" ">> \o evutil_rtrim_lws_(SkipFirst(line, Lws))]>>

\* evbuffer_readln(EVBUFFER_EOL_CRLF): [ok, line, rest]; lf is the place of the line end.
LineTo(buf, lf) ==
    IF lf > Len(buf) THEN [ok |-> FALSE, line |-> <<>>, rest |-> buf]
    ELSE [ok |-> TRUE, line |-> SubSeq(buf, 1, IF lf > 1 /\ At(buf, lf - 1) = CR THEN lf - 2 ELSE lf - 1),
          rest |-> Rest(buf, lf + 1)]
evbuffer_readln(buf) == LineTo(buf, FirstOf(buf, 1, {LF}))

\* A reader: [status, headers, size, buf, max]; status is that of the last call.
HeaderWithColon(headers, line, colon) ==
    IF colon > Len(line) THEN <<>>
    ELSE evhttp_add_header(headers, SubSeq(line, 1, colon - 1), evutil_rtrim_lws_(SkipFirst(Rest(line, colon + 1), {" "})))
ParseHeaderLine(headers, line) ==
    IF line[1] \in Lws THEN evhttp_append_to_last_header(headers, line)
    ELSE HeaderWithColon(headers, line, FirstOf(line, 1, {":"}))

\* One line, with the headers it leads to; then the next.
RECURSIVE evhttp_parse_headers_(_)
HeaderLine(r, line, new) ==
    IF r.size > r.max THEN [r EXCEPT !.status = "DATA_TOO_LONG"]
    ELSE IF line = <<>> THEN [r EXCEPT !.status = "ALL_DATA_READ"]
    ELSE IF new = <<>> THEN [r EXCEPT !.status = "DATA_CORRUPTED"]
    ELSE evhttp_parse_headers_([r EXCEPT !.headers = new[1]])
HeaderRead(r, got) ==
    IF ~got.ok THEN [r EXCEPT !.status = IF r.size + Bytes(r.buf) > r.max THEN "DATA_TOO_LONG" ELSE "MORE_DATA_EXPECTED"]
    ELSE HeaderLine([r EXCEPT !.buf = got.rest, !.size = @ + Bytes(got.line)], got.line,
                    IF got.line = <<>> THEN <<>> ELSE ParseHeaderLine(r.headers, got.line))
evhttp_parse_headers_(r) == HeaderRead(r, evbuffer_readln(r.buf))

-----------------------------------------------------------------------------
(* First lines *)

\* <<major, minor>>, or <<>>.
evhttp_parse_http_version(s) ==
    IF Len(s) = 1 /\ s[1] \in DOMAIN Versions /\ Versions[s[1]][1] <= 1 THEN Versions[s[1]] ELSE <<>>

\* <<[version, code, line]>>, or <<>>.
evhttp_parse_response_line(line) ==
    LET s1 == FirstOf(line, 1, {" "})
        s2 == FirstOf(line, s1 + 1, {" "})
        version == evhttp_parse_http_version(SubSeq(line, 1, s1 - 1))
        code == At(line, s1 + 1)
    IN  IF s1 > Len(line) \/ version = <<>> \/ code \notin DOMAIN Codes THEN <<>>
        ELSE <<[version |-> version, code |-> Codes[code], line |-> Rest(line, s2 + 1)]>>

\* A server: its aliases, its virtual hosts in order and the pattern of each.
RECURSIVE prefix_suffix_match(_, _)
prefix_suffix_match(pattern, name) ==
    IF pattern = <<>> THEN name = <<>>
    ELSE IF Head(pattern) = "*"
    THEN \E i \in 1..Len(name) : prefix_suffix_match(Tail(pattern), Rest(name, i))
    ELSE name # <<>> /\ Head(name) = Head(pattern) /\ prefix_suffix_match(Tail(pattern), Tail(name))

RECURSIVE evhttp_find_alias(_, _, _)
evhttp_find_alias(tree, http, hostname) ==
    IF hostname \in tree[http].aliases THEN <<http>>
    ELSE LET found[i \in 0..Len(tree[http].vhosts)] ==
                 IF i = 0 THEN <<>> ELSE IF found[i - 1] # <<>> THEN found[i - 1]
                 ELSE evhttp_find_alias(tree, tree[http].vhosts[i], hostname)
         IN  found[Len(tree[http].vhosts)]

RECURSIVE MatchDown(_, _, _)
MatchDown(tree, http, hostname) ==
    LET hits == SelectSeq(tree[http].vhosts, LAMBDA v : prefix_suffix_match(tree[v].pattern, hostname))
    IN  IF hits = <<>> THEN http ELSE MatchDown(tree, hits[1], hostname)

\* Mutant: the aliases are looked at after the patterns.
find_vhost_patterns_first(tree, http, hostname) ==
    LET down == MatchDown(tree, http, hostname)
        alias == evhttp_find_alias(tree, http, hostname)
    IN  IF down # http \/ alias = <<>> THEN [found |-> down # http, http |-> down] ELSE [found |-> TRUE, http |-> alias[1]]
\* [found, http]
evhttp_find_vhost(tree, http, hostname) ==
    LET alias == evhttp_find_alias(tree, http, hostname)
        down == MatchDown(tree, http, hostname)
    IN  IF alias # <<>> THEN [found |-> TRUE, http |-> alias[1]] ELSE [found |-> down # http, http |-> down]

\* <<[type, version, uri, elems, proxy]>>, or <<>>.
RequestLine(tree, type, version, uri, elems) ==
    IF version = <<>> \/ elems = <<>> THEN <<>>
    ELSE <<[type |-> type, version |-> version, uri |-> uri, elems |-> elems[1],
            proxy |-> /\ elems[1].scheme = <<<<"http">>>> /\ elems[1].host # <<>>
                      /\ ~evhttp_find_vhost(tree, "root", elems[1].host[1]).found]>>
RequestTarget(tree, type, version, uri) ==
    RequestLine(tree, type, version, uri, IF type = "CONNECT" THEN evhttp_uri_parse_authority(uri)
                                          ELSE evhttp_uri_parse_with_flags(uri, "nonconformant"))
\* s1 and s2: the first and the last space of the line.
RequestWords(tree, line, s1, s2) ==
    IF Bytes(line) < 14 \/ s1 > Len(line) \/ s2 <= s1 + 1 THEN <<>>
    ELSE RequestTarget(tree, IF s1 = 2 /\ line[1] \in Methods THEN line[1] ELSE "UNKNOWN",
                       evhttp_parse_http_version(Rest(line, s2 + 1)), SubSeq(line, s1 + 1, s2 - 1))
RequestTrimmed(tree, line) ==
    RequestWords(tree, line, FirstOf(line, 1, {" "}), Len(line) + 1 - FirstOf(Reverse(line), 1, {" "}))
evhttp_parse_request_line(tree, line) == RequestTrimmed(tree, Reverse(SkipFirst(Reverse(line), {" "})))

\* The reader after the first line, and what the line says.
FirstLineSays(r, msg) == <<[r EXCEPT !.status = IF msg = <<>> THEN "DATA_CORRUPTED" ELSE "ALL_DATA_READ"], msg>>
FirstLineRead(tree, kind, r, got) ==
    IF ~got.ok THEN <<[r EXCEPT !.status = IF Bytes(r.buf) > r.max THEN "DATA_TOO_LONG" ELSE "MORE_DATA_EXPECTED"], <<>>>>
    ELSE IF Bytes(got.line) > r.max THEN <<[r EXCEPT !.buf = got.rest, !.status = "DATA_TOO_LONG"], <<>>>>
    ELSE FirstLineSays([r EXCEPT !.buf = got.rest, !.size = Bytes(got.line)],
                       IF kind = "request" THEN evhttp_parse_request_line(tree, got.line) ELSE evhttp_parse_response_line(got.line))
evhttp_parse_firstline_(tree, kind, r) == FirstLineRead(tree, kind, r, evbuffer_readln(r.buf))

-----------------------------------------------------------------------------
(* Writing a message.  A request: kind, type, version, uri, proxy, code,   *)
(* code_line, input and output headers, body, and the server's default     *)
(* content type                                                            *)

H(name, value) == [key |-> <<name>>, value |-> <<value>>]
Has(headers, name) == evhttp_find_header(headers, <<name>>) # <<>>
Says(headers, name, value) == evhttp_find_header(headers, <<name>>) = <<<<value>>>>
Unless(headers, names, h) == IF \E n \in names : Has(headers, n) THEN headers ELSE Append(headers, h)

evhttp_response_needs_body(req) ==
    req.code \notin {204, 304} /\ (req.code < 100 \/ req.code >= 200) /\ req.type \notin {"CONNECT", "HEAD"}

evhttp_is_connection_close(proxy, headers) ==
    IF proxy THEN ~Says(headers, "Proxy-Connection", "keep-alive") ELSE Says(headers, "Connection", "close")
evhttp_is_request_connection_close(req) ==
    /\ req.type # "CONNECT"
    /\ evhttp_is_connection_close(req.proxy, req.input) \/ evhttp_is_connection_close(req.proxy, req.output)
evhttp_is_connection_keepalive(headers) == Says(headers, "Connection", "keep-alive")

evhttp_maybe_add_date_header(headers) == Unless(headers, {"Date"}, H("Date", "date"))
evhttp_maybe_add_content_length_header(headers, n) ==
    Unless(headers, {"Transfer-Encoding", "Content-Length"}, H("Content-Length", ToString(n)))

VersionText(v) == CHOOSE t \in DOMAIN Versions : Versions[t] = v
CodeText(n) == CHOOSE t \in DOMAIN Codes : Codes[t] = n

\* The headers of a request as they are written.
evhttp_make_header_request(req) ==
    LET h == evhttp_remove_header(req.output, <<"Proxy-Connection">>)
    IN  IF req.type \in {"POST", "PUT"} THEN Unless(h, {"Content-Length"}, H("Content-Length", ToString(Len(req.body))))
        ELSE h

evhttp_make_header_response(req) ==
    LET keep == evhttp_is_connection_keepalive(req.input)
        minor == req.version[2]
        h1 == IF req.version[1] # 1 THEN req.output
              ELSE LET d == IF minor >= 1 THEN evhttp_maybe_add_date_header(req.output) ELSE req.output
                       k == IF minor = 0 /\ keep THEN Append(d, H("Connection", "keep-alive")) ELSE d
                   IN  IF (minor >= 1 \/ keep) /\ evhttp_response_needs_body(req)
                       THEN evhttp_maybe_add_content_length_header(k, Len(req.body)) ELSE k
        h2 == IF evhttp_response_needs_body(req) /\ req.default_type
              THEN Unless(h1, {"Content-Type"}, H("Content-Type", "text/html")) ELSE h1
        h3 == evhttp_remove_header(h2, <<"Connection">>)
        h4 == IF req.proxy THEN h3 ELSE Append(h3, H("Connection", "close"))
    IN  IF evhttp_is_connection_close(req.proxy, req.input) THEN evhttp_remove_header(h4, <<"Proxy-Connection">>)
        ELSE h2

evhttp_have_expect(req) ==
    IF req.kind # "request" \/ req.version[2] = 0 \/ ~Has(req.output, "Expect") THEN "NO"
    ELSE IF Says(req.output, "Expect", "100-continue") THEN "CONTINUE" ELSE "OTHER"

evhttp_make_header(req) ==
    LET first == IF req.kind = "request" THEN <<req.type, " ">> \o req.uri \o <<" ", VersionText(req.version)>>
                 ELSE <<VersionText(req.version), " ", CodeText(req.code), " ">> \o req.code_line
        headers == IF req.kind = "request" THEN evhttp_make_header_request(req) ELSE evhttp_make_header_response(req)
        lines == FlattenSeq([i \in 1..Len(headers) |-> headers[i].key \o <<":", " ">> \o headers[i].value \o <<CR, LF>>])
    IN  first \o <<CR, LF>> \o lines \o <<CR, LF>> \o (IF evhttp_have_expect(req) = "CONTINUE" THEN <<>> ELSE req.body)

\* The host of a request: of its URI, or of the Host header without the port.
evhttp_request_get_host(host, headers) ==
    LET h == evhttp_find_header(headers, <<"Host">>)
        colon == CHOOSE k \in 1..Len(h[1]) : /\ \A i \in (k + 1)..Len(h[1]) : h[1][i] \in Digit
                                             /\ k > 1 => h[1][k] \notin Digit
    IN  IF host # <<>> \/ h \in {<<>>, <<<<>>>>} THEN (IF host # <<>> THEN host ELSE h)
        ELSE IF colon > 1 /\ h[1][colon] = ":" THEN <<SubSeq(h[1], 1, colon - 1)>> ELSE h

\* The callbacks of a server: the paths they are for.
evhttp_set_cb(callbacks, uri) == IF Contains(callbacks, uri) THEN callbacks ELSE Append(callbacks, uri)
evhttp_del_cb(callbacks, uri) == RemoveFirst(callbacks, uri)
evhttp_dispatch_callback(callbacks, path) ==
    SelectSeq(callbacks, LAMBDA what : what = CString(evhttp_decode_uri_internal(path, 0)))

-----------------------------------------------------------------------------
(* What they are for *)

\* What is escaped is read back, whatever the characters; text that was never
\* escaped decodes to no more than its length (the buffer is that long), and
\* escaped HTML keeps none of the characters that mean something.
EscapesRoundTrip(s) ==
    LET html == evhttp_htmlescape(s)
    IN  /\ Range(s) \subseteq DOMAIN CharCode =>
               \A plus \in BOOLEAN :
                   evhttp_decode_uri_internal(evhttp_uriencode(s, plus), IF plus THEN 1 ELSE 0) = s
        /\ \A ctl \in {-1, 0, 1} : Len(evhttp_decode_uri_internal(s, ctl)) <= Len(s)
        /\ \A i \in 1..Len(html) : /\ html[i] \notin {"<", ">", "\"", "'"}
                                    /\ html[i] = "&" => html_replace(CHOOSE c \in Range(s) : html_replace(c)
                                                              = SubSeq(html, i, i + 2)) = SubSeq(html, i, i + 2)

\* A query made of escaped values is parsed back to the pairs it was made of, on
\* its own and as a part of a URI; a path that is set as a callback is found by
\* its escaped form, until it is deleted.
QueriesRoundTrip(pairs) ==
    LET text == [i \in 1..Len(pairs) |-> (IF i = 1 THEN <<>> ELSE <<"&">>) \o <<pairs[i].key, "=">>
                                         \o evhttp_uriencode(pairs[i].value, TRUE)]
        want == [ok |-> TRUE, headers |-> [i \in 1..Len(pairs) |-> [key |-> <<pairs[i].key>>, value |-> pairs[i].value]]]
        cbs[i \in 0..Len(pairs)] == IF i = 0 THEN <<>> ELSE evhttp_set_cb(cbs[i - 1], pairs[i].value)
    IN  /\ evhttp_parse_query_impl(FlattenSeq(text), FALSE) = want
        /\ \A i \in 1..Len(pairs) :
               LET path == evhttp_uriencode(pairs[i].value, FALSE)
               IN  /\ evhttp_dispatch_callback(cbs[Len(pairs)], path) = <<pairs[i].value>>
                   /\ evhttp_dispatch_callback(evhttp_del_cb(cbs[Len(pairs)], pairs[i].value), path) = <<>>

\* A connection that reads a message: in its first line, in its headers, or done.
NewReader(buf, max) == [r |-> [status |-> "new", headers |-> <<>>, size |-> 0, buf |-> buf, max |-> max],
                        phase |-> "firstline", msg |-> <<>>]
InHeaders(r, msg) == [r |-> r, msg |-> msg, phase |-> IF r.status = "MORE_DATA_EXPECTED" THEN "headers" ELSE "done"]
AfterFirstLine(first) ==
    CASE first[1].status = "ALL_DATA_READ" -> InHeaders(evhttp_parse_headers_(first[1]), first[2])
      [] first[1].status = "MORE_DATA_EXPECTED" -> [r |-> first[1], msg |-> first[2], phase |-> "firstline"]
      [] OTHER -> [r |-> first[1], msg |-> first[2], phase |-> "done"]
ReadInput(tree, kind, c) ==
    CASE c.phase = "firstline" -> AfterFirstLine(evhttp_parse_firstline_(tree, kind, c.r))
      [] c.phase = "headers" -> InHeaders(evhttp_parse_headers_(c.r), c.msg)
      [] OTHER -> c
ReadChunk(tree, kind, c, chunk) == ReadInput(tree, kind, [c EXCEPT !.r.buf = @ \o chunk])

\* How the bytes of a message arrive does not matter: read in two parts, it gives
\* the message and the headers it gives read at once, except that a message over
\* the size limit may be refused earlier (evhttp_parse_headers_ counts the line
\* ends of what waits in the buffer, not those of the lines it has read).
SameReading(whole, two, over) ==
    \/ /\ two.r.status = whole.r.status /\ two.msg = whole.msg
       /\ two.r.headers = whole.r.headers /\ two.r.buf = whole.r.buf
    \/ two.r.status = "DATA_TOO_LONG" /\ over
InTwo(tree, kind, text, max, k) ==
    ReadChunk(tree, kind, ReadChunk(tree, kind, NewReader(<<>>, max), SubSeq(text, 1, k)), Rest(text, k + 1))
FragmentsAgree(tree, kind, text, max) ==
    \E whole \in {ReadChunk(tree, kind, NewReader(<<>>, max), text)} :
        \A k \in 0..Len(text) : SameReading(whole, InTwo(tree, kind, text, max, k), Bytes(text) > max)

\* A folded value as it is read: its lines, trimmed, with a space between.
RECURSIVE Unfold(_)
Unfold(value) ==
    LET nl == FirstOf(value, 1, {CR, LF})
        line == evutil_rtrim_lws_(SkipFirst(SubSeq(value, 1, nl - 1), Lws))
    IN  IF nl > Len(value) THEN line ELSE line \o <<" ">> \o Unfold(SkipFirst(Rest(value, nl), {CR, LF}))

\* A message that is written is read back: the type, the URI or the code, and the
\* headers in their order, folded values in one line; what is left is the body.
ReadAs(req, got, headers) ==
    /\ got.r.status = "ALL_DATA_READ"
    /\ got.r.headers = [i \in 1..Len(headers) |-> [headers[i] EXCEPT !.value = Unfold(@)]]
    /\ got.r.buf = (IF evhttp_have_expect(req) = "CONTINUE" THEN <<>> ELSE req.body)
    /\ got.msg[1].version = req.version
    /\ IF req.kind = "request" THEN got.msg[1].type = req.type /\ got.msg[1].uri = req.uri
       ELSE got.msg[1].code = req.code /\ got.msg[1].line = req.code_line
MessageRoundTrips(tree, req) ==
    ReadAs(req, ReadChunk(tree, req.kind, NewReader(<<>>, 1000), evhttp_make_header(req)),
           IF req.kind = "request" THEN evhttp_make_header_request(req) ELSE evhttp_make_header_response(req))

\* The other side can tell where the answer ends: unless the connection is to be
\* closed, an answer with a body carries its length or its encoding; and whoever
\* asked for a close is told so.
AnswersAreFramed(req) ==
    LET out == evhttp_make_header_response(req)
        closes == evhttp_is_connection_close(req.proxy, req.input)
        lasts == req.version = <<1, 1>> \/ evhttp_is_connection_keepalive(req.input)
    IN  req.kind = "response" =>
            /\ (evhttp_response_needs_body(req) /\ lasts) => (Has(out, "Content-Length") \/ Has(out, "Transfer-Encoding"))
            /\ (closes /\ ~req.proxy) => \E i \in 1..Len(out) : out[i] = H("Connection", "close")

\* A pattern matches the names its stars can be filled in to give; a star at its
\* end never matches.
Glob(pattern, name) ==
    LET m[i \in 0..Len(pattern), j \in 0..Len(name)] ==
            IF i = 0 THEN j = 0
            ELSE IF pattern[i] = "*" THEN \E k \in 0..j : m[i - 1, k]
            ELSE j > 0 /\ name[j] = pattern[i] /\ m[i - 1, j - 1]
    IN  m[Len(pattern), Len(name)]
PatternsMatch(pattern, name) ==
    prefix_suffix_match(pattern, name) <=> Glob(pattern, name) /\ (pattern # <<>> => Last(pattern) # "*")

\* A host that is an alias anywhere is served there; otherwise the server is the
\* deepest whose patterns match, from the root down.
VhostsFound(tree, host) ==
    LET got == evhttp_find_vhost(tree, "root", host)
        aliased == {s \in DOMAIN tree : host \in tree[s].aliases}
    IN  /\ aliased # {} => got.found /\ got.http \in aliased
        /\ aliased = {} => /\ got.found <=> got.http # "root"
                           /\ got.found => Glob(tree[got.http].pattern, host)
                           /\ \A i \in 1..Len(tree[got.http].vhosts) :
                                  ~prefix_suffix_match(tree[tree[got.http].vhosts[i]].pattern, host)
=============================================================================
