----------------------------- MODULE ResolvConf -----------------------------
(***************************************************************************)
(* The configuration files of evdns.c: resolv.conf, the options, and the   *)
(* hosts file.  A file is a sequence of lines, a line a sequence of words  *)
(* and of the blanks between them (<<" ">>).  A word is <<text>>; one with *)
(* a colon (an option) or a # inside (a host's name) is the two texts      *)
(* around it, and the word <<"#", ...>> begins with one.                   *)
(***************************************************************************)
EXTENDS Integers, Sequences, SequencesExt

CONSTANTS
    Numbers,    \* the texts that are numbers, with their values in thousandths
    Addresses,  \* the texts that are addresses, with their ports (0: none)
    HostDomain  \* <<the domain of gethostname()>>, or <<>>

Blank == <<" ">>

\* The words of a line: strtok_r of the C library, which skips runs of blanks ...
strtok_libc(line) == SelectSeq(line, LAMBDA w : w # Blank)
\* ... and evdns.c's own, for systems without it, which takes what is between two
\* blanks as a word, and ends at an empty rest.
strtok_r(line) ==
    LET word(i) == IF i <= Len(line) /\ line[i] # Blank THEN line[i] ELSE <<"">>
        words[i \in 1..Len(line) + 2] ==
            IF i > Len(line) THEN <<>>
            ELSE <<word(i)>> \o words[IF line[i] = Blank THEN i + 1 ELSE i + 2]
    IN  words[1]

-----------------------------------------------------------------------------
(* Options *)

Bad == -1
strtoint(val) == IF val = "" THEN 0
                 ELSE IF val \notin DOMAIN Numbers \/ (val \in DOMAIN Numbers => Numbers[val] % 1000 # 0) THEN Bad
                 ELSE Numbers[val] \div 1000
\* In milliseconds; less than one is an error.
evdns_strtotimeval(val) == IF val \in DOMAIN Numbers /\ (val \in DOMAIN Numbers => Numbers[val] >= 1)
                           THEN Numbers[val] ELSE Bad
Clip(n, min, max) == IF n < min THEN min ELSE IF n > max THEN max ELSE n
\* Mutant: only the upper limit is looked at.
strtoint_below(val, min, max) == LET r == strtoint(val) IN IF r > max THEN max ELSE r
strtoint_clipped(val, min, max) == LET r == strtoint(val) IN IF r = Bad THEN Bad ELSE Clip(r, min, max)

OptionNames == {"ndots", "timeout", "getaddrinfo-allow-skew", "max-timeouts", "max-inflight", "attempts",
                "randomize-case", "bind-to", "initial-probe-timeout", "so-rcvbuf", "so-sndbuf"}
NeedsFlag(option) == CASE option = "ndots" -> "search" [] option = "bind-to" -> "nameservers" [] OTHER -> "misc"

OptionValue(option, val) ==
    CASE option \in {"timeout", "getaddrinfo-allow-skew"} -> evdns_strtotimeval(val)
      [] option = "initial-probe-timeout" -> LET t == evdns_strtotimeval(val) IN IF t >= 3601000 THEN 3600000 + (t % 1000) ELSE t
      [] option = "max-timeouts" -> strtoint_clipped(val, 1, 255)
      [] option = "max-inflight" -> strtoint_clipped(val, 1, 65000)
      [] option = "attempts" -> LET r == strtoint(val) IN IF r > 255 THEN 255 ELSE r
      [] option = "bind-to" -> IF val \in DOMAIN Addresses THEN Addresses[val] ELSE Bad
      [] OTHER -> strtoint(val)

\* A base: servers, domains and options that were set (option -> value).
NewConf == [servers |-> <<>>, domains |-> <<>>, search |-> FALSE, options |-> [o \in {} |-> 0], hosts |-> <<>>]
Set(f, k, v) == [x \in DOMAIN f \cup {k} |-> IF x = k THEN v ELSE f[x]]

\* The base, changed unless the value is bad or the flags leave the option out.
evdns_base_set_option_impl(base, option, val, flags) ==
    IF option \notin OptionNames THEN base
    ELSE IF NeedsFlag(option) \notin flags \/ OptionValue(option, val) = Bad THEN base
    ELSE [base EXCEPT !.options = Set(@, option, OptionValue(option, val)), !.search = @ \/ option = "ndots"]

-----------------------------------------------------------------------------
(* resolv.conf *)

evdns_base_nameserver_ip_add(base, ip) ==
    IF ip \notin DOMAIN Addresses \/ Contains(base.servers, ip) THEN base
    ELSE [base EXCEPT !.servers = Append(@, ip)]
search_postfix_clear(base) == [base EXCEPT !.domains = <<>>, !.search = TRUE]
search_postfix_add(base, domain) == [base EXCEPT !.domains = <<domain>> \o @, !.search = TRUE]
search_reverse(base) == [base EXCEPT !.domains = Reverse(@)]
search_set_from_hostname(base) ==
    IF HostDomain = <<>> THEN search_postfix_clear(base)
    ELSE search_postfix_add(search_postfix_clear(base), HostDomain[1])

resolv_conf_parse_line(base, words, flags) ==
    LET rest == Tail(words)
        fold(op(_, _), b) == LET f[i \in 0..Len(rest)] == IF i = 0 THEN b ELSE op(f[i - 1], rest[i]) IN f[Len(rest)]
        option(b, w) == evdns_base_set_option_impl(b, w[1], IF Len(w) = 2 THEN w[2] ELSE "", flags)
        domain(b, w) == search_postfix_add(b, w[1])
    IN  IF words = <<>> THEN base
        ELSE IF words[1] = <<"nameserver">> /\ "nameservers" \in flags
        THEN IF rest = <<>> THEN base ELSE evdns_base_nameserver_ip_add(base, rest[1][1])
        ELSE IF words[1] = <<"domain">> /\ "search" \in flags
        THEN IF rest = <<>> THEN base ELSE search_postfix_add(search_postfix_clear(base), rest[1][1])
        ELSE IF words[1] = <<"search">> /\ "search" \in flags
        THEN search_reverse(fold(domain, search_postfix_clear(base)))
        ELSE IF words[1] = <<"options">> THEN fold(option, base)
        ELSE base

-----------------------------------------------------------------------------
(* The hosts file *)

evdns_base_parse_hosts_line(base, words) ==
    LET names == Tail(words)
        ends == {i \in 1..Len(names) : names[i][1] = "#" \/ Len(names[i]) = 2}
        last == IF ends = {} THEN Len(names)
                ELSE LET e == CHOOSE i \in ends : \A j \in ends : i <= j
                     IN  IF names[e][1] = "#" THEN e - 1 ELSE e
    IN  IF words = <<>> THEN base
        ELSE IF words[1][1] = "#" \/ words[1][1] \notin DOMAIN Addresses THEN base
        ELSE IF Addresses[words[1][1]] # 0 THEN base
        ELSE [base EXCEPT !.hosts = @ \o [i \in 1..last |-> [name |-> names[i][1], addr |-> words[1][1]]]]

Localhost == <<[name |-> "localhost", addr |-> "127.0.0.1"], [name |-> "localhost", addr |-> "::1"]>>

\* <<>> is a file that cannot be read, <<lines>> one that can.
evdns_base_load_hosts_impl(base, file) ==
    IF file = <<>> THEN [base EXCEPT !.hosts = @ \o Localhost]
    ELSE LET f[i \in 0..Len(file[1])] == IF i = 0 THEN base ELSE evdns_base_parse_hosts_line(f[i - 1], file[1][i])
         IN  f[Len(file[1])]

evdns_resolv_set_defaults(base, flags) ==
    LET b == IF "search" \in flags THEN search_set_from_hostname(base) ELSE base
    IN  IF "nameservers" \in flags /\ "no_default" \notin flags THEN evdns_base_nameserver_ip_add(b, "127.0.0.1") ELSE b

evdns_base_resolv_conf_parse_impl(base, flags, file, hosts) ==
    LET b0 == IF "hostsfile" \in flags THEN evdns_base_load_hosts_impl(base, hosts) ELSE base
        f[i \in 0..Len(file[1])] == IF i = 0 THEN b0 ELSE resolv_conf_parse_line(f[i - 1], file[1][i], flags)
        read == f[Len(file[1])]
        b1 == IF read.servers = <<>> /\ "nameservers" \in flags /\ "no_default" \notin flags
              THEN evdns_base_nameserver_ip_add(read, "127.0.0.1") ELSE read
    IN  IF file = <<>> THEN evdns_resolv_set_defaults(b0, flags)
        ELSE IF "search" \in flags /\ b1.domains = <<>> THEN search_set_from_hostname(b1) ELSE b1

-----------------------------------------------------------------------------
Words(lines) == [i \in 1..Len(lines) |-> strtok_libc(lines[i])]
AllFlags == {"search", "nameservers", "misc", "hostsfile"}

\* A file means what resolv.conf(5) says: the servers in their order, without
\* repetitions; the domains of the last line that gives some, in its order; of
\* each option the last value that is one, within its limits.  There is a server
\* and, where the host has a domain, a domain, whatever the file says.
ConfMeans(lines) ==
    LET words == Words(lines)
        got == evdns_base_resolv_conf_parse_impl(NewConf, AllFlags, <<words>>, <<>>)
        named(key) == {i \in 1..Len(words) : words[i] # <<>> /\ (words[i] # <<>> => words[i][1] = <<key>>)}
        asked == SelectSeq(words, LAMBDA w : IF Len(w) < 2 THEN FALSE ELSE w[1] = <<"nameserver">> /\ w[2][1] \in DOMAIN Addresses)
        servers == [i \in 1..Len(asked) |-> asked[i][2][1]]
        giving == named("search") \cup {i \in named("domain") : Len(words[i]) > 1}
        last == CHOOSE i \in giving : \A j \in giving : j <= i
        texts == IF giving = {} THEN <<>>
                 ELSE [i \in 1..(IF words[last][1] = <<"domain">> THEN 1 ELSE Len(words[last]) - 1) |-> words[last][i + 1][1]]
        opts == FlattenSeq([i \in 1..Len(words) |-> IF i \in named("options") THEN Tail(words[i]) ELSE <<>>])
        valid(o) == {i \in 1..Len(opts) : opts[i][1] = o /\ OptionValue(o, IF Len(opts[i]) = 2 THEN opts[i][2] ELSE "") # Bad}
    IN  /\ Range(got.servers) = (IF servers = <<>> THEN {"127.0.0.1"} ELSE Range(servers))
        /\ IsInjective(got.servers)
        /\ \A i, j \in 1..Len(servers) : (i < j /\ ~\E k \in 1..(j - 1) : servers[k] = servers[j])
                                          => \E a, b \in 1..Len(got.servers) : a < b /\ got.servers[a] = servers[i]
                                                                                   /\ got.servers[b] = servers[j]
        /\ got.domains = (IF texts = <<>> THEN HostDomain ELSE texts)
        /\ \A o \in OptionNames :
              IF valid(o) = {} THEN o \notin DOMAIN got.options
              ELSE LET l == CHOOSE i \in valid(o) : \A j \in valid(o) : j <= i
                   IN  got.options[o] = OptionValue(o, IF Len(opts[l]) = 2 THEN opts[l][2] ELSE "")
        /\ \A o \in DOMAIN got.options : /\ o = "max-inflight" => got.options[o] \in 1..65000
                                         /\ o = "max-timeouts" => got.options[o] \in 1..255
                                         /\ o = "attempts" => got.options[o] <= 255
                                         /\ o = "initial-probe-timeout" => got.options[o] \in 1..3600999

\* The hosts file names each host before a comment with the address of its line;
\* a line whose address is none, or has a port, names nothing.
HostsMean(lines) ==
    LET words == Words(lines)
        got == evdns_base_load_hosts_impl(NewConf, <<words>>).hosts
        commented(i, k) == \E j \in 1..k : words[i][j][1] = "#"
        cut(i, k) == \E j \in 2..(k - 1) : Len(words[i][j]) = 2
    IN  Range(got) = {[name |-> words[ik[1]][ik[2]][1], addr |-> words[ik[1]][1][1]] :
                        ik \in {x \in UNION {{<<i, k>> : k \in 2..Len(words[i])} : i \in 1..Len(words)} :
                                  /\ words[x[1]][1][1] \in {a \in DOMAIN Addresses : Addresses[a] = 0}
                                  /\ ~commented(x[1], x[2]) /\ ~cut(x[1], x[2])}}

\* evdns.c's own strtok_r reads a file as the C library's does, as long as there
\* is one blank between the words of a line and none before or after them.
OwnStrtokAgrees(lines) ==
    \A i \in 1..Len(lines) :
        (\A k \in 1..Len(lines[i]) : (lines[i][k] = Blank) <=> (k % 2 = 0)) /\ Len(lines[i]) % 2 = 1
        => strtok_r(lines[i]) = strtok_libc(lines[i])
=============================================================================
