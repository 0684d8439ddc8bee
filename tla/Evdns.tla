-------------------------------- MODULE Evdns --------------------------------
(***************************************************************************)
(* The DNS client of evdns.c: requests in flight and waiting, nameservers  *)
(* that fail, are probed and come back, retransmission after timeouts,     *)
(* reissue after bad answers, search domains, cancelling, suspending and   *)
(* freeing the base, over a network that loses, delays and reorders.       *)
(*                                                                         *)
(* The state is the struct evdns_base.  Every operation runs under the     *)
(* base's lock and is one step; the functions it calls are operators that  *)
(* take the base to the base they leave.  A struct request is kept with    *)
(* its handle (req[x]), since outside search_try_next a handle has at most *)
(* one.  With at most five requests in flight req_heads has one list       *)
(* (n_heads = (maxinflight+4)/5), which is `inflight'.  Timers are armed   *)
(* or not: time is not counted, an armed timer may fire at any moment.     *)
(***************************************************************************)
EXTENDS Integers, Sequences, FiniteSets

CONSTANTS Servers,              \* nameserver addresses
          Users,                \* handles of the program's requests
          Probes,               \* handles of nameserver probes
          Domains,              \* search domains that can be configured
          Dotted,               \* the users whose name has dots >= ndots
          NoSearch,             \* the users that pass DNS_QUERY_NO_SEARCH
          None,
          Limits,               \* values the option max-inflight is set to
          MaxReissues,          \* global_max_reissues
          MaxRetransmits,       \* global_max_retransmits
          MaxTimeouts,          \* global_max_nameserver_timeout
          DisableWhenInactive,  \* EVDNS_BASE_DISABLE_WHEN_INACTIVE
          NIds,                 \* bound: transaction ids 0..NIds-1
          Draws,                \* sequences of random numbers that a step may draw
          MaxNet,               \* bound: datagrams under way
          Scenarios             \* bounds of a behaviour: [users: who asks,
                                \*   domains: the search domains at the start,
                                \*   max: global_max_requests_inflight,
                                \*   probes: probes that can be sent,
                                \*   faults: sends and receives that may fail,
                                \*   config: configuration changes]

\* A base without any nameserver asks the one on 127.0.0.1.
ASSUME ServersAssumption == IsFiniteSet(Servers) /\ Servers # {}
ASSUME NoneAssumption == None \notin Servers \cup Users \cup Probes \cup Domains \cup {1, 2}
ASSUME ScenariosAssumption ==
    \A sc \in Scenarios : /\ sc.users \subseteq Users /\ sc.domains \in Seq(Domains)
                          /\ sc.max \in 1..5 /\ {sc.probes, sc.faults, sc.config} \subseteq Nat
ASSUME LimitAssumption ==
    /\ {MaxRetransmits, MaxTimeouts} \subseteq Nat \ {0}
    /\ Limits \subseteq 1..5 /\ {MaxReissues, NIds} \subseteq Nat
    /\ IsFiniteSet(Users \cup Probes) /\ Users \cap Probes = {}
    /\ NIds > Cardinality(Users \cup Probes)
    /\ Draws \subseteq Seq(0..NIds - 1) \ {<<>>}

VARIABLE base

Handles == Users \cup Probes
\* What a datagram can say.  DNS_ERR_NOTIMPL is treated as DNS_ERR_REFUSED is,
\* and FORMAT, TRUNCATED and NODATA as UNKNOWN.
Answers == {"NONE", "NOTEXIST", "REFUSED", "SERVERFAILED", "UNKNOWN"}
Errors == Answers \cup {"TIMEOUT", "CANCEL", "SHUTDOWN"}
Sent == {"ok", "again", "error"}   \* what sendto can do
States == {1, 2}                    \* struct search_state objects

NoRequest == [ns |-> None, tx_count |-> 0, reissue_count |-> 0,
              transmit_me |-> FALSE, trans_id |-> NIds, name |-> None,
              timeout |-> FALSE]

NoSearchState == [refcount |-> 0, domains |-> <<>>]

NewServer == [state |-> TRUE, timedout |-> 0, choked |-> FALSE,
              write_waiting |-> FALSE, timeout |-> FALSE, probe |-> None,
              requests_inflight |-> 0, event |-> ~DisableWhenInactive]

NewHandle == [current_req |-> FALSE, pending_cb |-> FALSE, ns |-> None,
              search_index |-> 0, search_state |-> None]

-----------------------------------------------------------------------------
(* Lists, ids and the choice of a nameserver.                              *)

Members(s) == {s[i] : i \in DOMAIN s}
Without(s, x) ==
    IF x \notin Members(s) THEN s
    ELSE LET k == CHOOSE k \in DOMAIN s : s[k] = x
         IN SubSeq(s, 1, k - 1) \o SubSeq(s, k + 1, Len(s))
RotatedBy(s, i) == SubSeq(s, i + 1, Len(s)) \o SubSeq(s, 1, i)

UsedIds(b) == {b.req[x].trans_id : x \in Members(b.inflight)}

\* A random id that is not in flight: the first such one from the number drawn on.
transaction_id_pick(b) ==
    LET Id(k) == (Head(b.draw) + k) % NIds
    IN Id(CHOOSE k \in 0..NIds - 1 : /\ Id(k) \notin UsedIds(b)
                                     /\ \A j \in 0..k - 1 : Id(j) \in UsedIds(b))

\* The next draw is independent of this one; the last number may be drawn again.
SetTransId(b, x, id) ==
    [b EXCEPT !.req[x].trans_id = id,
              !.draw = IF Len(@) > 1 THEN Tail(@) ELSE @]

FirstUp(b) == CHOOSE i \in DOMAIN b.servers :
                 /\ b.ns[b.servers[i]].state
                 /\ \A j \in 1..i - 1 : ~b.ns[b.servers[j]].state

\* nameserver_pick returns a server and moves server_head.
nameserver_pick(b) ==
    IF b.servers = <<>> THEN None
    ELSE IF b.good = 0 THEN Head(RotatedBy(b.servers, 1))
    ELSE b.servers[FirstUp(b)]

AfterPick(b) ==
    IF b.servers = <<>> THEN b
    ELSE [b EXCEPT !.servers =
            RotatedBy(@, IF b.good = 0 THEN 1 ELSE FirstUp(b)),
                   !.dangling = @ \/ b.halfFreed]

\* Mutant: the server that loses the request keeps it in its count.
swap_ns_keeps_count(b, x, n) ==
    IF n = None \/ b.req[x].ns = n THEN b
    ELSE [b EXCEPT !.ns[n].requests_inflight = @ + 1, !.req[x].ns = n]

request_swap_ns(b, x, n) ==
    IF n = None \/ b.req[x].ns = n THEN b
    ELSE [b EXCEPT !.ns[b.req[x].ns].requests_inflight = @ - 1,
                   !.ns[n].requests_inflight = @ + 1,
                   !.req[x].ns = n]

SwapToPicked(b, x) == request_swap_ns(AfterPick(b), x, nameserver_pick(b))

-----------------------------------------------------------------------------
(* Nameservers go down.                                                    *)

\* Requests that were never sent move away from a server that failed.
ReassignOne(b, x, n) ==
    IF b.req[x].tx_count = 0 /\ b.req[x].ns = n THEN SwapToPicked(b, x) ELSE b

Reassigned(b, n) ==
    LET r[i \in 0..Len(b.inflight)] ==
            IF i = 0 THEN b ELSE ReassignOne(r[i - 1], b.inflight[i], n)
    IN r

ReassignUnsent(b, n) == Reassigned(b, n)[Len(b.inflight)]

MarkFailed(b, n) == [b EXCEPT !.good = @ - 1, !.ns[n].state = FALSE,
                              !.ns[n].timeout = TRUE]

nameserver_failed(b, n) ==
    IF ~b.ns[n].state THEN b
    ELSE IF b.good = 1 THEN MarkFailed(b, n)
    ELSE ReassignUnsent(MarkFailed(b, n), n)

\* Mutant: a failed probe is the last one.
probe_failed_for_good(b, n) == b

\* nameserver_probe_failed; the growing delay of the next probe is not kept.
nameserver_probe_failed(b, n) == [b EXCEPT !.ns[n].timeout = ~b.ns[n].state]

-----------------------------------------------------------------------------
(* Sending.  send[n] is what sendto does on the socket of n in this step.  *)

nameserver_write_waiting(b, n, waiting) ==
    IF b.ns[n].write_waiting = waiting THEN b
    ELSE [b EXCEPT !.ns[n].write_waiting = waiting, !.ns[n].event = TRUE]

\* The network holds MaxNet datagrams and loses the others.
Carry(net, p) == IF Cardinality(net) < MaxNet THEN net \cup {p} ELSE net

SentOrLost(b, x) == [b EXCEPT !.req[x].timeout = TRUE, !.req[x].tx_count = @ + 1,
                              !.req[x].transmit_me = FALSE]

evdns_request_transmit_to(b, x, n, send) ==
    CASE send[n] = "again" ->
            nameserver_write_waiting([b EXCEPT !.faults = @ - 1,
                                               !.ns[n].choked = TRUE], n, TRUE)
      [] send[n] = "error" ->
            SentOrLost(nameserver_failed([b EXCEPT !.faults = @ - 1], n), x)
      [] send[n] = "ok" ->
            SentOrLost([b EXCEPT !.net = Carry(@,
               [ns |-> n, id |-> b.req[x].trans_id, name |-> b.req[x].name])], x)

\* With disable_when_inactive the socket is watched from its first request on.
WatchFirst(b, n) ==
    IF DisableWhenInactive /\ b.ns[n].requests_inflight = 1
    THEN [b EXCEPT !.ns[n].event = TRUE] ELSE b

evdns_request_transmit(b0, x, send) ==
    LET b == [b0 EXCEPT !.req[x].transmit_me = TRUE]
        n == b.req[x].ns
    IN IF n = None THEN b
       ELSE IF b.ns[n].choked THEN b
       ELSE evdns_request_transmit_to(WatchFirst(b, n), x, n, send)

TransmitOne(b, x, send) ==
    IF b.req[x].transmit_me THEN evdns_request_transmit(b, x, send) ELSE b

Transmitted(b, send) ==
    LET t[i \in 0..Len(b.inflight)] ==
            IF i = 0 THEN b ELSE TransmitOne(t[i - 1], b.inflight[i], send)
    IN t

evdns_transmit(b, send) == Transmitted(b, send)[Len(b.inflight)]

TriedToTransmit(b) == \E x \in Members(b.inflight) : b.req[x].transmit_me

-----------------------------------------------------------------------------
(* From the waiting queue into flight.                                     *)

Launch(b, x, n, send) ==
    evdns_transmit(evdns_request_transmit(
        [SetTransId(b, x, transaction_id_pick(b)) EXCEPT
            !.req[x].ns = n,
            !.ns[n].requests_inflight = @ + 1,
            !.waiting = Tail(@), !.nwaiting = @ - 1,
            !.inflight = Append(@, x), !.ninflight = @ + 1], x, send), send)

PumpOne(b, send) ==
    IF b.ninflight < b.max_inflight /\ b.nwaiting > 0 /\ b.servers # <<>>
    THEN Launch(AfterPick(b), Head(b.waiting), nameserver_pick(b), send)
    ELSE b

Pumped(b, send) ==
    LET p[i \in 0..Len(b.waiting)] == IF i = 0 THEN b ELSE PumpOne(p[i - 1], send)
    IN p

evdns_requests_pump_waiting_queue(b, send) == Pumped(b, send)[Len(b.waiting)]

-----------------------------------------------------------------------------
(* Search domains: a list shared by the base and the requests using it.    *)

search_state_decref(b, k) ==
    IF k = None THEN b
    ELSE IF b.search[k].refcount = 1 THEN [b EXCEPT !.search[k] = NoSearchState]
    ELSE [b EXCEPT !.search[k].refcount = @ - 1]

search_request_finished(b, x) ==
    [search_state_decref(b, b.hnd[x].search_state) EXCEPT !.hnd[x].search_state = None]

\* The name looked up for x: the plain one, or with the n-th domain appended.
Raw(x) == <<x, None>>
search_make_new(b, k, n, x) == <<x, b.search[k].domains[n + 1]>>

FreeState(b) == CHOOSE k \in States : b.search[k].refcount = 0

search_state_new(b) ==
    [b EXCEPT !.search[FreeState(b)] = [refcount |-> 1, domains |-> <<>>],
              !.global = FreeState(b)]

search_postfix_clear(b) == search_state_new(search_state_decref(b, b.global))

\* The new domain goes to the head of a list that searches may be walking.
search_postfix_add(b, d) ==
    LET c == IF b.global = None THEN search_state_new(b) ELSE b
    IN [c EXCEPT !.search[c.global].domains = <<d>> \o @]

-----------------------------------------------------------------------------
(* The life of a request.                                                  *)

reply_schedule_callback(b, x, err) ==
    [b EXCEPT !.hnd[x].pending_cb = TRUE, !.deferred = Append(@, <<x, err>>)]

\* The request leaves its list; a server without requests may be disabled.
Unlink(b, x, n) ==
    IF n = None
    THEN [b EXCEPT !.waiting = Without(@, x), !.nwaiting = @ - 1]
    ELSE LET k == b.ns[n]
             last == DisableWhenInactive /\ k.requests_inflight = 1
         IN [b EXCEPT !.inflight = Without(@, x), !.ninflight = @ - 1,
                      !.ns[n] = [k EXCEPT !.requests_inflight = @ - 1,
                                          !.event = @ /\ ~last,
                                          !.timeout = @ /\ ~last]]

ReleaseHandle(b, x) ==
    [search_request_finished(b, x) EXCEPT !.hnd[x].current_req = FALSE,
                                          !.req[x] = NoRequest]

\* Mutant: the place that becomes free is not given to a waiting request.
finished_without_pump(b, x, send) ==
    ReleaseHandle(Unlink(b, x, b.req[x].ns), x)

request_finished(b, x, send) ==
    evdns_requests_pump_waiting_queue(
        ReleaseHandle(Unlink(b, x, b.req[x].ns), x), send)

request_new(b, x, name) ==
    IF b.ninflight < b.max_inflight
    THEN [SetTransId(AfterPick(b), x, transaction_id_pick(b)) EXCEPT
             !.req[x] = [NoRequest EXCEPT !.name = name, !.ns = nameserver_pick(b),
                                          !.trans_id = transaction_id_pick(b)]]
    ELSE [b EXCEPT !.req[x] = [NoRequest EXCEPT !.name = name]]

request_submit(b, x, send) ==
    LET n == b.req[x].ns
    IN IF n = None
       THEN [b EXCEPT !.waiting = Append(@, x), !.nwaiting = @ + 1]
       ELSE evdns_request_transmit(
               [b EXCEPT !.inflight = Append(@, x), !.ninflight = @ + 1,
                         !.ns[n].requests_inflight = @ + 1], x, send)

search_request_new(b, x, send) ==
    LET k == b.global
        plain == x \in Dotted
        c == request_new(b, x, IF plain THEN Raw(x) ELSE search_make_new(b, k, 0, x))
    IN request_submit([c EXCEPT !.hnd[x].search_index = IF plain THEN -1 ELSE 0,
                                !.hnd[x].search_state = k,
                                !.search[k].refcount = @ + 1], x, send)

HasDomains(b) == b.global # None /\ b.search[b.global].domains # <<>>

evdns_base_resolve(b0, x, send) ==
    LET b == [b0 EXCEPT !.hnd[x] = [NewHandle EXCEPT !.current_req = TRUE]]
    IN IF x \notin NoSearch /\ HasDomains(b)
       THEN search_request_new(b, x, send)
       ELSE request_submit(request_new(b, x, Raw(x)), x, send)

evdns_cancel_request(b, x, send) ==
    IF ~b.hnd[x].current_req \/ b.hnd[x].pending_cb THEN b
    ELSE request_finished(reply_schedule_callback(b, x, "CANCEL"), x, send)

\* A good answer: the server is up and its probe is not needed any more.
nameserver_up(b, n, send) ==
    IF b.ns[n].state THEN b
    ELSE LET c == [b EXCEPT !.ns[n].timeout = FALSE]
             p == c.ns[n].probe
             d == IF p = None THEN c ELSE evdns_cancel_request(c, p, send)
         IN [d EXCEPT !.ns[n] = [d.ns[n] EXCEPT !.probe = None, !.state = TRUE,
                                                !.timedout = 0],
                      !.good = @ + 1]

\* The name to try next; None when the search is over.
NextName(b, x) ==
    LET k == b.hnd[x].search_state
        i == b.hnd[x].search_index + 1
    IN IF k = None THEN None
       ELSE IF i < Len(b.search[k].domains) THEN search_make_new(b, k, i, x)
       ELSE IF x \in Dotted THEN None ELSE Raw(x)

\* The new request is made before the old one is finished, and joins its list
\* after: the pump of request_finished runs in between.
search_try_next(b, x, name, send) ==
    LET over == name = Raw(x)
        old == b.req[x]
        c == request_new([b EXCEPT !.hnd[x].search_index = @ + 1], x, name)
        new == c.req[x]
        d == IF over THEN search_request_finished(c, x) ELSE c
        e == evdns_requests_pump_waiting_queue(
                [Unlink([d EXCEPT !.req[x] = old], x, old.ns) EXCEPT
                    !.req[x] = new], send)
    IN request_submit(e, x, send)

\* Mutant: the error is reported although the search goes on.
fail_before_search(b, x, err, send) ==
    LET name == NextName(b, x)
        c == reply_schedule_callback(b, x, err)
    IN IF name # None THEN search_try_next(c, x, name, send)
       ELSE request_finished(c, x, send)

Fail(b, x, err, send) ==
    LET name == NextName(b, x)
    IN IF name # None THEN search_try_next(b, x, name, send)
       ELSE request_finished(reply_schedule_callback(b, x, err), x, send)

\* A server that answered is up; a probe of it needs no cancelling.
MarkUp(b, x, send) ==
    LET n == b.req[x].ns
        c == IF b.ns[n].probe = x THEN [b EXCEPT !.ns[n].probe = None] ELSE b
    IN nameserver_up(c, n, send)

GiveUp(b, x, send) ==
    LET n == b.req[x].ns
    IN nameserver_failed(request_finished(
            reply_schedule_callback(b, x, "TIMEOUT"), x, send), n)

CountTimeout(b, n) ==
    IF b.ns[n].timedout + 1 > MaxTimeouts
    THEN nameserver_failed([b EXCEPT !.ns[n].timedout = 0], n)
    ELSE [b EXCEPT !.ns[n].timedout = @ + 1]

Retransmit(b0, x, send) ==
    LET b == evdns_request_transmit(SwapToPicked(
                [b0 EXCEPT !.req[x].timeout = FALSE], x), x, send)
    IN CountTimeout(b, b.req[x].ns)

evdns_request_timeout(b, x, send) ==
    IF b.req[x].tx_count >= MaxRetransmits
    THEN GiveUp(b, x, send) ELSE Retransmit(b, x, send)

\* request_reissue: another server gets the request, if pick finds another one.
\* It goes out when something is transmitted next, or when its timer fires.
request_reissue(b, last_ns, x, send) ==
    IF b.req[x].ns = last_ns THEN Fail(b, x, "REFUSED", send)
    ELSE [b EXCEPT !.req[x].reissue_count = @ + 1, !.req[x].tx_count = 0,
                   !.req[x].transmit_me = TRUE]

reply_refused(b, x, send) ==
    LET c == nameserver_failed(b, b.req[x].ns)
    IN IF b.req[x].reissue_count >= MaxReissues THEN Fail(b, x, "REFUSED", send)
       ELSE request_reissue(SwapToPicked(c, x), c.req[x].ns, x, send)

reply_handle(b, x, err, send) ==
    CASE err = "NONE" ->
            request_finished(MarkUp(reply_schedule_callback(b, x, err), x, send), x, send)
      [] err = "REFUSED" -> reply_refused(b, x, send)
      [] err = "SERVERFAILED" -> evdns_request_timeout(b, x, send)
      [] OTHER -> Fail(MarkUp(b, x, send), x, err, send)

\* reply_parse: an answer to another question is an unknown error; flags that
\* hold an error code count whatever the question is.
Outcome(b, x, p, code) ==
    IF p.name # b.req[x].name /\ code = "NONE" THEN "UNKNOWN" ELSE code

nameserver_send_probe(b, n, x, send) ==
    LET c == request_new([b EXCEPT
                !.hnd[x] = [NewHandle EXCEPT !.current_req = TRUE, !.ns = n],
                !.ns[n].probe = x], x, Raw(None))
        d == SetTransId(c, x, transaction_id_pick(c))
    IN request_submit([d EXCEPT !.req[x].ns = n], x, send)

nameserver_probe_callback(b, n, err, send) ==
    IF err = "CANCEL" THEN b
    ELSE IF n \notin Members(b.servers) THEN [b EXCEPT !.dangling = TRUE]
    ELSE LET c == [b EXCEPT !.ns[n].probe = None]
         IN IF err \in {"NONE", "NOTEXIST"} THEN nameserver_up(c, n, send)
            ELSE nameserver_probe_failed(c, n)

-----------------------------------------------------------------------------
(* Suspending and freeing.                                                 *)

\* Cancelling a probe pumps the waiting queue while the list of servers is
\* being freed; picking a server from it then is undefined (`dangling').
ClearOne(b, n, send) ==
    LET p == b.ns[n].probe
        c == [b EXCEPT !.ns[n].event = FALSE, !.ns[n].timeout = FALSE]
        d == IF p = None THEN c ELSE evdns_cancel_request(c, p, send)
    IN [d EXCEPT !.ns[n].probe = None, !.halfFreed = TRUE]

Cleared(b, send) ==
    LET c[i \in 0..Len(b.servers)] ==
            IF i = 0 THEN b ELSE ClearOne(c[i - 1], b.servers[i], send)
    IN c

ClearServers(b, send) == Cleared(b, send)[Len(b.servers)]

Reversed(s) == [i \in DOMAIN s |-> s[Len(s) + 1 - i]]

\* Each request goes to the front of the waiting queue, the first one first.
Suspend(b) ==
    [b EXCEPT !.servers = <<>>, !.good = 0, !.ninflight = 0, !.inflight = <<>>,
              !.halfFreed = FALSE, !.suspended = TRUE,
              !.ns = [n \in Servers |-> NewServer],
              !.waiting = Reversed(b.inflight) \o @,
              !.nwaiting = @ + Len(b.inflight),
              !.req = [x \in Handles |->
                 IF x \in Members(b.inflight)
                 THEN [NoRequest EXCEPT !.name = b.req[x].name, !.trans_id = 0]
                 ELSE b.req[x]]]

evdns_base_clear_nameservers_and_suspend(b, send) ==
    IF b.servers = <<>> THEN b ELSE Suspend(ClearServers(b, send))

evdns_nameserver_add(b, n) ==
    [b EXCEPT !.servers = IF @ = <<>> THEN <<n>> ELSE <<Head(@), n>> \o Tail(@),
              !.ns[n] = NewServer, !.good = @ + 1]

\* The first request of the waiting queue, then of those in flight.
Abort(b, fail, send) ==
    LET x == IF b.waiting # <<>> THEN Head(b.waiting) ELSE Head(b.inflight)
    IN request_finished(IF fail THEN reply_schedule_callback(b, x, "SHUTDOWN") ELSE b,
                        x, send)

Unfinished(b) == Len(b.waiting) + Len(b.inflight)

Aborted(b, fail, send) ==
    LET a[i \in 0..Unfinished(b)] == IF i = 0 THEN b ELSE Abort(a[i - 1], fail, send)
    IN a

AbortAll(b, fail, send) == Aborted(b, fail, send)[Unfinished(b)]

evdns_base_free(b, fail, send) ==
    LET c == AbortAll(b, fail, send)
    IN [c EXCEPT !.servers = <<>>, !.good = 0, !.global = None, !.net = {},
                 !.ns = [n \in Servers |-> NewServer],
                 !.search = [k \in States |-> NoSearchState],
                 !.freed = TRUE]

-----------------------------------------------------------------------------
(* The steps: calls of the program and callbacks of the event loop.        *)

ServerOrder == CHOOSE s \in [1..Cardinality(Servers) -> Servers] :
                  Members(s) = Servers

Init == \E sc \in Scenarios :
    base = [servers |-> ServerOrder, good |-> Cardinality(Servers),
            ns |-> [n \in Servers |-> NewServer],
            inflight |-> <<>>, waiting |-> <<>>, ninflight |-> 0, nwaiting |-> 0,
            max_inflight |-> sc.max, probes |-> sc.probes,
            hnd |-> [x \in Handles |-> NewHandle],
            req |-> [x \in Handles |-> NoRequest],
            search |-> [k \in States |->
                IF k = 1 /\ sc.domains # <<>>
                THEN [refcount |-> 1, domains |-> sc.domains] ELSE NoSearchState],
            global |-> IF sc.domains # <<>> THEN 1 ELSE None, deferred |-> <<>>,
            told |-> {}, asked |-> Users \ sc.users,
            net |-> {}, draw |-> <<0>>, faults |-> sc.faults, config |-> sc.config,
            suspended |-> FALSE, halfFreed |-> FALSE, dangling |-> FALSE,
            freed |-> FALSE]

Running == ~base.freed /\ ~base.dangling

\* The kernel's answers and the random numbers of one step.
Sends == [Servers -> IF base.faults > 0 THEN Sent ELSE {"ok"}]
Drawn(d) == [base EXCEPT !.draw = d]
Becomes(b) == base' = [b EXCEPT !.draw = <<0>>]

Resolve(x) ==
    /\ Running /\ x \notin base.asked
    /\ \E send \in Sends, d \in Draws :
          Becomes(evdns_base_resolve([Drawn(d) EXCEPT !.asked = @ \cup {x}], x, send))

Cancel(x) ==
    /\ Running /\ x \in base.asked /\ x \notin base.told
    /\ base.hnd[x] # NewHandle
    /\ \E send \in Sends, d \in Draws :
          Becomes(evdns_cancel_request(Drawn(d), x, send))

evdns_request_timeout_callback(x) ==
    /\ Running /\ base.req[x].timeout
    /\ \E send \in Sends, d \in Draws :
          Becomes(evdns_request_timeout([Drawn(d) EXCEPT !.req[x].timeout = FALSE], x, send))

\* The timer runs for seconds; the result of the probe before, which is in the active
\* queue of the event loop, is handled long before it fires.
nameserver_prod_callback(n) ==
    /\ Running /\ n \in Members(base.servers)
    /\ base.ns[n].timeout /\ base.probes > 0
    /\ \A y \in Members(base.deferred) : base.hnd[y[1]].ns # n
    /\ \E x \in Probes, send \in Sends, d \in Draws :
          /\ base.hnd[x] = NewHandle
          /\ \A y \in Members(base.deferred) : y[1] # x
          /\ Becomes(nameserver_send_probe([Drawn(d) EXCEPT !.ns[n].timeout = FALSE,
                                                          !.probes = @ - 1],
                                           n, x, send))

Writable(n) ==
    /\ Running /\ n \in Members(base.servers)
    /\ base.ns[n].event /\ base.ns[n].write_waiting
    /\ \E send \in Sends :
          LET b == [base EXCEPT !.ns[n].choked = FALSE]
          IN Becomes(IF TriedToTransmit(b) THEN evdns_transmit(b, send)
                     ELSE nameserver_write_waiting(b, n, FALSE))

\* A datagram from n; the answer is for whatever request has its id now.
nameserver_read(n) ==
    /\ Running /\ n \in Members(base.servers) /\ base.ns[n].event
    /\ \E p \in {q \in base.net : q.ns = n} :
          LET b == [base EXCEPT !.net = @ \ {p}, !.ns[n].timedout = 0]
              X == {x \in Members(b.inflight) : b.req[x].trans_id = p.id}
          IN IF X = {} THEN Becomes(b)
             ELSE \E code \in Answers, send \in Sends, d \in Draws, x \in X :
                     Becomes(reply_handle([b EXCEPT !.draw = d], x,
                                          Outcome(b, x, p, code), send))

Lose == /\ Running
        /\ \E p \in base.net : base' = [base EXCEPT !.net = @ \ {p}]

ReadError(n) ==
    /\ Running /\ n \in Members(base.servers) /\ base.ns[n].event
    /\ base.faults > 0
    /\ Becomes(nameserver_failed([base EXCEPT !.faults = @ - 1], n))

reply_run_callback ==
    /\ ~base.dangling /\ base.deferred # <<>>
    /\ LET x == Head(base.deferred)[1]
           err == Head(base.deferred)[2]
           b == [base EXCEPT !.deferred = Tail(@), !.hnd[x] = NewHandle]
       IN IF x \in Users THEN Becomes([b EXCEPT !.told = @ \cup {x}])
          ELSE \E send \in Sends, d \in Draws :
                  Becomes(nameserver_probe_callback([b EXCEPT !.draw = d],
                                                    base.hnd[x].ns, err, send))

\* Calls that change the configuration, as many as the scenario allows.
Configure ==
    /\ Running /\ base.config > 0
    /\ \E send \in Sends, d \in Draws :
         LET b == [Drawn(d) EXCEPT !.config = @ - 1]
         IN \/ Becomes(evdns_base_clear_nameservers_and_suspend(b, send))
            \/ \E n \in Servers \ Members(base.servers) : Becomes(evdns_nameserver_add(b, n))
            \/ \E dom \in Domains : Becomes(search_postfix_add(b, dom))
            \/ /\ \E k \in States : base.search[k].refcount = 0
               /\ Becomes(search_postfix_clear(b))
            \/ \E fail \in BOOLEAN : Becomes(evdns_base_free(b, fail, send))
            \/ \E m \in Limits : Becomes([b EXCEPT !.max_inflight = m])

evdns_base_resume ==
    /\ Running /\ base.suspended
    /\ \E send \in Sends, d \in Draws :
          Becomes(evdns_requests_pump_waiting_queue(
                     [Drawn(d) EXCEPT !.suspended = base.servers = <<>>], send))

Next == \/ \E x \in Users : Resolve(x) \/ Cancel(x)
        \/ \E x \in Handles : evdns_request_timeout_callback(x)
        \/ \E n \in Servers : \/ nameserver_prod_callback(n)
                              \/ Writable(n) \/ nameserver_read(n) \/ ReadError(n)
        \/ Lose
        \/ reply_run_callback
        \/ Configure
        \/ evdns_base_resume

Spec == Init /\ [][Next]_base

-----------------------------------------------------------------------------
(* Properties, of a base that is in use.                                   *)

Count(S) == Cardinality(S)

Linked(x) == base.hnd[x].current_req

\* The search of x went on from its first name.
WentOn(x) ==
    IF x \in Dotted THEN base.hnd[x].search_state # None /\ base.hnd[x].search_index # -1
    ELSE base.hnd[x].search_index # 0

\* Two requests in flight have different ids.  The exception: search_try_next picks
\* the id of the next request of a search before the pump of request_finished, and
\* puts it among those in flight after.
IdsDiffer ==
    \A x, y \in Members(base.inflight) :
        base.req[x].trans_id = base.req[y].trans_id => x = y \/ WentOn(x) \/ WentOn(y)

\* Every request is in the list its fields say, and all counters agree with
\* the lists: evdns_base keeps each of these twice.
ListsAndCounters ==
    /\ base.ninflight = Len(base.inflight) /\ base.nwaiting = Len(base.waiting)
    /\ base.good = Count({n \in Members(base.servers) : base.ns[n].state})
    /\ \A n \in Members(base.servers) : base.ns[n].requests_inflight =
          Count({x \in Members(base.inflight) : base.req[x].ns = n})
    /\ \A s \in {base.inflight, base.waiting} :
          \A i, j \in DOMAIN s : s[i] = s[j] => i = j
    /\ Members(base.inflight) \cap Members(base.waiting) = {}
    /\ Members(base.inflight) \cup Members(base.waiting) = {x \in Handles : Linked(x)}
    /\ \A x \in Handles : (base.req[x].ns # None) <=> x \in Members(base.inflight)
    /\ IdsDiffer

\* The list of search domains lives as long as the base or a request uses it,
\* and a server's probe is a live request made for that server.
ReferencesHold ==
    /\ \A k \in States : base.search[k].refcount =
          Count({x \in Handles : base.hnd[x].search_state = k})
             + (IF base.global = k THEN 1 ELSE 0)
    /\ \A n \in Members(base.servers), x \in Probes : base.ns[n].probe = x =>
          base.hnd[x].ns = n /\ (base.hnd[x].current_req \/ base.hnd[x].pending_cb)
    /\ \A x \in Probes : Linked(x) /\ base.hnd[x].ns \in Members(base.servers)
          => base.ns[base.hnd[x].ns].probe = x

\* Lists, counters and reference counts of the base agree with each other.
Accounting == ~base.dangling => ListsAndCounters /\ ReferencesHold

\* A request in flight will be looked at again: its timer runs, or it is to be
\* transmitted when some socket becomes writable.
InflightIsWatched ==
    \A x \in Members(base.inflight) :
       \/ base.req[x].timeout
       \/ /\ base.req[x].transmit_me
          /\ \E n \in Members(base.servers) :
                base.ns[n].write_waiting /\ base.ns[n].event

\* A server that is down is probed again: the timer for the next probe runs,
\* or a probe is out, or its result is about to be handled.
DownServersAreProbed ==
    ~base.dangling /\ ~DisableWhenInactive =>
    \A n \in Members(base.servers) : ~base.ns[n].state =>
       \/ base.ns[n].timeout
       \/ \E x \in Probes : base.hnd[x].ns = n
              /\ (base.hnd[x].current_req \/ base.hnd[x].pending_cb)

\* A waiting request waits for one in flight, whose end pumps the queue.  The
\* exception: with a limit of one, search_try_next leaves the next request of
\* a search behind in the queue, with nothing in flight.
SearchStalls == \E x \in Members(base.waiting) : WentOn(x)

WaitingMakesProgress ==
    ~base.suspended /\ base.servers # <<>> =>
       (base.waiting # <<>> => base.inflight # <<>> \/ SearchStalls)

\* No request is forgotten: something will happen to each that is in flight,
\* and each that waits does so for one in flight.
NoRequestIsForgotten == ~base.dangling => InflightIsWatched /\ WaitingMakesProgress

\* The results of the program's requests among those on their way.
UserResults(d) ==
    LET f[i \in 0..Len(d)] == IF i = 0 THEN <<>>
                              ELSE IF d[i][1] \in Users THEN Append(f[i - 1], d[i])
                              ELSE f[i - 1]
    IN f[Len(d)]

\* The client keeps its promise: one result and one callback for each request.
Promise == INSTANCE Resolver WITH
    Requests <- Users, Results <- Errors,
    asked <- {x \in Users : base.hnd[x].current_req},
    settled <- UserResults(base.deferred),
    told <- base.told

KeepsPromise == Promise!Spec
=============================================================================
