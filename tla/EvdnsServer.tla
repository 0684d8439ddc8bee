----------------------------- MODULE EvdnsServer -----------------------------
(***************************************************************************)
(* The DNS server side of evdns.c: a port, the requests read from it, the  *)
(* replies that could not be sent yet, and the reference count that keeps  *)
(* the port until the last request is answered or dropped.                 *)
(***************************************************************************)
EXTENDS Naturals, Sequences, FiniteSets

CONSTANTS Requests  \* the queries that arrive on the port

VARIABLES port,     \* struct evdns_server_port
          owner,    \* request -> "net", "user", "pending", "gone"
          response, \* requests whose response was built
          sends     \* request -> datagrams sent for it

svars == <<port, owner, response, sends>>

Init == /\ port = [refcnt |-> 1, closing |-> FALSE, choked |-> FALSE,
                   event |-> {"READ"}, pending |-> <<>>, freed |-> FALSE]
        /\ owner = [r \in Requests |-> "net"]
        /\ response = {}
        /\ sends = [r \in Requests |-> 0]

\* The list of pending replies without r, which is in it at most once.
Unlinked(s, r) ==
    IF \E i \in 1..Len(s) : s[i] = r
    THEN LET i == CHOOSE i \in 1..Len(s) : s[i] = r
         IN [j \in 1..Len(s) - 1 |-> IF j < i THEN s[j] ELSE s[j + 1]]
    ELSE s

\* server_request_free; server_port_free when the count gets to zero.
Release(p, r) ==
    LET q == [p EXCEPT !.refcnt = @ - 1, !.pending = Unlinked(@, r)]
    IN IF q.refcnt = 0 THEN [q EXCEPT !.freed = TRUE, !.event = {}] ELSE q

\* server_port_flush: the first n pending replies go out, or are dropped by an
\* error; the next one would block.  Without pending replies the port goes back
\* to reading, unless its last reference went with them.
Releases(p, n) ==
    LET f[i \in 0..n] == IF i = 0 THEN p ELSE Release(f[i - 1], p.pending[i]) IN f
FlushFirst(p, n) ==
    LET q == Releases(p, n)[n]
    IN IF q.freed \/ q.pending # <<>> THEN q ELSE [q EXCEPT !.event = {"READ"}]

\* request_parse: a well-formed query gets a server_request and a reference.
\* A query with an opcode is answered at once, as a reply of the library.
server_port_read(r) ==
    /\ ~port.freed /\ "READ" \in port.event /\ owner[r] = "net"
    /\ port' = [port EXCEPT !.refcnt = @ + 1]
    /\ owner' = [owner EXCEPT ![r] = "user"]
    /\ UNCHANGED <<response, sends>>

\* A datagram that cannot be parsed, or that is an answer, is dropped.
server_port_read_bad(r) ==
    /\ ~port.freed /\ "READ" \in port.event /\ owner[r] = "net"
    /\ owner' = [owner EXCEPT ![r] = "gone"]
    /\ UNCHANGED <<port, response, sends>>

\* The replies 1..n of the queue are taken off it; those in lost by an error.
AfterFlush(p, n, lost, own, sent) ==
    /\ port' = FlushFirst(p, n)
    /\ owner' = [r \in Requests |->
          IF \E i \in 1..n : p.pending[i] = r THEN "gone" ELSE own[r]]
    /\ sends' = [r \in Requests |->
          IF \E i \in 1..n \ lost : p.pending[i] = r THEN sent[r] + 1 ELSE sent[r]]

\* evdns_server_request_respond, by what sendto does with the reply.
respond_sent(r) ==
    /\ owner[r] = "user"
    /\ response' = response \cup {r}
    /\ LET p == Release(port, r)
           own == [owner EXCEPT ![r] = "gone"]
           sent == [sends EXCEPT ![r] = @ + 1]
       IN IF p.freed \/ p.pending = <<>>
          THEN port' = p /\ owner' = own /\ sends' = sent
          ELSE \E n \in 0..Len(p.pending) : \E lost \in SUBSET (1..n) :
                  AfterFlush(p, n, lost, own, sent)

\* EAGAIN: the response stays with the request, which stays with the caller.
respond_again(r) ==
    /\ owner[r] = "user"
    /\ response' = response \cup {r}
    /\ UNCHANGED <<port, owner, sends>>

\* Any other error queues the reply; the first one asks for EV_WRITE.
respond_failed(r) ==
    /\ owner[r] = "user"
    /\ response' = response \cup {r}
    /\ owner' = [owner EXCEPT ![r] = "pending"]
    /\ port' = IF port.pending # <<>> THEN [port EXCEPT !.pending = Append(@, r)]
               ELSE [port EXCEPT !.pending = <<r>>, !.choked = TRUE,
                        !.event = {"WRITE"} \cup (IF port.closing THEN {} ELSE {"READ"})]
    /\ UNCHANGED sends

evdns_server_request_drop(r) ==
    /\ owner[r] = "user"
    /\ port' = Release(port, r)
    /\ owner' = [owner EXCEPT ![r] = "gone"]
    /\ UNCHANGED <<response, sends>>

\* server_port_ready_callback with EV_WRITE.
server_port_writable ==
    /\ ~port.freed /\ "WRITE" \in port.event
    /\ \E n \in 0..Len(port.pending) : \E lost \in SUBSET (1..n) :
          AfterFlush([port EXCEPT !.choked = FALSE], n, lost, owner, sends)
    /\ UNCHANGED response

\* Mutant: closing the port frees it, whoever refers to it.
close_frees_at_once ==
    /\ ~port.freed /\ ~port.closing
    /\ port' = [port EXCEPT !.refcnt = @ - 1, !.freed = TRUE, !.event = {}, !.closing = TRUE]
    /\ UNCHANGED <<owner, response, sends>>

evdns_close_server_port ==
    /\ ~port.freed /\ ~port.closing
    /\ port' = IF port.refcnt = 1
               THEN [port EXCEPT !.refcnt = 0, !.freed = TRUE, !.event = {},
                                 !.closing = TRUE]
               ELSE [port EXCEPT !.refcnt = @ - 1, !.closing = TRUE]
    /\ UNCHANGED <<owner, response, sends>>

Next == \/ \E r \in Requests : \/ server_port_read(r) \/ server_port_read_bad(r)
                               \/ respond_sent(r) \/ respond_again(r)
                               \/ respond_failed(r) \/ evdns_server_request_drop(r)
        \/ server_port_writable
        \/ evdns_close_server_port

Spec == Init /\ [][Next]_svars

-----------------------------------------------------------------------------
Outstanding == {r \in Requests : owner[r] \in {"user", "pending"}}

\* The port outlives its requests and no longer: it is freed exactly when it is
\* closed and nothing refers to it; a reply is sent at most once; a reply that
\* is queued has the port watching for EV_WRITE.
PortOutlivesRequests ==
    /\ port.refcnt = Cardinality(Outstanding) + (IF port.closing THEN 0 ELSE 1)
    /\ port.freed <=> port.refcnt = 0
    /\ {port.pending[i] : i \in DOMAIN port.pending} = {r \in Requests : owner[r] = "pending"}
    /\ port.pending # <<>> => "WRITE" \in port.event
    /\ \A r \in Requests : sends[r] <= 1 /\ (sends[r] = 1 => owner[r] = "gone")
=============================================================================
