----------------------------- MODULE Getaddrinfo -----------------------------
(***************************************************************************)
(* evdns_getaddrinfo: one call of the program becomes an A and an AAAA     *)
(* request of the resolver.  The first answer waits for the second one, up *)
(* to a timeout; the program may cancel at any time, and the resolver may  *)
(* be shut down.  The resolver is the one of module Resolver, which Evdns  *)
(* implements: its callbacks come later, from the event loop.              *)
(***************************************************************************)
EXTENDS Naturals, Sequences, FiniteSets

CONSTANT Families  \* the families the call asks for: subsets of {"v4", "v6"}

Subrequests == {"v4", "v6"}
Results == {"NONE", "EMPTY", "NOTEXIST", "FAILED", "CANCEL", "SHUTDOWN"}

VARIABLES asked, settled, told,  \* the resolver
          data,                  \* struct evdns_getaddrinfo_request
          calls,                 \* what user_cb was called with
          answered,              \* subrequests that brought addresses in time
          base,                  \* the evdns_base: "open", "shut" (freed)
          dangling               \* freed memory was used

gvars == <<asked, settled, told, data, calls, answered, base, dangling>>
DNS == INSTANCE Resolver WITH Requests <- Subrequests

NoData == [alive |-> FALSE, r |-> {}, user_cb |-> FALSE, pending_result |-> {},
           pending_error |-> FALSE, timeout |-> FALSE, evdns_base |-> TRUE,
           user_canceled |-> FALSE, request_done |-> FALSE]

Init == /\ DNS!Init
        /\ data = NoData /\ calls = <<>> /\ answered = {}
        /\ base = "open" /\ dangling = FALSE

Other(f) == CHOOSE g \in Subrequests : g # f
Idle == calls = <<>> /\ ~data.alive /\ ~dangling

\* A numeric address, a bad argument or an entry of the hosts file: the
\* callback is run before the call returns.
AnswerNow ==
    /\ Idle /\ calls' = <<[err |-> "ok", addrs |-> {}, now |-> TRUE]>>
    /\ UNCHANGED <<asked, settled, told, data, answered, base, dangling>>

\* started: the requests that could be made (a name may be too long for one).
evdns_getaddrinfo ==
    /\ Idle /\ base = "open"
    /\ \E want \in Families : \E started \in SUBSET want :
        IF started = {}
        THEN /\ calls' = <<[err |-> "failed", addrs |-> {}, now |-> TRUE]>>
             /\ UNCHANGED <<asked, data>>
        ELSE /\ data' = [NoData EXCEPT !.alive = TRUE, !.user_cb = TRUE, !.r = started]
             /\ asked' = asked \cup started
             /\ UNCHANGED calls
    /\ UNCHANGED <<settled, told, answered, base, dangling>>

-----------------------------------------------------------------------------
(* The resolver's side.                                                    *)

Answer(f) == /\ base = "open" /\ ~dangling
             /\ DNS!Settle({f})
             /\ settled'[Len(settled')][2] \in Results \ {"CANCEL", "SHUTDOWN"}
             /\ UNCHANGED <<data, calls, answered, base, dangling>>

\* evdns_base_free(base, 1)
Shutdown == /\ base = "open" /\ data.alive /\ ~dangling
            /\ base' = "shut"
            /\ IF asked = {} THEN UNCHANGED <<asked, settled>>
               ELSE /\ DNS!Settle(asked)
                    /\ \A i \in Len(settled) + 1..Len(settled') :
                          settled'[i][2] = "SHUTDOWN"
            /\ UNCHANGED <<told, data, calls, answered, dangling>>

\* evdns_cancel_request: nothing happens to a request whose callback is due.
Cancelled(R) == [i \in 1..Cardinality(R \cap asked) |->
                   <<IF "v4" \in R \cap asked /\ i = 1 THEN "v4" ELSE "v6", "CANCEL">>]

-----------------------------------------------------------------------------
(* The callbacks.                                                          *)

Freed(d) == [NoData EXCEPT !.evdns_base = d.evdns_base]
Tell(err, addrs) == calls' = Append(calls, [err |-> err, addrs |-> addrs, now |-> FALSE])

\* The other request is still out: keep the result and allow it some time.
Await(d, f, err, result) ==
    /\ data' = IF err
               THEN [d EXCEPT !.pending_error = TRUE,
                              !.timeout = @ \/ result # "SHUTDOWN"]
               ELSE [d EXCEPT !.pending_result = {f}, !.timeout = TRUE]
    /\ UNCHANGED calls

\* Mutant: an error of the last request hides the addresses of the first.
report_last_only(d, f, err) ==
    /\ data' = Freed(d)
    /\ IF d.user_canceled THEN Tell("canceled", {})
       ELSE IF ~err THEN Tell("ok", {f} \cup d.pending_result)
       ELSE Tell("failed", {})

\* Nothing is out any more: the user is told and the request is freed.
Report(d, f, err) ==
    /\ data' = Freed(d)
    /\ IF d.user_canceled THEN Tell("canceled", {})
       ELSE IF ~err THEN Tell("ok", {f} \cup d.pending_result)
       ELSE IF d.pending_result # {} THEN Tell("ok", d.pending_result)
       ELSE Tell("failed", {})

Conclude(d, f, result) ==
    LET err == result # "NONE"
        others == d.r # {}
    IN IF result = "CANCEL" /\ ~d.user_canceled
       THEN data' = (IF others THEN d ELSE Freed(d)) /\ UNCHANGED calls
       ELSE IF ~d.user_cb THEN data' = Freed(d) /\ UNCHANGED calls
       ELSE IF others /\ (err \/ ~d.user_canceled) THEN Await(d, f, err, result)
       ELSE IF others THEN data' = d /\ UNCHANGED calls
       ELSE Report(d, f, err)

\* The deferred callback of subrequest f.
evdns_getaddrinfo_gotresolve(f) ==
    /\ ~dangling /\ settled # <<>> /\ settled[1][1] = f
    /\ DNS!Tell
    /\ LET result == settled[1][2]
           shut == result = "SHUTDOWN"
           d == [data EXCEPT !.r = @ \ {f},
                             !.evdns_base = @ /\ ~shut,
                             !.request_done = IF shut THEN @ ELSE @ \/ data.r \subseteq {f}]
       IN IF (~shut /\ base = "shut") \/ ~data.alive
          THEN dangling' = TRUE /\ UNCHANGED <<data, calls, answered>>
          ELSE /\ Conclude(d, f, result)
               /\ answered' = IF result = "NONE" /\ calls = <<>> THEN answered \cup {f} ELSE answered
               /\ UNCHANGED dangling
    /\ UNCHANGED base

\* Mutant: the callback that was run is not forgotten.
timeout_keeps_callback ==
    /\ ~dangling /\ data.timeout /\ base = "open"
    /\ settled' = settled \o Cancelled(data.r)
    /\ asked' = asked \ data.r
    /\ Tell("ok", data.pending_result)
    /\ data' = IF data.r = {} THEN Freed(data)
               ELSE [data EXCEPT !.pending_result = {}, !.timeout = FALSE]
    /\ UNCHANGED <<told, answered, base, dangling>>

\* The second answer took too long: report the first and cancel the second.
evdns_getaddrinfo_timeout_cb ==
    /\ ~dangling /\ data.timeout
    /\ IF base = "shut" /\ data.r # {}
       THEN dangling' = TRUE /\ UNCHANGED <<asked, settled, data, calls>>
       ELSE /\ settled' = settled \o Cancelled(data.r)
            /\ asked' = asked \ data.r
            /\ Tell(IF data.pending_result = {} THEN "failed" ELSE "ok", data.pending_result)
            /\ data' = IF data.r = {} THEN Freed(data)
                       ELSE [data EXCEPT !.user_cb = FALSE, !.pending_result = {},
                                         !.timeout = FALSE]
            /\ UNCHANGED dangling
    /\ UNCHANGED <<told, answered, base>>

\* The program cancels a call that has not called back.
evdns_getaddrinfo_cancel ==
    /\ ~dangling /\ data.alive /\ data.user_cb /\ base = "open"
    /\ ~data.request_done /\ ~data.user_canceled
    /\ data' = [data EXCEPT !.timeout = FALSE, !.user_canceled = TRUE]
    /\ settled' = settled \o Cancelled(data.r)
    /\ asked' = asked \ data.r
    /\ UNCHANGED <<told, calls, answered, base, dangling>>

Next == \/ AnswerNow
        \/ evdns_getaddrinfo
        \/ \E f \in Subrequests : Answer(f) \/ evdns_getaddrinfo_gotresolve(f)
        \/ Shutdown
        \/ evdns_getaddrinfo_timeout_cb
        \/ evdns_getaddrinfo_cancel

Spec == Init /\ [][Next]_gvars

-----------------------------------------------------------------------------
(* The program is called back once, and not before its request is over     *)
(* or the first answer has waited long enough; the request is freed when   *)
(* both callbacks of the resolver have run, never while one can still      *)
(* come (evdns.c: "DO NOT CALL this if either of the requests is           *)
(* pending").                                                              *)
CalledBackOnceAndFreed ==
    ~dangling =>
    /\ Len(calls) <= 1
    /\ asked # {} \/ settled # <<>> \/ data.timeout => data.alive
    /\ data.r = asked \cup {settled[i][1] : i \in DOMAIN settled}
    /\ data.alive /\ data.r = {} => FALSE
    /\ told # {} /\ ~data.alive => Len(calls) = 1
    /\ data.alive => (data.user_cb <=> calls = <<>>)
    /\ data.timeout => Cardinality(data.r) <= 1

\* Addresses that arrived before the callback are handed over, all of them,
\* unless the program cancelled: an error of the second request, or its
\* timeout, does not hide the answer of the first.
AddressesAreHandedOver ==
    \A i \in DOMAIN calls : ~calls[i].now /\ calls[i].err # "canceled" =>
       /\ calls[i].addrs = answered
       /\ (calls[i].err = "ok") <=> (answered # {})
=============================================================================
