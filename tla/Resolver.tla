------------------------------ MODULE Resolver ------------------------------
(***************************************************************************)
(* What the DNS client of evdns.c promises to its callers: a request is    *)
(* asked once, is settled once with one result, and its callback is run    *)
(* once, in the order in which the requests were settled.  Cancelling a    *)
(* request settles it (with DNS_ERR_CANCEL) unless it is settled already,  *)
(* and shutting the resolver down settles or abandons all that is left.    *)
(* Evdns implements this; Getaddrinfo is a client of it.                   *)
(***************************************************************************)
EXTENDS Naturals, Sequences, FiniteSets

CONSTANTS Requests,  \* the handles a caller can hold
          Results    \* what a callback can be told

VARIABLES asked,     \* requests that were sent out and have no result yet
          settled,   \* <<request, result>> whose callback is still to run
          told       \* requests whose callback was run

rvars == <<asked, settled, told>>

Init == /\ asked = {}
        /\ settled = <<>>
        /\ told = {}

SettledRequests == {settled[i][1] : i \in DOMAIN settled}

Unused == Requests \ (asked \cup SettledRequests \cup told)

Ask(r) == /\ r \in Unused
          /\ asked' = asked \cup {r}
          /\ UNCHANGED <<settled, told>>

\* Some requests get their results, each once, behind those settled before.
Settle(R) ==
    /\ R # {} /\ R \subseteq asked
    /\ asked' = asked \ R
    /\ \E s \in [1..Cardinality(R) -> R \X Results] :
          /\ {s[i][1] : i \in DOMAIN s} = R
          /\ settled' = settled \o s
    /\ UNCHANGED told

\* The event loop runs the first callback that is due.
Tell == /\ settled # <<>> /\ settled[1][1] \notin told
        /\ told' = told \cup {settled[1][1]}
        /\ settled' = Tail(settled)
        /\ UNCHANGED asked

\* evdns_base_free without fail_requests: nobody is told.
Abandon == /\ asked' = {}
           /\ UNCHANGED <<settled, told>>

Next == \/ \E r \in Requests : Ask(r)
        \/ \E R \in SUBSET asked : Settle(R)
        \/ Tell
        \/ Abandon

Spec == Init /\ [][Next]_rvars
=============================================================================
