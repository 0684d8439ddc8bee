-------------------------------- MODULE MCDns --------------------------------
(***************************************************************************)
(* The three parts of evdns.c for TLC: the client (Evdns), getaddrinfo on  *)
(* top of it (Getaddrinfo, over the client's abstract promise) and the     *)
(* server side (EvdnsServer).  They share no state, so a behaviour         *)
(* exercises one of them, its `part'.                                      *)
(***************************************************************************)
EXTENDS Evdns

CONSTANTS u1, u2, d1

\* Two requests compete for one place while a server is probed, or while a
\* socket fails; one request with a probe and a failing socket; two requests
\* that search a domain; one request under changes of the configuration.
Cases ==
    {[users |-> {u1, u2}, domains |-> <<>>, max |-> 1, probes |-> 1, faults |-> 0, config |-> 0],
     [users |-> {u1, u2}, domains |-> <<>>, max |-> 1, probes |-> 0, faults |-> 1, config |-> 0],
     [users |-> {u1}, domains |-> <<>>, max |-> 1, probes |-> 1, faults |-> 1, config |-> 0],
     [users |-> {u1, u2}, domains |-> <<d1>>, max |-> 2, probes |-> 0, faults |-> 0, config |-> 0],
     [users |-> {u1}, domains |-> <<d1>>, max |-> 2, probes |-> 1, faults |-> 0, config |-> 1],
     [users |-> {u1}, domains |-> <<>>, max |-> 2, probes |-> 0, faults |-> 0, config |-> 3]}

Draw == {<<0>>}

CONSTANTS Families, Requests

VARIABLES part, asked, settled, told, data, calls, answered, resolver, dangling,
          port, owner, response, sends

G == INSTANCE Getaddrinfo WITH base <- resolver
S == INSTANCE EvdnsServer

gvars == <<asked, settled, told, data, calls, answered, resolver, dangling>>
svars == <<port, owner, response, sends>>

Parts == {"client", "getaddrinfo", "server"}

SuiteInit == part \in Parts /\ Init /\ G!Init /\ S!Init

SuiteNext ==
    /\ UNCHANGED part
    /\ \/ part = "client" /\ Next /\ UNCHANGED <<gvars, svars>>
       \/ part = "getaddrinfo" /\ G!Next /\ UNCHANGED <<base, svars>>
       \/ part = "server" /\ S!Next /\ UNCHANGED <<base, gvars>>

SuiteSpec == SuiteInit /\ [][SuiteNext]_<<part, base, gvars, svars>>

-----------------------------------------------------------------------------
\* Getaddrinfo: the program is called back once, with all addresses that came in
\* time, and the request is freed when both subrequests have called back and
\* never before.
LookupsEndOnce == G!CalledBackOnceAndFreed /\ G!AddressesAreHandedOver

\* EvdnsServer: the port lives as long as it is open or a request refers to it,
\* and every reply is sent at most once.
PortOutlivesRequests == S!PortOutlivesRequests
=============================================================================
