------------------------------- MODULE MCHttp -------------------------------
(***************************************************************************)
(* HTTP for TLC: the client's connection (HttpClient), the server's        *)
(* (HttpServer) and the RPCs on top (Evrpc).  They share no state here, so *)
(* a behaviour exercises one of them, its `part'.                          *)
(***************************************************************************)
EXTENDS HttpClient

CONSTANTS Parts, HttpdSetups, MaxHttpd, Rpcs, RpcConns, RpcSetups

VARIABLES part, hs, rp, rs

S == INSTANCE HttpServer
E == INSTANCE Evrpc

\* Plain requests; one connection that frees itself, with chunks and a
\* chunk_cb that cancels; retries and reading on after a write error.
ClientCases ==
    {[calls |-> {"cancel", "again", "free"}, retry_max |-> 0, autofree |-> FALSE, rowe |-> FALSE,
      chunk_cb |-> FALSE, tokens |-> {"line", "none", "nonclose", "length", "b"}, n |-> 5,
      errors |-> {"REFUSED", "TIMEOUT", "R_EOF", "W_ERROR", "C_ERROR", "AT_ONCE", "NO_BIND"}, faults |-> 1],
     [calls |-> {"cancel"}, retry_max |-> 0, autofree |-> TRUE, rowe |-> FALSE,
      chunk_cb |-> TRUE, tokens |-> {"line", "chunked", "length", "chunk", "last", "end"}, n |-> 6,
      errors |-> {"REFUSED", "R_EOF", "AT_ONCE"}, faults |-> 1],
     [calls |-> {"again"}, retry_max |-> 1, autofree |-> FALSE, rowe |-> TRUE,
      chunk_cb |-> FALSE, tokens |-> {"line", "length", "until_close", "b", "100"}, n |-> 5,
      errors |-> {"REFUSED", "TIMEOUT", "R_EOF", "W_ERROR", "C_ERROR", "AT_ONCE", "NO_BIND"}, faults |-> 3]}

\* Pipelining and answers in pieces; long bodies with a lingering close; every
\* kind of request.
ServerCases ==
    {[user |-> {"later", "now", "start", "free"}, max |-> 2, linger |-> FALSE,
      tokens |-> {"line", "none", "length", "b", "expect"}, n |-> 7, faults |-> 1],
     [user |-> {"later", "now"}, max |-> 1, linger |-> TRUE,
      tokens |-> {"line", "none", "length", "b", "expect"}, n |-> 6, faults |-> 1],
     [user |-> {"now", "start"}, max |-> 1, linger |-> FALSE,
      tokens |-> {"line", "other", "close", "http10", "forbidden", "chunked", "b", "last", "end"},
      n |-> 6, faults |-> 1]}

AllResults == {"CONTINUE", "PAUSE", "TERMINATE"}
RpcCases ==
    {[side |-> "client", in |-> AllResults, out |-> AllResults, timeout |-> TRUE, fails |-> FALSE],
     [side |-> "client", in |-> {"CONTINUE"}, out |-> {"CONTINUE", "TERMINATE"}, timeout |-> TRUE, fails |-> TRUE],
     [side |-> "client", in |-> {"CONTINUE", "PAUSE"}, out |-> {"CONTINUE"}, timeout |-> TRUE,
      fails |-> FALSE],
     [side |-> "server", in |-> AllResults, out |-> AllResults, timeout |-> FALSE, fails |-> FALSE]}

None == <<>>

SuiteInit ==
    /\ part \in Parts
    /\ IF part = "client" THEN Init ELSE hc = None
    /\ IF part = "server" THEN S!Init ELSE hs = None
    /\ IF part = "rpc" THEN E!Init ELSE rp = None /\ rs = None

SuiteNext ==
    /\ UNCHANGED part
    /\ \/ part = "client" /\ Next /\ UNCHANGED <<hs, rp, rs>>
       \/ part = "server" /\ S!Next /\ UNCHANGED <<hc, rp, rs>>
       \/ part = "rpc" /\ E!Next /\ UNCHANGED <<hc, hs>>

SuiteSpec == SuiteInit /\ [][SuiteNext]_<<part, hc, hs, rp, rs>>

-----------------------------------------------------------------------------
\* A request, of the client, of the server or of an RPC, ends once: it is freed
\* once, its program hears of it once, and a server's program never loses a
\* request that it holds, whatever happens to the connection.
RequestsEnd ==
    /\ part = "client" => RequestsEndOnce
    /\ part = "server" => S!ServedOnce
    /\ part = "rpc" => E!RpcsEndOnce

\* While a request is not ended something is under way for it: a connection, a
\* retry, bytes to write or to read, a program that holds it, or a request
\* ahead of it; input that came early is not left lying.
RequestsProgress ==
    /\ part = "client" => RequestsMove
    /\ part = "server" => S!ServerMoves
    /\ part = "rpc" => E!RpcPoolMoves

\* The assertions of http.c and evrpc.c hold, pipelined requests are answered in
\* order, and an RPC's timeout ends that RPC.
NoAssertionFails ==
    /\ part = "client" => AssertionsHold
    /\ part = "server" => S!ServerAssertions
    /\ part = "rpc" => E!RpcTimeoutsHit

\* "If the connection object is not connected to the web server already, this
\* will start the connection." (evhttp_make_request, http.c): a request in the
\* queue of a connection that is down has a connection or a retry under way.
QueuedRequestsConnect ==
    part = "client" /\ hc.alive /\ hc.queue # <<>> /\ hc.state = "DISCONNECTED" /\ ~hc.down =>
        hc.retry_ev \/ hc.connecting
=============================================================================
