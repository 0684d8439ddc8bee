-------------------------------- MODULE Evrpc --------------------------------
(***************************************************************************)
(* evrpc.c: the client's pool, which puts the RPCs that the program makes  *)
(* on HTTP connections, and the server's handling of one RPC; both with    *)
(* hooks that may pause or end an RPC.  An HTTP connection is the queue of *)
(* its requests, as HttpClient shows it; it answers or fails the first.    *)
(***************************************************************************)
EXTENDS Integers, Sequences, FiniteSets, SequencesExt

CONSTANTS Rpcs,       \* the RPCs that the program may make
          RpcConns,   \* the connections it may add to the pool: 1..n
          RpcSetups   \* [in, out: what the hooks of each side may say,
                      \*  timeout: the pool has one, fails: connecting may fail at once]

VARIABLES rp,         \* the pool
          rs          \* the server's state of each RPC that came in

-----------------------------------------------------------------------------
(* The pool.                                                               *)

\* The program's callback runs and the wrapper is freed.
Tell(h, r, status) == [h EXCEPT !.told[r] = Append(@, status)]

\* evrpc_pool_find_connection: the first connection without a request.
Idle(h) == {c \in h.pool : h.conn[c] = <<>>}

evrpc_pool_find_connection(h) == CHOOSE c \in Idle(h) : \A d \in Idle(h) : c <= d

evrpc_pause_request(h, r, c, at) == [h EXCEPT !.paused = Append(@, [r |-> r, c |-> c, at |-> at])]

\* An RPC that ends before it has started wakes no other (stalled).
Unstarted(h, r) == [Tell(h, r, "UNSTARTED") EXCEPT !.stalled = TRUE]

\* evrpc_schedule_request_closure; the timer is set before evhttp_make_request,
\* and stays when that fails and the wrapper that holds it is freed.
evrpc_schedule_request_closure(h, r, c, res) ==
    LET timed == IF h.s.timeout THEN [h EXCEPT !.timer = @ \cup {r}, !.evcon[r] = c]
                 ELSE [h EXCEPT !.evcon[r] = c]
    IN IF res = "TERMINATE" THEN {Unstarted(h, r)}
       ELSE {[timed EXCEPT !.conn[c] = Append(@, r)]}
            \cup IF h.s.fails THEN {Unstarted(timed, r)} ELSE {}

\* evrpc_schedule_request.
evrpc_schedule_request(h, c, r) ==
    UNION {IF res = "PAUSE" THEN {evrpc_pause_request(h, r, c, "schedule")}
           ELSE evrpc_schedule_request_closure(h, r, c, res) : res \in h.s.out}

evrpc_pool_schedule(h) ==
    IF h.queue = <<>> \/ Idle(h) = {} THEN {h}
    ELSE evrpc_schedule_request([h EXCEPT !.queue = Tail(@)], evrpc_pool_find_connection(h),
                                Head(h.queue))

evrpc_make_request(h, r) ==
    evrpc_pool_schedule([h EXCEPT !.queue = Append(@, r), !.made = @ \cup {r}])

\* Mutant: the end of an RPC is not taken to start the next.
reply_done_schedules_nothing(h, r, req, res) ==
    {Tell(h, r, s) : s \in IF ~req THEN {"TIMEOUT"}
                           ELSE IF res = "TERMINATE" THEN {"HOOKABORTED"} ELSE {"NONE", "BADPAYLOAD"}}

\* evrpc_reply_done_closure; req: there is an answer.  Freeing a connection's
\* request makes room for the next RPC.
evrpc_reply_done_closure(h, r, req, res) ==
    UNION {evrpc_pool_schedule(Tell(h, r, s)) :
           s \in IF ~req THEN {"TIMEOUT"}
                 ELSE IF res = "TERMINATE" THEN {"HOOKABORTED"} ELSE {"NONE", "BADPAYLOAD"}}

\* evrpc_reply_done.
evrpc_reply_done(h, r, req) ==
    LET t == [h EXCEPT !.timer = @ \ {r}]
    IN IF ~req THEN evrpc_reply_done_closure(t, r, req, "CONTINUE")
       ELSE UNION {IF res = "PAUSE" THEN {evrpc_pause_request(t, r, h.evcon[r], "reply")}
                   ELSE evrpc_reply_done_closure(t, r, req, res) : res \in h.s.in}

-----------------------------------------------------------------------------
(* The steps of the client.                                                *)

evrpc_send_request_generic ==
    /\ rp.pool # {} /\ \E r \in Rpcs \ rp.made : rp' \in evrpc_make_request(rp, r)
    /\ UNCHANGED rs

\* The connection is done with its first request, with an answer or without.
Ends ==
    /\ \E c \in RpcConns : /\ rp.conn[c] # <<>>
                           /\ \E req \in BOOLEAN :
                                 rp' \in evrpc_reply_done([rp EXCEPT !.conn[c] = Tail(@)],
                                                          Head(rp.conn[c]), req)
    /\ UNCHANGED rs

\* No connection can be made: every request of it gets an empty answer.
Refused ==
    /\ \E c \in RpcConns :
          /\ Len(rp.conn[c]) > 1
          /\ LET q == rp.conn[c]
                 f[i \in 0..Len(q)] == IF i = 0 THEN {[rp EXCEPT !.conn[c] = <<>>]}
                                       ELSE UNION {evrpc_reply_done(h, q[i], TRUE) : h \in f[i - 1]}
             IN rp' \in f[Len(q)]
    /\ UNCHANGED rs

\* evrpc_request_timeout fails the connection, and with it its first request.  The
\* wrapper of an RPC that did not start is freed memory (uaf): any connection.
evrpc_request_timeout ==
    /\ \E r \in rp.timer : \E c \in IF rp.told[r] = <<>> THEN {rp.evcon[r]} ELSE RpcConns :
          LET h == [rp EXCEPT !.timer = @ \ {r}, !.asserts = @ /\ rp.conn[c] # <<>>,
                              !.uaf = @ \/ rp.told[r] # <<>>]
          IN rp' \in IF rp.conn[c] = <<>> THEN {h}
                     ELSE LET first == Head(rp.conn[c])
                          IN evrpc_reply_done([h EXCEPT !.conn[c] = Tail(@), !.wrong = @ \/ first # r],
                                              first, FALSE)
    /\ UNCHANGED rs

\* evrpc_resume_request: the RPC goes on, then it is no longer paused.
evrpc_resume_request ==
    /\ \E i \in 1..Len(rp.paused) : \E res \in {"CONTINUE", "TERMINATE"} :
          LET p == rp.paused[i]
          IN rp' \in {[h EXCEPT !.paused = SelectSeq(@, LAMBDA x : x # p)] :
                      h \in IF p.at = "schedule" THEN evrpc_schedule_request_closure(rp, p.r, p.c, res)
                            ELSE evrpc_reply_done_closure(rp, p.r, TRUE, res)}
    /\ UNCHANGED rs

evrpc_pool_add_connection ==
    /\ \E c \in RpcConns \ rp.pool :
          /\ rp.conn[c] = <<>>
          /\ LET h == [rp EXCEPT !.pool = @ \cup {c}]
             IN rp' \in IF h.queue = <<>> THEN {h}
                        ELSE evrpc_schedule_request([h EXCEPT !.queue = Tail(@)], c, Head(h.queue))
    /\ UNCHANGED rs

evrpc_pool_remove_connection ==
    /\ Cardinality(rp.pool) > 1 /\ \E c \in rp.pool : rp' = [rp EXCEPT !.pool = @ \ {c}]
    /\ UNCHANGED rs

-----------------------------------------------------------------------------
(* The server: evrpc_request_cb runs the hooks, the closure gives the RPC  *)
(* to the program, evrpc_request_done sends its answer.                    *)

\* The answer (or an error page) is sent and the RPC's state freed.
evrpc_reqstate_free_(h, r) == [h EXCEPT !.freed[r] = @ + 1]

\* Mutant: the state is freed but nobody is told.
finish_without_answer(h, r) == [evrpc_reqstate_free_(h, r) EXCEPT !.at[r] = "done"]

\* evhttp_send_error or evhttp_send_reply.
Finish(h, r) == [evrpc_reqstate_free_(h, r) EXCEPT !.at[r] = "done", !.answers[r] = @ + 1]

\* evrpc_request_cb_closure: the request may not be understood.
evrpc_request_cb_closure(h, r, res) ==
    {Finish(h, r)} \cup IF res = "TERMINATE" THEN {} ELSE {[h EXCEPT !.at[r] = "user"]}

evrpc_request_cb ==
    /\ \E r \in Rpcs : /\ rs.at[r] = "none"
                       /\ \E res \in rs.s.in :
                             rs' \in IF res = "TERMINATE" THEN {Finish(rs, r)}
                                     ELSE IF res = "PAUSE" THEN {[rs EXCEPT !.at[r] = "paused_in"]}
                                     ELSE evrpc_request_cb_closure(rs, r, res)
    /\ UNCHANGED rp

\* evrpc_request_done: an answer that is not complete ends in an error page too.
evrpc_request_done ==
    /\ \E r \in Rpcs : /\ rs.at[r] = "user"
                       /\ \E res \in rs.s.out :
                             rs' = IF res = "PAUSE" THEN [rs EXCEPT !.at[r] = "paused_out"]
                                   ELSE Finish(rs, r)
    /\ UNCHANGED rp

\* evrpc_resume_request on the server: evrpc_request_done_closure answers either way.
ServerResumes ==
    /\ \E r \in Rpcs : \/ /\ rs.at[r] = "paused_in"
                          /\ \E res \in {"CONTINUE", "TERMINATE"} :
                                rs' \in evrpc_request_cb_closure(rs, r, res)
                       \/ rs.at[r] = "paused_out" /\ rs' = Finish(rs, r)
    /\ UNCHANGED rp

-----------------------------------------------------------------------------
Init == \E s \in RpcSetups :
    /\ rp = [s |-> s, pool |-> {1}, made |-> {}, queue |-> <<>>, conn |-> [c \in RpcConns |-> <<>>],
             evcon |-> [r \in Rpcs |-> 0], paused |-> <<>>, timer |-> {}, told |-> [r \in Rpcs |-> <<>>],
             stalled |-> FALSE, wrong |-> FALSE, uaf |-> FALSE, asserts |-> TRUE]
    /\ rs = [s |-> s, at |-> [r \in Rpcs |-> "none"], freed |-> [r \in Rpcs |-> 0],
             answers |-> [r \in Rpcs |-> 0]]

\* A setup is of the client or of the server.
Next == \/ /\ rp.s.side = "client"
           /\ \/ evrpc_send_request_generic \/ Ends \/ Refused \/ evrpc_request_timeout
              \/ evrpc_resume_request \/ evrpc_pool_add_connection \/ evrpc_pool_remove_connection
        \/ /\ rp.s.side = "server"
           /\ evrpc_request_cb \/ evrpc_request_done \/ ServerResumes

-----------------------------------------------------------------------------
\* An RPC is in one place: waiting in the pool, on one connection, paused, or
\* ended, and then the program was told once.  A timer is that of an RPC on a
\* connection, or is left by one whose connection could not be made at once
\* (evrpc.c:749).  The server answers an RPC when it frees its state, and once.
RpcsEndOnce ==
    /\ \A r \in rp.made :
          Cardinality({i \in 1..Len(rp.queue) : rp.queue[i] = r})
          + Cardinality({c \in RpcConns : \E i \in 1..Len(rp.conn[c]) : rp.conn[c][i] = r})
          + Cardinality({i \in 1..Len(rp.paused) : rp.paused[i].r = r}) + Len(rp.told[r]) = 1
    /\ \A r \in rp.timer : \/ \E i \in 1..Len(rp.conn[rp.evcon[r]]) : rp.conn[rp.evcon[r]][i] = r
                           \/ rp.s.fails /\ rp.told[r] = <<"UNSTARTED">>
    /\ \A r \in Rpcs : rs.freed[r] = rs.answers[r] /\ rs.freed[r] = (IF rs.at[r] = "done" THEN 1 ELSE 0)

\* An RPC waits in the pool only while every connection is busy or held by a
\* paused RPC.  (stalled: when a hook or a failing connect ends an RPC before it
\* has started, nobody looks for the next one.)
RpcPoolMoves ==
    rp.queue # <<>> /\ ~rp.stalled =>
        \A c \in rp.pool : rp.conn[c] # <<>> \/ \E i \in 1..Len(rp.paused) : rp.paused[i].c = c

\* A timeout finds its connection busy, and ends the RPC that it was set for
\* unless pausing has put two RPCs on one connection; until the timer of an RPC
\* that never started goes off on its freed wrapper.
RpcTimeoutsHit == rp.uaf \/ (rp.asserts /\ (rp.wrong => "PAUSE" \in rp.s.out))
=============================================================================
