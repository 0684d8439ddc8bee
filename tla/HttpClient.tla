----------------------------- MODULE HttpClient -----------------------------
(***************************************************************************)
(* http.c, the client side: one evhttp_connection with its queue of        *)
(* requests, its bufferevent and its retry timer.  A handler runs in the   *)
(* loop's thread up to its end, so it is one step; the callbacks of the    *)
(* program that it runs react by calling back into the connection.  The    *)
(* server's answer is a sequence of tokens: a first line, the end of the   *)
(* headers (saying how the body is delimited), pieces of the body.         *)
(***************************************************************************)
EXTENDS Integers, Sequences, FiniteSets, SequencesExt

CONSTANTS HttpReqs,    \* requests the program may make
          HttpSetups,  \* [calls: what the program calls, retry_max, autofree,
                       \*  rowe: EVHTTP_CON_READ_ON_WRITE_ERROR, chunk_cb: BOOLEAN,
                       \*  tokens: what the server sends, n: how many,
                       \*  errors: the errors of the socket, faults: how many]
          MaxInput     \* bound: tokens waiting in the input buffer

VARIABLE hc

Reading == {"FIRSTLINE", "HEADERS", "BODY", "TRAILER"}

-----------------------------------------------------------------------------
(* Requests.                                                               *)

\* An EVUTIL_ASSERT of http.c.
Asserts(h, p) == IF p THEN h ELSE [h EXCEPT !.asserts = FALSE]

\* evhttp_request_free: deferred while chunk_cb runs.
evhttp_request_free(h, r) ==
    IF h.defer_free = r THEN [h EXCEPT !.needs_free = TRUE]
    ELSE [h EXCEPT !.freed = [@ EXCEPT ![r] = @ + 1]]

evhttp_request_free_(h, r) ==
    evhttp_request_free([h EXCEPT !.queue = SelectSeq(@, LAMBDA x : x # r)], r)

\* evhttp_connection_free takes the queued requests with it.
evhttp_connection_free(h) ==
    LET gone == ToSet(h.queue)
    IN [h EXCEPT !.alive = FALSE, !.queue = <<>>, !.retry_ev = FALSE, !.deferred = FALSE,
                 !.ev = {}, !.connecting = FALSE, !.in = <<>>, !.out = FALSE, !.go = FALSE,
                 !.freed = [r \in HttpReqs |-> IF r \in gone THEN @[r] + 1 ELSE @[r]]]

evhttp_connection_reset_(h) ==
    [h EXCEPT !.cb = "none", !.ev = {}, !.connecting = FALSE, !.in = <<>>, !.out = FALSE,
              !.rerr = FALSE, !.state = "DISCONNECTED", !.go = FALSE]

-----------------------------------------------------------------------------
(* Connecting, dispatching and what the program does in its callbacks.     *)

\* evhttp_connection_connect_ below: what it may make of h, and what it returns.
RECURSIVE evhttp_connection_connect_(_)

\* All callers but evhttp_make_request ignore what it returns.
Connect(h) == {c.h : c \in evhttp_connection_connect_(h)}

\* evhttp_write_buffer drops the read callback and watches for a close.
evhttp_write_buffer(h) == [h EXCEPT !.cb = "write", !.ev = {"R", "W"}, !.out = TRUE]

\* An idle connection is watched for a close by the server.
evhttp_connection_start_detectclose(h) == [h EXCEPT !.closedetect = TRUE, !.ev = @ \cup {"R"}]

evhttp_connection_stop_detectclose(h) == [h EXCEPT !.closedetect = FALSE, !.ev = @ \ {"R"}]

evhttp_request_dispatch(h) ==
    IF h.queue = <<>> THEN h
    ELSE LET a == Asserts(Asserts(h, h.kind[Head(h.queue)] = "REQUEST"), h.state = "IDLE")
             d == evhttp_connection_stop_detectclose(a)
         IN evhttp_write_buffer([d EXCEPT !.state = "WRITING", !.go = FALSE])

\* evhttp_connected.
evhttp_connected(h) == h.state \notin {"DISCONNECTED", "CONNECTING"}

\* Mutant: a request on a connection that is up is sent at once.
make_request_dispatches_all(h, r) ==
    LET q == [h EXCEPT !.queue = Append(@, r), !.made = @ \cup {r}, !.kind[r] = "REQUEST"]
    IN IF q.retry_cnt > 0 THEN {q}
       ELSE IF ~evhttp_connected(q) THEN Connect(q) ELSE {evhttp_request_dispatch(q)}

\* When no attempt can be made the request is taken back, and never freed.
evhttp_make_request(h, r) ==
    LET q == [h EXCEPT !.queue = Append(@, r), !.made = @ \cup {r}, !.kind[r] = "REQUEST"]
    IN IF q.retry_cnt > 0 THEN {q}
       ELSE IF ~evhttp_connected(q)
       THEN {IF c.res = 0 THEN c.h
             ELSE [c.h EXCEPT !.queue = SelectSeq(@, LAMBDA x : x # r), !.made = @ \ {r}] :
             c \in evhttp_connection_connect_(q)}
       ELSE {IF Head(q.queue) = r THEN evhttp_request_dispatch(q) ELSE q}

\* The callback of request r; the program may make another request or free
\* the connection in it.
Callback(h, r) ==
    LET t == [h EXCEPT !.told[r] = @ + 1]
    IN {t} \cup (IF t.alive /\ "again" \in h.s.calls
                 THEN UNION {evhttp_make_request(t, x) : x \in HttpReqs \ t.made} ELSE {})
           \cup (IF t.alive /\ "free" \in h.s.calls /\ ~h.s.autofree
                 THEN {evhttp_connection_free(t)} ELSE {})

\* Mutant: the failing request stays in the queue.
fail_keeps_request(h, error) ==
    IF h.queue = <<>> THEN {Asserts(h, FALSE)}
    ELSE LET r == Head(h.queue)
             D == Connect(evhttp_connection_reset_(evhttp_request_free(h, r)))
         IN IF error = "CANCEL" THEN D ELSE UNION {Callback(d, r) : d \in D}

\* The first request fails, the others get a new connection.
evhttp_connection_fail_(h, error) ==
    IF h.queue = <<>> THEN {Asserts(h, FALSE)}
    ELSE LET r == Head(h.queue)
             c == evhttp_connection_reset_(evhttp_request_free_(h, r))
             D == IF c.queue # <<>> THEN Connect(c)
                  ELSE {IF c.s.autofree THEN evhttp_connection_free(c) ELSE c}
         IN IF error = "CANCEL" THEN D ELSE UNION {Callback(d, r) : d \in D}

\* The callbacks of all requests, one after the other, from a copy of the queue.
CallbackAll(S, q) ==
    LET f[i \in 0..Len(q)] ==
            IF i = 0 THEN S
            ELSE UNION {{evhttp_request_free(d, q[i]) : d \in Callback(c, q[i])} : c \in f[i - 1]}
    IN f[Len(q)]

\* No connection: try again later or tell everybody.
evhttp_connection_cb_cleanup(h) ==
    LET c == evhttp_connection_reset_(h)
    IN IF c.retry_cnt < c.s.retry_max
       THEN {[c EXCEPT !.retry_ev = TRUE, !.retry_cnt = @ + 1]}
       ELSE CallbackAll({[c EXCEPT !.queue = <<>>]}, c.queue)

\* Either the attempt fails later, with an event; or nothing can be attempted
\* (bind_socket or bufferevent_enable), and a queue is left down; or it fails at
\* once, and evhttp_connection_cb_cleanup runs before it returns.
evhttp_connection_connect_(h) ==
    LET c == [evhttp_connection_reset_(h) EXCEPT !.down = FALSE]
        f == [c EXCEPT !.faults = @ + 1]
        errors == IF h.faults < h.s.faults THEN h.s.errors ELSE {}
    IN IF h.state = "CONNECTING" THEN {[h |-> h, res |-> 0]}
       ELSE {[h |-> [c EXCEPT !.cb = "connection", !.ev = {"W"}, !.connecting = TRUE,
                              !.state = "CONNECTING"], res |-> 0]}
            \cup {[h |-> [f EXCEPT !.down = TRUE], res |-> -1] : e \in errors \cap {"NO_BIND"}}
            \cup {[h |-> d, res |-> 0] : d \in IF "AT_ONCE" \in errors
                                              THEN evhttp_connection_cb_cleanup(f) ELSE {}}

\* The response is complete: the connection goes on with the next request
\* before the program hears of this one.
evhttp_connection_done(h, need_close) ==
    LET r == Head(h.queue)
        c == [h EXCEPT !.queue = Tail(@), !.state = "IDLE", !.go = FALSE]
        d == IF need_close THEN evhttp_connection_reset_(c) ELSE c
        E == IF d.queue # <<>>
             THEN IF evhttp_connected(d) THEN {evhttp_request_dispatch(d)} ELSE Connect(d)
             ELSE {IF need_close THEN d ELSE evhttp_connection_start_detectclose(d)}
        free == need_close /\ d.queue = <<>> /\ h.s.autofree
    IN {LET f == evhttp_request_free(t, r)
        IN IF free /\ f.queue = <<>> THEN evhttp_connection_free(f) ELSE f :
        t \in UNION {Callback(e, r) : e \in E}}

\* Mutant: input that came early waits for more to come.
start_read_forgets_input(h) == [h EXCEPT !.ev = {"R"}, !.state = "FIRSTLINE", !.cb = "read"]

\* evhttp_start_read_: input that is already there is read by a deferred callback.
evhttp_start_read_(h) ==
    [h EXCEPT !.ev = {"R"}, !.state = "FIRSTLINE", !.cb = "read",
              !.deferred = @ \/ h.in # <<>>]

-----------------------------------------------------------------------------
(* Reading an answer, one token after the other.                           *)

Eat(h) == [h EXCEPT !.in = Tail(@)]

\* After a 100 Continue the rest of the request is written.
evhttp_start_write_(h) == [evhttp_write_buffer(h) EXCEPT !.state = "WRITING", !.go = FALSE]

\* chunk_cb sees every piece of the body and may cancel the request.
ChunkCb(h) ==
    LET r == Head(h.queue)
        d == [h EXCEPT !.defer_free = r]
    IN IF ~h.s.chunk_cb THEN {h}
       ELSE {[h EXCEPT !.go = TRUE]} \cup
            (IF "cancel" \notin h.s.calls THEN {}
             ELSE {LET e == [c EXCEPT !.defer_free = "none", !.needs_free = FALSE, !.go = FALSE]
                   IN IF c.needs_free THEN evhttp_request_free(e, r) ELSE e :
                   c \in evhttp_connection_fail_(d, "CANCEL")})

\* evhttp_read_firstline and evhttp_read_header.
ReadHead(h, t) ==
    IF h.state = "FIRSTLINE"
    THEN IF t = "line" THEN {[Eat(h) EXCEPT !.state = "HEADERS"]}
         ELSE IF t = "100" THEN {evhttp_start_write_(Eat(h))}
         ELSE evhttp_connection_fail_(Eat(h), "INVALID_HEADER")
    ELSE CASE t = "none" -> evhttp_connection_done(Eat(h), FALSE)
           [] t = "nonclose" -> evhttp_connection_done(Eat(h), TRUE)
           [] t \in {"length", "chunked", "until_close"} ->
                 {[Eat(h) EXCEPT !.state = "BODY", !.body = t, !.ntoread = 2]}
           [] OTHER -> evhttp_connection_fail_(Eat(h), "INVALID_HEADER")

\* evhttp_read_body and evhttp_read_trailer: with a length and without chunk_cb
\* the input stays where it is until all of it is there.
ReadBody(h, t) ==
    CASE h.body = "chunked" /\ t = "chunk" -> ChunkCb(Eat(h))
      [] h.body = "chunked" /\ t = "last" -> {[Eat(h) EXCEPT !.state = "TRAILER"]}
      [] h.body = "chunked" -> evhttp_connection_fail_(Eat(h), "DATA_TOO_LONG")
      [] h.body = "until_close" -> ChunkCb(Eat(h))
      [] h.body = "length" /\ h.s.chunk_cb ->
            UNION {IF ~c.go THEN {c}
                   ELSE IF c.ntoread = 0 THEN evhttp_connection_done([c EXCEPT !.ev = @ \ {"R"}], FALSE)
                   ELSE {c} : c \in ChunkCb([Eat(h) EXCEPT !.ntoread = @ - 1])}
      [] OTHER -> IF Len(h.in) < 2 THEN {[h EXCEPT !.go = FALSE]}
                  ELSE evhttp_connection_done([Eat(Eat(h)) EXCEPT !.ev = @ \ {"R"}], FALSE)

ReadTrailer(h, t) ==
    IF t = "end" THEN evhttp_connection_done([Eat(h) EXCEPT !.ev = @ \ {"R"}], FALSE)
    ELSE evhttp_connection_fail_(Eat(h), "DATA_TOO_LONG")

ReadToken(h) ==
    IF ~h.go \/ h.in = <<>> \/ h.state \notin Reading THEN {h}
    ELSE IF h.state = "BODY" THEN ReadBody(h, Head(h.in))
    ELSE IF h.state = "TRAILER" THEN ReadTrailer(h, Head(h.in))
    ELSE ReadHead(h, Head(h.in))

\* evhttp_read_cb: data on an idle connection resets it.
evhttp_read_cb(h) ==
    LET f[i \in 0..MaxInput] ==
            IF i = 0 THEN {[h EXCEPT !.deferred = FALSE, !.go = TRUE]}
            ELSE UNION {ReadToken(c) : c \in f[i - 1]}
    IN IF h.state \in Reading THEN {[c EXCEPT !.go = FALSE] : c \in f[MaxInput]}
       ELSE {Asserts(evhttp_connection_reset_([h EXCEPT !.deferred = FALSE, !.stale = TRUE]),
                     h.state = "IDLE")}

\* evhttp_connection_read_on_write_error: maybe the server has said why.
evhttp_connection_read_on_write_error(h) ==
    IF h.rerr THEN evhttp_connection_fail_([h EXCEPT !.rerr = FALSE], "EOF")
    ELSE {[evhttp_start_read_([h EXCEPT !.kind[Head(h.queue)] = "RESPONSE", !.out = FALSE])
           EXCEPT !.rerr = TRUE]}

\* evhttp_error_cb; the bufferevent has disabled the direction already.
evhttp_error_cb(h, what) ==
    IF h.state = "CONNECTING" /\ what = "TIMEOUT" THEN evhttp_connection_cb_cleanup(h)
    ELSE IF h.state = "BODY" /\ h.body = "until_close" /\ what = "R_EOF"
    THEN evhttp_connection_done(h, TRUE)
    ELSE IF h.closedetect
    THEN LET c == evhttp_connection_reset_(Asserts([h EXCEPT !.closedetect = FALSE], h.state = "IDLE"))
         IN {IF c.queue = <<>> /\ c.s.autofree THEN evhttp_connection_free(c) ELSE c}
    ELSE IF what = "TIMEOUT" THEN evhttp_connection_fail_(h, "TIMEOUT")
    ELSE IF what = "W_ERROR" /\ h.s.rowe /\ h.queue # <<>> THEN evhttp_connection_read_on_write_error(h)
    ELSE IF what = "R_EOF" /\ h.s.rowe /\ h.in # <<>> THEN {[h EXCEPT !.deferred = TRUE, !.eof = TRUE]}
    ELSE evhttp_connection_fail_(h, "EOF")

\* evhttp_connection_cb.
evhttp_connection_cb(h, what) ==
    IF what = "CONNECTED"
    THEN {evhttp_request_dispatch([h EXCEPT !.retry_cnt = 0, !.state = "IDLE", !.cb = "read",
                                            !.connecting = FALSE])}
    ELSE IF what = "REFUSED" THEN evhttp_connection_cb_cleanup([h EXCEPT !.connecting = FALSE])
    ELSE evhttp_error_cb([h EXCEPT !.connecting = FALSE], what)

-----------------------------------------------------------------------------
(* The steps of the loop and of the program.                               *)

Init == \E s \in HttpSetups :
    hc = [s |-> s, alive |-> TRUE, state |-> "DISCONNECTED", queue |-> <<>>, made |-> {},
          kind |-> [r \in HttpReqs |-> "REQUEST"], told |-> [r \in HttpReqs |-> 0],
          freed |-> [r \in HttpReqs |-> 0], cb |-> "none", ev |-> {}, connecting |-> FALSE,
          in |-> <<>>, out |-> FALSE, body |-> "none", ntoread |-> 0, retry_cnt |-> 0,
          retry_ev |-> FALSE, deferred |-> FALSE, closedetect |-> FALSE, rerr |-> FALSE,
          defer_free |-> "none", needs_free |-> FALSE, go |-> FALSE, stale |-> FALSE,
          eof |-> FALSE, down |-> FALSE, asserts |-> TRUE, sent |-> 0, faults |-> 0]

MakeRequest == /\ hc.alive /\ \E r \in HttpReqs \ hc.made : hc' \in evhttp_make_request(hc, r)

evhttp_cancel_request ==
    /\ hc.alive /\ "cancel" \in hc.s.calls /\ hc.queue # <<>>
    /\ \E r \in ToSet(hc.queue) :
          hc' \in IF r = Head(hc.queue)
                  THEN evhttp_connection_fail_([hc EXCEPT !.stale = @ \/ hc.retry_ev], "CANCEL")
                  ELSE {evhttp_request_free_(hc, r)}

FreeConnection == hc.alive /\ "free" \in hc.s.calls /\ hc' = evhttp_connection_free(hc)

Connects ==
    /\ hc.alive /\ hc.connecting
    /\ \/ hc' \in evhttp_connection_cb(hc, "CONNECTED")
       \/ /\ hc.faults < hc.s.faults
          /\ \E e \in hc.s.errors \cap {"REFUSED", "TIMEOUT", "C_ERROR"} :
                hc' \in evhttp_connection_cb([hc EXCEPT !.faults = @ + 1], e)

evhttp_connection_retry ==
    /\ hc.alive /\ hc.retry_ev
    /\ hc' \in Connect([hc EXCEPT !.retry_ev = FALSE, !.state = "DISCONNECTED"])

\* The request is written: evhttp_write_cb runs evhttp_write_connectioncb.
evhttp_write_connectioncb ==
    /\ hc.alive /\ hc.out /\ "W" \in hc.ev /\ hc.cb = "write"
    /\ hc' = LET h == Asserts(hc, hc.queue # <<>> /\ hc.state = "WRITING")
             IN evhttp_start_read_([h EXCEPT !.out = FALSE, !.kind[Head(hc.queue)] = "RESPONSE"])

\* Data arrives; without a read callback it stays in the input buffer.
Arrives ==
    /\ hc.alive /\ ~hc.connecting /\ "R" \in hc.ev /\ hc.sent < hc.s.n /\ Len(hc.in) < MaxInput
    /\ \E t \in hc.s.tokens :
          LET h == [hc EXCEPT !.in = Append(@, t), !.sent = @ + 1]
          IN hc' \in IF h.cb = "read" THEN evhttp_read_cb(h) ELSE {h}

evhttp_deferred_read_cb ==
    /\ hc.alive /\ hc.deferred
    /\ hc' \in IF hc.cb = "read" THEN evhttp_read_cb(hc) ELSE {[hc EXCEPT !.deferred = FALSE]}

\* The end of the stream, an error or a timeout.
SocketFails ==
    /\ hc.alive /\ ~hc.connecting /\ hc.cb \in {"read", "write"} /\ hc.faults < hc.s.faults
    /\ LET h == [hc EXCEPT !.faults = @ + 1]
       IN \/ /\ "R" \in h.ev
             /\ \E e \in hc.s.errors \cap {"R_EOF", "TIMEOUT"} :
                   hc' \in evhttp_error_cb([h EXCEPT !.ev = @ \ {"R"}], e)
          \/ /\ h.out /\ "W" \in h.ev /\ "W_ERROR" \in hc.s.errors
             /\ hc' \in evhttp_error_cb([h EXCEPT !.ev = @ \ {"W"}], "W_ERROR")

Next == \/ MakeRequest \/ evhttp_cancel_request \/ FreeConnection \/ Connects
        \/ evhttp_connection_retry \/ evhttp_write_connectioncb \/ Arrives
        \/ evhttp_deferred_read_cb \/ SocketFails

-----------------------------------------------------------------------------
\* A request that was made is in the queue of the connection until it ends, and
\* it ends once: freed one time, called back at most one time, and called back
\* unless it was cancelled or went down with the connection.
RequestsEndOnce ==
    \A r \in hc.made :
        /\ (\E i \in 1..Len(hc.queue) : hc.queue[i] = r) <=> hc.freed[r] = 0
        /\ hc.freed[r] <= 1 /\ hc.told[r] <= hc.freed[r]
        /\ hc.alive /\ "cancel" \notin hc.s.calls => hc.told[r] = hc.freed[r]

\* A queued request is on its way: a connection is being made or will be tried
\* again, the request is being written, or its answer is being read.  (Not so when
\* retry_cnt is left over from retries that have ended, which keeps later requests
\* from connecting; nor, with READ_ON_WRITE_ERROR, when the stream ends in an
\* incomplete answer; nor when evhttp_connection_fail_, _done or _retry could not
\* attempt a connection at all, which nobody is told of: down.)
RequestsMove ==
    /\ hc.alive /\ hc.queue # <<>> /\ ~hc.eof /\ ~hc.stale /\ ~hc.down
    /\ (hc.retry_cnt > 0 => hc.retry_ev \/ hc.connecting)
    => \/ hc.retry_ev \/ hc.connecting
       \/ hc.state = "WRITING" /\ hc.out /\ "W" \in hc.ev /\ hc.cb = "write"
       \/ /\ hc.state \in Reading /\ "R" \in hc.ev /\ hc.cb = "read"
          /\ hc.in # <<>> => hc.deferred \/ hc.state = "BODY"

\* The assertions of http.c hold, and no callback comes in a state that
\* evhttp_read_cb calls illegal, unless (stale) data came on an idle connection,
\* which leaves CLOSEDETECT set, or the first request was cancelled while
\* retry_ev was pending, which leaves the timer running.
AssertionsHold == hc.asserts \/ hc.stale
=============================================================================
