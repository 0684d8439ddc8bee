----------------------------- MODULE HttpServer -----------------------------
(***************************************************************************)
(* http.c, the server side: one accepted connection, the request that is   *)
(* being read or answered on it, and the program, which may answer a       *)
(* request at once, hold it, or send the answer in pieces.  The client's   *)
(* bytes are tokens: a first line, the end of the headers, body pieces.    *)
(***************************************************************************)
EXTENDS Integers, Sequences

CONSTANTS HttpdSetups, \* [user: what the program does, max: max_body_size,
                       \*  linger: EVHTTP_SERVER_LINGERING_CLOSE, tokens: what the
                       \*  client sends, n: how many, faults: errors of the socket]
          MaxHttpd     \* bound: requests on the connection

VARIABLE hs

Parsing == {"FIRSTLINE", "HEADERS", "BODY", "TRAILER"}

\* An EVUTIL_ASSERT of http.c.
Claim(h, p) == IF p THEN h ELSE [h EXCEPT !.asserts = FALSE]

-----------------------------------------------------------------------------
(* The life of a connection and of its request.                            *)

\* evhttp_request_free.
FreeRequest(h) == [h EXCEPT !.freed[h.cur] = @ + 1, !.queued = FALSE, !.user = "none"]

\* evhttp_connection_free: the request that is still on it goes too.
FreeConnection(h) ==
    LET c == IF h.queued THEN [FreeRequest(h) EXCEPT !.user = h.user] ELSE h
    IN [c EXCEPT !.alive = FALSE, !.closed = @ + 1, !.ev = {}, !.in = <<>>, !.out = FALSE,
                 !.deferred = FALSE, !.go = FALSE]

\* evhttp_write_buffer: no read callback, but reading goes on to see a close.
WriteBuffer(h, cb) == [h EXCEPT !.wcb = cb, !.rcb = FALSE, !.ev = {"R", "W"}, !.out = TRUE]

\* Mutant: the next request starts without a look at the input that is waiting.
associate_forgets_input(h) ==
    [h EXCEPT !.cur = @ + 1, !.queued = TRUE, !.userdone = TRUE, !.kind = "REQUEST",
              !.need_close = FALSE, !.chunked = FALSE, !.ntoread = 0, !.body_size = 0,
              !.state = "FIRSTLINE", !.rcb = TRUE, !.ev = {"R"}]

\* evhttp_associate_new_request_with_connection, with evhttp_start_read_.
evhttp_associate_new_request_with_connection(h) ==
    [h EXCEPT !.cur = @ + 1, !.queued = TRUE, !.userdone = TRUE, !.kind = "REQUEST",
              !.need_close = FALSE, !.chunked = FALSE, !.ntoread = 0, !.body_size = 0,
              !.state = "FIRSTLINE", !.rcb = TRUE, !.ev = {"R"}, !.deferred = @ \/ h.in # <<>>]

evhttp_send_done(h) ==
    LET f == [FreeRequest(Claim(h, h.queued)) EXCEPT !.answered = Append(@, h.cur)]
    IN IF h.need_close \/ h.cur = MaxHttpd THEN FreeConnection(f)
       ELSE evhttp_associate_new_request_with_connection(f)

-----------------------------------------------------------------------------
(* The calls of the program that answer a request.                         *)

\* The program has let go of a request that lost its connection.
Detached(h) == FreeRequest(h)

evhttp_send(h, close) ==
    IF h.user = "detached" THEN Detached(h)
    ELSE WriteBuffer([Claim(h, h.queued) EXCEPT !.userdone = TRUE, !.user = "none",
                                                !.need_close = @ \/ close], "send_done")

evhttp_send_reply(h) == evhttp_send([h EXCEPT !.kind = "RESPONSE"], FALSE)

\* evhttp_send_error and evhttp_send_page_: an error page closes the connection.
evhttp_send_error(h) == evhttp_send([h EXCEPT !.kind = "RESPONSE"], TRUE)

evhttp_send_reply_start(h) ==
    IF h.user = "detached" THEN h
    ELSE WriteBuffer([h EXCEPT !.kind = "RESPONSE", !.user = "started", !.chunked = ~h.http10], "none")

evhttp_send_reply_chunk_with_cb(h) == IF h.user = "detached" THEN h ELSE WriteBuffer(h, "none")

evhttp_send_reply_end(h) ==
    LET u == [h EXCEPT !.userdone = TRUE, !.user = "none"]
    IN IF h.user = "detached" THEN Detached(h)
       ELSE IF h.chunked THEN WriteBuffer([u EXCEPT !.chunked = FALSE], "send_done")
       ELSE IF ~h.out THEN evhttp_send_done(u)
       ELSE [u EXCEPT !.wcb = "send_done"]

\* evhttp_handle_request: the program answers now or later, or there is an
\* error page to send (a broken request, a method that is not allowed, no
\* callback for the URI).
evhttp_handle_request(h, ok) ==
    LET u == [h EXCEPT !.userdone = FALSE, !.user = "holds", !.ev = @ \ {"R"}, !.go = FALSE]
    IN IF ~ok THEN {evhttp_send_error(u)}
       ELSE (IF "later" \in h.s.user THEN {u} ELSE {})
            \cup (IF "now" \in h.s.user THEN {evhttp_send_reply(u)} ELSE {})
            \cup (IF "start" \in h.s.user THEN {evhttp_send_reply_start(u)} ELSE {})

\* Mutant: the request is freed with the connection although the program has it.
incoming_fail_frees_held(h, error) ==
    IF error \in {"TIMEOUT", "EOF"} THEN {FreeConnection(h)} ELSE evhttp_handle_request(h, FALSE)

\* evhttp_connection_incoming_fail: after a broken connection a request that the
\* program holds is its own; after a broken request there is an answer to send.
evhttp_connection_incoming_fail(h, error) ==
    IF error \in {"TIMEOUT", "EOF"}
    THEN {FreeConnection(IF h.userdone THEN h ELSE [h EXCEPT !.queued = FALSE, !.user = "detached"])}
    ELSE evhttp_handle_request(h, FALSE)

\* The server's half of evhttp_connection_fail_.
Fail(h, error) ==
    evhttp_connection_incoming_fail([Claim(h, h.queued) EXCEPT !.ev = {}, !.go = FALSE], error)

\* The server's half of evhttp_connection_done.
Done(h) == evhttp_handle_request([h EXCEPT !.state = "WRITING"], h.allowed)

-----------------------------------------------------------------------------
(* Reading a request.                                                      *)

Take(h, k) == [h EXCEPT !.in = SubSeq(@, k + 1, Len(@))]

Least(a, b) == IF a < b THEN a ELSE b

\* A body that is too long is thrown away before the answer, or not read at all.
evhttp_lingering_fail(h) ==
    LET n == Least(Len(h.in), h.ntoread)
        c == [Take(h, n) EXCEPT !.ntoread = @ - n, !.body_size = @ + n]
    IN IF ~h.s.linger THEN Fail(h, "DATA_TOO_LONG")
       ELSE IF c.ntoread = 0 THEN Fail(c, "DATA_TOO_LONG") ELSE {[c EXCEPT !.go = FALSE]}

\* evhttp_read_body; a body with a length stays in the buffer until it is complete.
ReadLength(h) ==
    LET c == IF Len(h.in) >= h.ntoread
             THEN [Take(h, h.ntoread) EXCEPT !.ntoread = 0, !.body_size = @ + h.ntoread] ELSE h
    IN IF c.body_size > h.s.max \/ c.ntoread > h.s.max THEN evhttp_lingering_fail(c)
       ELSE IF c.ntoread = 0 THEN Done([c EXCEPT !.ev = @ \ {"R"}]) ELSE {[c EXCEPT !.go = FALSE]}

\* evhttp_handle_chunked_read: every chunk is one byte.
ReadChunk(h) ==
    LET c == Take(h, 1)
    IN CASE h.in = <<>> -> {[h EXCEPT !.go = FALSE]}
         [] h.in # <<>> /\ Head(h.in) = "b" /\ h.body_size < h.s.max ->
               {[c EXCEPT !.body_size = @ + 1]}
         [] h.in # <<>> /\ Head(h.in) = "last" -> {[c EXCEPT !.state = "TRAILER"]}
         [] OTHER -> Fail(c, "DATA_TOO_LONG")

\* evhttp_send_continue: the client waits for a word before it sends the body.
evhttp_send_continue(h) == [h EXCEPT !.ev = @ \cup {"W"}, !.out = TRUE, !.wcb = "continue"]

\* evhttp_get_body; t: how the headers say the body is delimited.
evhttp_get_body(h, t) ==
    LET c == [h EXCEPT !.state = "BODY"]
        l == [c EXCEPT !.ntoread = 2]
    IN CASE t \in {"none", "close", "http10", "forbidden"} ->
               Done([c EXCEPT !.need_close = t \in {"close", "http10"}, !.http10 = t = "http10",
                              !.allowed = t # "forbidden"])
         [] t = "chunked" -> {[c EXCEPT !.chunked = TRUE]}
         [] t = "length" -> ReadLength(l)
         [] t = "expect" /\ l.ntoread > h.s.max -> evhttp_lingering_fail(l)
         [] t = "expect" /\ l.ntoread <= h.s.max ->
               ReadLength(IF h.in = <<>> THEN evhttp_send_continue(l) ELSE l)
         [] OTHER -> {[evhttp_send_error(l) EXCEPT !.go = FALSE]}

\* evhttp_read_firstline, evhttp_read_header, evhttp_read_trailer.
ReadLine(h) ==
    LET t == Head(h.in)
        c == Take(h, 1)
    IN CASE h.in = <<>> -> {[h EXCEPT !.go = FALSE]}
         [] h.in # <<>> /\ h.state = "FIRSTLINE" /\ t = "line" -> {[c EXCEPT !.state = "HEADERS"]}
         [] h.in # <<>> /\ h.state = "HEADERS" /\ t \notin {"line", "b", "last", "end"} ->
               evhttp_get_body([c EXCEPT !.http10 = FALSE, !.allowed = TRUE], t)
         [] h.in # <<>> /\ h.state = "TRAILER" /\ t = "end" -> Done([c EXCEPT !.ev = @ \ {"R"}])
         [] OTHER -> Fail(c, IF h.state = "TRAILER" THEN "DATA_TOO_LONG" ELSE "INVALID_HEADER")

ReadSome(h) ==
    IF ~h.go THEN {h}
    ELSE IF h.state # "BODY" THEN ReadLine(h)
    ELSE IF h.chunked THEN ReadChunk(h) ELSE ReadLength(h)

\* evhttp_read_cb goes on until it waits for more input or the request is read.
evhttp_read_cb(h) ==
    LET f[i \in 0..(Len(h.in) + 1)] ==
            IF i = 0 THEN {[h EXCEPT !.deferred = FALSE, !.go = TRUE]}
            ELSE UNION {ReadSome(c) : c \in f[i - 1]}
    IN IF h.state \in Parsing THEN {[c EXCEPT !.go = FALSE] : c \in f[Len(h.in) + 1]}
       ELSE {Claim(h, FALSE)}

-----------------------------------------------------------------------------
(* The steps of the loop and of the program.                               *)

\* evhttp_get_request.
Init == \E s \in HttpdSetups :
    hs = [s |-> s, alive |-> TRUE, closed |-> 0, state |-> "FIRSTLINE", cur |-> 1, queued |-> TRUE,
          freed |-> [r \in 1..MaxHttpd |-> 0], user |-> "none", userdone |-> TRUE, kind |-> "REQUEST",
          need_close |-> FALSE, http10 |-> FALSE, allowed |-> TRUE, chunked |-> FALSE,
          ntoread |-> 0, body_size |-> 0, ev |-> {"R"}, rcb |-> TRUE, wcb |-> "none", out |-> FALSE,
          in |-> <<>>, deferred |-> FALSE, go |-> FALSE, asserts |-> TRUE, answered |-> <<>>,
          sent |-> 0, faults |-> 0]

Arrives ==
    /\ hs.alive /\ "R" \in hs.ev /\ hs.sent < hs.s.n
    /\ \E t \in hs.s.tokens :
          LET h == [hs EXCEPT !.in = Append(@, t), !.sent = @ + 1]
          IN hs' \in IF h.rcb THEN evhttp_read_cb(h) ELSE {h}

evhttp_deferred_read_cb ==
    /\ hs.alive /\ hs.deferred
    /\ hs' \in IF hs.rcb THEN evhttp_read_cb(hs) ELSE {[hs EXCEPT !.deferred = FALSE]}

\* evhttp_write_cb: the output buffer is empty.
evhttp_write_cb ==
    /\ hs.alive /\ hs.out /\ "W" \in hs.ev
    /\ LET h == [hs EXCEPT !.out = FALSE]
       IN hs' = CASE h.wcb = "send_done" -> evhttp_send_done(h)
                  [] h.wcb = "continue" -> [h EXCEPT !.ev = @ \ {"W"}]
                  [] OTHER -> h

\* evhttp_error_cb: the client closes, or is too slow to send or to receive.
evhttp_error_cb ==
    /\ hs.alive /\ hs.faults < hs.s.faults
    /\ LET h == [hs EXCEPT !.faults = @ + 1]
       IN \/ "R" \in hs.ev /\ \E e \in {"EOF", "TIMEOUT"} : hs' \in Fail(h, e)
          \/ hs.out /\ "W" \in hs.ev /\ hs' \in Fail(h, "TIMEOUT")

\* The program goes on with a request that it held.
Replies ==
    /\ hs.user # "none"
    /\ \/ hs.user \in {"holds", "detached"} /\ hs' = evhttp_send_reply(hs)
       \/ hs.user = "holds" /\ hs' = evhttp_send_error(hs)
       \/ hs.user = "holds" /\ "start" \in hs.s.user /\ hs' = evhttp_send_reply_start(hs)
       \/ hs.user \in {"started", "detached"} /\ "start" \in hs.s.user /\
             hs' = evhttp_send_reply_chunk_with_cb(hs)
       \/ hs.user \in {"started", "detached"} /\ "start" \in hs.s.user /\ hs' = evhttp_send_reply_end(hs)

\* evhttp_free, which may be called only when no request is being served.
evhttp_free == hs.alive /\ "free" \in hs.s.user /\ hs.user = "none" /\ hs' = FreeConnection(hs)

Next == Arrives \/ evhttp_deferred_read_cb \/ evhttp_write_cb \/ evhttp_error_cb \/ Replies \/ evhttp_free

-----------------------------------------------------------------------------
\* Every request is freed once: never while the program holds it, whatever
\* becomes of its connection, and not later than its answer or its connection
\* otherwise.
ServedOnce ==
    /\ hs.closed <= 1
    /\ \A r \in 1..MaxHttpd : hs.freed[r] <= 1
    /\ hs.user # "none" => hs.freed[hs.cur] = 0
    /\ \A r \in 1..(hs.cur - 1) : hs.freed[r] = 1
    /\ ~hs.alive /\ hs.user = "none" => hs.freed[hs.cur] = 1

\* The connection never waits for nothing: while it lives, input is wanted and
\* will be looked at, an answer is being written, or the program has the request.
\* What came early (pipelined, or before the 100) is not left lying.
ServerMoves ==
    hs.alive =>
        \/ hs.user \in {"holds", "started"}
        \/ hs.out /\ "W" \in hs.ev /\ hs.wcb = "send_done"
        \/ /\ "R" \in hs.ev /\ hs.rcb /\ hs.state \in Parsing
           /\ hs.in # <<>> => \/ hs.deferred
                              \/ hs.state = "BODY" /\ Len(hs.in) < hs.ntoread

\* The assertions of http.c hold, reading never finds the connection in an
\* illegal state, and pipelined requests are answered in their order, one by one.
ServerAssertions ==
    /\ hs.asserts
    /\ \A i \in 1..Len(hs.answered) : hs.answered[i] = i
=============================================================================
