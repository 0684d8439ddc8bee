----------------------------- MODULE BevOpenssl -----------------------------
(***************************************************************************)
(* bufferevent_openssl.c over a socket.  The TLS engine is external: any   *)
(* of its calls may make progress, want to read, want to write or fail.    *)
(* So reading may have to wait until the socket is writable (rbow) and     *)
(* writing until it is readable (wbor), and ev_read and ev_write serve     *)
(* both.  A function of the file yields the set of its possible results.   *)
(***************************************************************************)
EXTENDS Integers

CONSTANTS TlsCap,    \* bound: bytes in a buffer
          TlsCalls,  \* bound: calls of the program
          TlsMarks   \* high watermarks for reading, 0 for none

VARIABLE tls

event_add(b, D) == [b EXCEPT !.ev = @ \cup D]
event_del(b, D) == [b EXCEPT !.ev = @ \ D]

start_reading(b) == event_add(b, IF b.rbow THEN {"R", "W"} ELSE {"R"})
start_writing(b) == event_add(b, IF b.wbor THEN {"R", "W"} ELSE {"W"})
\* Mutant: whoever stops reading takes ev_read away from a blocked write.
stop_reading_always(b) == event_del(b, {"R"})

stop_reading(b) == IF b.wbor THEN b ELSE event_del(b, {"R"})
stop_writing(b) == IF b.rbow THEN b ELSE event_del(b, {"W"})

set_rbow(b) == start_writing([stop_reading(b) EXCEPT !.rbow = TRUE, !.hit = TRUE])
set_wbor(b) == start_reading([stop_writing(b) EXCEPT !.wbor = TRUE])

clear_rbow(b) ==
    LET c == [b EXCEPT !.rbow = FALSE]
        d == IF "W" \notin c.enabled THEN stop_writing(c) ELSE c
    IN IF "R" \in d.enabled THEN start_reading(d) ELSE d

clear_wbor(b) ==
    LET c == [b EXCEPT !.wbor = FALSE]
        d == IF "R" \notin c.enabled THEN stop_reading(c) ELSE c
    IN IF "W" \in d.enabled THEN start_writing(d) ELSE d

conn_closed(b) == [stop_writing(stop_reading(b)) EXCEPT !.closed = TRUE]

be_openssl_enable(b, D) ==
    LET r == IF "R" \in D THEN start_reading(b) ELSE b
    IN IF "W" \in D THEN start_writing(r) ELSE r

be_openssl_disable(b, D) ==
    LET r == IF "R" \in D THEN stop_reading(b) ELSE b
    IN IF "W" \in D THEN stop_writing(r) ELSE r

\* bufferevent_inbuf_wm_cb of bufferevent.c.
bufferevent_inbuf_wm_cb(b) ==
    IF b.high # 0 /\ b.input >= b.high
    THEN IF b.rsusp THEN b ELSE be_openssl_disable([b EXCEPT !.rsusp = TRUE], {"R"})
    ELSE IF ~b.rsusp THEN b
    ELSE IF "R" \in b.enabled THEN be_openssl_enable([b EXCEPT !.rsusp = FALSE], {"R"})
    ELSE [b EXCEPT !.rsusp = FALSE]

bufferevent_enable(b, D) ==
    be_openssl_enable([b EXCEPT !.enabled = @ \cup D], IF b.rsusp THEN D \ {"R"} ELSE D)

bufferevent_disable(b, D) == be_openssl_disable([b EXCEPT !.enabled = @ \ D], D)

-----------------------------------------------------------------------------
(* Reading and writing.  `op' is OP_MADE_PROGRESS, OP_BLOCKED or nothing;  *)
(* `left' are bytes that the engine has decrypted and not handed over.     *)

Op(b, op) == [b EXCEPT !.op = op]

do_read(b) ==
    IF b.rsusp THEN {Op(b, "none")}
    ELSE {LET c == IF b.rbow THEN clear_rbow(b) ELSE b
          IN Op(bufferevent_inbuf_wm_cb([c EXCEPT !.input = @ + 1, !.left = n]), "progress") :
             n \in IF b.left > 0 THEN {b.left - 1} ELSE 0..1}
         \cup (IF b.left > 0 THEN {}
               ELSE {Op(IF b.rbow THEN clear_rbow(b) ELSE b, "blocked"),
                     Op(IF b.rbow THEN b ELSE set_rbow(b), "blocked"),
                     Op(conn_closed(b), "blocked")})

do_write(b) ==
    IF b.output = 0 THEN {Op(b, "none")}
    ELSE {Op([(IF b.wbor THEN clear_wbor(b) ELSE b) EXCEPT !.output = @ - 1,
                                                           !.last_write = FALSE], "progress"),
          Op([(IF b.wbor THEN clear_wbor(b) ELSE b) EXCEPT !.last_write = TRUE], "blocked"),
          Op([(IF b.wbor THEN b ELSE set_wbor(b)) EXCEPT !.last_write = TRUE], "blocked"),
          Op([conn_closed(b) EXCEPT !.last_write = FALSE], "blocked")}

bytes_to_read(b) ==
    IF b.wbor \/ "R" \notin b.enabled \/ b.rsusp THEN 0
    ELSE IF b.high = 0 THEN TlsCap - b.input ELSE b.high - b.input

\* A loop that neither advances nor blocks never ends.
Spins(S) == {IF c.op = "none" THEN [c EXCEPT !.spin = TRUE] ELSE c : c \in S}

\* The end of consider_reading and of consider_writing.
DelRead(b) == IF b.rsusp \/ "R" \notin b.enabled THEN event_del(b, {"R"}) ELSE b
DelWrite(b) == IF b.output = 0 \/ "W" \notin b.enabled THEN event_del(b, {"W"}) ELSE b

\* After one read the engine is emptied, unless the watermark stops reading.
consider_reading(b) ==
    UNION {IF c.wbor \/ c.spin THEN {c}
           ELSE IF bytes_to_read(c) <= 0 THEN {DelRead(c)}
           ELSE {DelRead(d) : d \in UNION {
                    IF e.op = "progress" /\ ~e.rsusp /\ e.left > 0 THEN do_read(e) ELSE {e} :
                    e \in do_read(c)}} :
           c \in IF b.wbor THEN Spins(do_write(b)) ELSE {b}}

\* Writes until it blocks or nothing is left; the bound makes two writes enough.
WriteAll(b) ==
    LET More(c) == "W" \in c.enabled /\ c.output > 0 /\ c.op # "blocked"
    IN UNION {IF More(c) THEN do_write(c) ELSE {c} :
              c \in IF More(b) THEN do_write(b) ELSE {b}}

consider_writing(b) ==
    UNION {IF c.rbow \/ c.spin THEN {c} ELSE {DelWrite(d) : d \in WriteAll(Op(c, "no"))} :
           c \in IF b.rbow THEN Spins(do_read(b)) ELSE {b}}

\* The events keep what they watch when the callbacks change.
do_handshake(b) ==
    {[bufferevent_enable([b EXCEPT !.state = "OPEN"], b.enabled) EXCEPT !.want = "no"],
     [start_writing(stop_reading(b)) EXCEPT !.want = "W"],
     [start_reading(stop_writing(b)) EXCEPT !.want = "R"],
     conn_closed(b)}

set_handshake_callbacks(b) == bufferevent_enable(event_del(b, {"R", "W"}), b.enabled)

-----------------------------------------------------------------------------
Init == \E m \in TlsMarks, s \in {"CONNECTING", "OPEN"} :
    tls = LET b == [state |-> s, enabled |-> {"W"}, ev |-> {}, rbow |-> FALSE, wbor |-> FALSE,
                    rsusp |-> FALSE, high |-> m, input |-> 0, output |-> 0, left |-> 0,
                    last_write |-> FALSE, closed |-> FALSE, spin |-> FALSE, want |-> "no",
                    op |-> "no", calls |-> TlsCalls, paused |-> {},
                    hit |-> FALSE]
          IN IF s = "CONNECTING" THEN set_handshake_callbacks(b) ELSE b

Alive == ~tls.closed /\ ~tls.spin
Calls == Alive /\ tls.calls > 0
Counted == [tls EXCEPT !.calls = @ - 1, !.op = "no"]

Enable == Calls /\ \E d \in {"R", "W"} :
    tls' = [bufferevent_enable(Counted, {d}) EXCEPT
               !.paused = @ \ (IF tls.rsusp THEN {d} \ {"R"} ELSE {d})]
\* paused: the program stopped a direction in the middle of a handshake.
Disable == Calls /\ \E d \in {"R", "W"} :
    tls' = [bufferevent_disable(Counted, {d}) EXCEPT
               !.paused = IF tls.state = "OPEN" THEN @ ELSE @ \cup {d}]
Read == Calls /\ tls.input > 0 /\ \E n \in 1..tls.input :
    tls' = bufferevent_inbuf_wm_cb([Counted EXCEPT !.input = @ - n])

\* be_openssl_outbuf_cb: only an empty buffer needs to start the event.
be_openssl_outbuf_cb(b) ==
    IF b.state = "OPEN" /\ b.output = 1 THEN event_add(b, {"W"}) ELSE b
Write == /\ Calls /\ tls.output < TlsCap
         /\ tls' = be_openssl_outbuf_cb([Counted EXCEPT !.output = @ + 1])

bufferevent_ssl_renegotiate ==
    /\ Calls /\ tls.state = "OPEN"
    /\ tls' \in do_handshake(set_handshake_callbacks([Counted EXCEPT !.state = "CONNECTING",
                                                               !.paused = {}]))

be_openssl_handshakeeventcb ==
    /\ Alive /\ tls.state = "CONNECTING" /\ tls.ev # {}
    /\ tls' \in do_handshake([tls EXCEPT !.op = "no", !.paused = {}])
be_openssl_readeventcb ==
    /\ Alive /\ tls.state = "OPEN" /\ "R" \in tls.ev /\ tls.input < TlsCap
    /\ tls' \in consider_reading([tls EXCEPT !.op = "no"])
be_openssl_writeeventcb ==
    /\ Alive /\ tls.state = "OPEN" /\ "W" \in tls.ev /\ tls.input < TlsCap
    /\ tls' \in consider_writing([tls EXCEPT !.op = "no"])

Next == \/ Enable \/ Disable \/ Read \/ Write \/ bufferevent_ssl_renegotiate
        \/ be_openssl_handshakeeventcb \/ be_openssl_readeventcb \/ be_openssl_writeeventcb

-----------------------------------------------------------------------------
\* Whatever the engine waits for is watched: reading that is blocked on writing
\* and the other way round, the handshake in its two directions, and plain
\* input and output, across renegotiation, enabling, disabling and watermarks.
TlsWatchesWhatItWants ==
    Alive =>
    /\ tls.state = "OPEN" =>
          /\ "R" \in tls.enabled /\ ~tls.rsusp =>
                IF tls.rbow THEN "W" \in tls.ev ELSE "R" \in tls.ev
          /\ "W" \in tls.enabled /\ tls.output > 0 =>
                IF tls.wbor THEN "R" \in tls.ev ELSE "W" \in tls.ev
    /\ tls.state = "CONNECTING" =>
          \A d \in {"R", "W"} \ tls.paused : tls.want = d => d \in tls.ev

\* Without watermarks no handler loops forever, and nothing the engine has
\* decrypted stays inside it, where the socket would never announce it, as long
\* as reading never had to wait for writing (hit: consider_writing reads once
\* and does not ask for the rest).
TlsDrained == tls.high = 0 => ~tls.spin /\ (Alive /\ ~tls.hit => tls.left = 0)
=============================================================================
