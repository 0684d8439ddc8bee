------------------------------ MODULE BevFilter ------------------------------
(***************************************************************************)
(* bufferevent_filter.c: a bufferevent that reads and writes through the   *)
(* buffers of another one, here with the null filter, which passes on what *)
(* it is given.  The underlying bufferevent is a socket: what it does is   *)
(* reduced to what the filter sees of it, its buffers and its callbacks.   *)
(***************************************************************************)
EXTENDS Integers

CONSTANTS FiltCap,      \* bound: bytes in a buffer
          FiltCalls,    \* bound: calls of the program and of the network
          FiltMarks,    \* high watermarks: <<input of the filter, output below>>
          FiltSetups    \* [close: BEV_OPT_CLOSE_ON_FREE, defer: BEV_OPT_DEFER_CALLBACKS,
                        \*  calls: the functions the program calls]

VARIABLE fl

Least(a, b) == IF a < b THEN a ELSE b

be_underlying_writebuf_full(b, mode) ==
    mode = "NORMAL" /\ b.uhigh # 0 /\ b.uout >= b.uhigh

be_readbuf_full(b, mode) == mode = "NORMAL" /\ b.high # 0 /\ b.input >= b.high

be_filter_enable(b, D) ==
    [b EXCEPT !.timer = @ \cup (D \cap b.tmo), !.ususp = IF "R" \in D THEN FALSE ELSE @]

be_filter_disable(b, D) ==
    [b EXCEPT !.timer = @ \ D, !.ususp = IF "R" \in D THEN TRUE ELSE @]

\* The filter's own high mark: at the mark it stops the bufferevent below.
bufferevent_inbuf_wm_cb(b) ==
    IF b.high = 0 THEN b
    ELSE IF b.input >= b.high
    THEN IF b.susp THEN b ELSE be_filter_disable([b EXCEPT !.susp = TRUE], {"R"})
    ELSE IF ~b.susp THEN b
    ELSE IF "R" \in b.enabled THEN be_filter_enable([b EXCEPT !.susp = FALSE], {"R"})
    ELSE [b EXCEPT !.susp = FALSE]

\* A callback of the program: queued, or run at once, and then the program has
\* read n bytes, respectively written n bytes, when it returns.
TriggerRead(b, n) ==
    IF ~b.cbs THEN b
    ELSE IF b.defer THEN [b EXCEPT !.pend = @ \cup {"read"}]
    ELSE LET c == bufferevent_inbuf_wm_cb([b EXCEPT !.input = @ - Least(n, b.input)])
         IN IF c.susp /\ "R" \in c.enabled THEN [c EXCEPT !.pend = @ \cup {"read"}] ELSE c

TriggerWrite(b, n) ==
    IF ~b.cbs \/ b.output > 0 THEN b
    ELSE IF b.defer THEN [b EXCEPT !.pend = @ \cup {"write"}]
    ELSE [b EXCEPT !.output = @ + n]

\* The null filter takes all it is given up to the limit, so the loop of
\* be_filter_process_input is one move; `done' says that something was processed.
be_filter_process_input(b, mode) ==
    IF mode = "NORMAL" /\ ("R" \notin b.enabled \/ be_readbuf_full(b, mode))
    THEN [b EXCEPT !.done = FALSE]
    ELSE LET n == IF mode = "NORMAL" /\ b.high # 0
                  THEN Least(b.uin, b.high - b.input) ELSE b.uin
         IN bufferevent_inbuf_wm_cb([b EXCEPT
               !.uin = @ - n, !.input = @ + n, !.done = TRUE,
               !.timer = @ \cup (b.tmo \cap {"R"})])

MoveOut(b, mode) ==
    LET n == IF mode = "NORMAL" /\ b.uhigh # 0
             THEN Least(b.output, b.uhigh - b.uout) ELSE b.output
    IN [b EXCEPT !.output = @ - n, !.uout = @ + n,
                 !.timer = @ \cup (b.tmo \cap {"W"})]

\* Mutant: what the write callback added is left for the next time.
process_output_once(b, mode, n) ==
    IF mode = "NORMAL" /\ \/ "W" \notin b.enabled \/ be_underlying_writebuf_full(b, mode)
                          \/ b.output = 0
    THEN b ELSE TriggerWrite(MoveOut(b, mode), n)

\* What the write callback added while the callback on the output buffer was
\* off is moved by the outer loop.
be_filter_process_output(b, mode, n) ==
    IF mode = "NORMAL" /\ \/ "W" \notin b.enabled \/ be_underlying_writebuf_full(b, mode)
                          \/ b.output = 0
    THEN b
    ELSE LET c == TriggerWrite(MoveOut(b, mode), n)
         IN IF "W" \in c.enabled /\ c.output > 0 /\ ~be_underlying_writebuf_full(c, mode)
            THEN MoveOut(c, mode) ELSE c

\* n is what the read callback takes.
be_filter_read_nolock_(b, n) ==
    LET c == be_filter_process_input(b, "NORMAL")
        d == IF c.done THEN TriggerRead(c, n) ELSE c
    IN IF b.refs = 0 THEN b
       ELSE IF c.done /\ d.uin > 0 /\ be_readbuf_full(d, "NORMAL")
       THEN [d EXCEPT !.inbuf_cb = TRUE] ELSE d

\* The callback on the input buffer, if it is on, after the program took bytes.
bufferevent_filtered_inbuf_cb(b, n) ==
    IF ~b.inbuf_cb \/ be_readbuf_full(b, "NORMAL") THEN b
    ELSE LET c == [b EXCEPT !.inbuf_cb = FALSE]
         IN IF c.uin > 0 THEN be_filter_read_nolock_(c, n) ELSE c

bufferevent_enable(b, D) ==
    be_filter_enable([b EXCEPT !.enabled = @ \cup D], IF b.susp THEN D \ {"R"} ELSE D)

bufferevent_disable(b, D) == be_filter_disable([b EXCEPT !.enabled = @ \ D], D)

\* The last reference is gone: CLOSE_ON_FREE frees the underlying bufferevent
\* if somebody but the filter refers to it, otherwise its callbacks are reset.
be_filter_unlink(b) ==
    IF b.close
    THEN IF b.urefs < 2 THEN b ELSE [b EXCEPT !.urefs = @ - 1, !.uowned = FALSE, !.ucbs = FALSE]
    ELSE [b EXCEPT !.ucbs = FALSE, !.ususp = FALSE]

Init == \E s \in FiltSetups, m \in FiltMarks, tmo \in {{}, {"R", "W"}} :
    fl = [close |-> s.close, defer |-> s.defer, calls |-> s.calls, left |-> FiltCalls,
          enabled |-> {"W"}, high |-> m[1], susp |-> FALSE, input |-> 0, output |-> 0, inbuf_cb |-> FALSE,
          cbs |-> TRUE, pend |-> {}, refs |-> 1, state |-> "open", tmo |-> tmo, timer |-> {},
          uhigh |-> m[2], uin |-> 0, uout |-> 0, ususp |-> TRUE, ucbs |-> TRUE,
          urefs |-> 2, uowned |-> TRUE, ustate |-> "open", done |-> FALSE]

Calls(f) == fl.cbs /\ f \in fl.calls /\ fl.left > 0
Counted == [fl EXCEPT !.left = @ - 1]
Taken == 0..FiltCap   \* what a callback of the program reads or writes

Write == /\ Calls("write") /\ fl.output < FiltCap
         /\ \E n \in 0..1 :
               fl' = be_filter_process_output([Counted EXCEPT !.output = @ + 1], "NORMAL", n)
Read == /\ Calls("read")
        /\ \E k \in 1..fl.input, n \in Taken :
              fl' = bufferevent_filtered_inbuf_cb(
                       bufferevent_inbuf_wm_cb([Counted EXCEPT !.input = @ - k]), n)
Enable == /\ Calls("enable")
          /\ \E D \in {{"R"}, {"W"}} : fl' = bufferevent_enable(Counted, D)
Disable == /\ Calls("disable")
           /\ \E d \in fl.enabled : fl' = bufferevent_disable(Counted, {d})

\* be_filter_flush, with a mode other than BEV_NORMAL.
Flush == /\ Calls("flush")
         /\ \E d \in {"R", "W"}, n \in 0..1 :
               fl' = IF d = "R" THEN be_filter_process_input(Counted, "FLUSH")
                     ELSE be_filter_process_output(Counted, "FLUSH", n)

\* bufferevent_free of the filter: its queue of callbacks may hold it a while.
Dropped(b) ==
    IF b.pend # {} \/ b.cbs THEN [b EXCEPT !.refs = 1]
    ELSE [be_filter_unlink(b) EXCEPT !.refs = 0, !.state = "finalizing", !.timer = {}]
Free == Calls("free") /\ fl' = Dropped([Counted EXCEPT !.cbs = FALSE])

\* The program drops its own reference to the underlying bufferevent.
FreeUnderlying ==
    /\ "free" \in fl.calls /\ fl.uowned /\ ~fl.close
    /\ fl' = [fl EXCEPT !.uowned = FALSE, !.ucbs = FALSE, !.urefs = @ - 1,
                        !.ustate = IF fl.urefs = 1 THEN "gone" ELSE @]

RunDeferred ==
    /\ fl.state = "open" /\ fl.pend # {}
    /\ \E k \in 0..fl.input, n \in Taken :
          LET b == [fl EXCEPT !.pend = {}]
              c == IF fl.cbs /\ "read" \in fl.pend /\ k > 0
                   THEN bufferevent_filtered_inbuf_cb(
                           bufferevent_inbuf_wm_cb([b EXCEPT !.input = @ - k]), n)
                   ELSE b
              d == IF c.susp /\ "R" \in c.enabled /\ "read" \in fl.pend
                   THEN [c EXCEPT !.pend = @ \cup {"read"}] ELSE c
          IN fl' = IF fl.cbs THEN d ELSE Dropped(b)

\* The network: the underlying socket reads and then calls be_filter_readcb,
\* writes and calls be_filter_writecb when its output is drained, or fails.
UnderlyingReads ==
    /\ fl.ustate = "open" /\ ~fl.ususp /\ fl.uin < FiltCap /\ fl.left > 0
    /\ \E k \in 1..FiltCap - fl.uin, n \in Taken :
          LET b == [Counted EXCEPT !.uin = @ + k]
          IN fl' = IF b.ucbs THEN be_filter_read_nolock_(b, n) ELSE b

UnderlyingWrites ==
    /\ fl.ustate = "open" /\ fl.uout > 0
    /\ \E k \in 1..fl.uout, n \in 0..1 :
          LET b == [fl EXCEPT !.uout = @ - k]
          IN fl' = IF b.ucbs /\ b.uout = 0 /\ b.refs > 0
                   THEN be_filter_process_output(b, "NORMAL", n) ELSE b

be_filter_eventcb ==
    /\ fl.ustate = "open" /\ fl.ucbs /\ fl.refs > 0 /\ fl.cbs /\ fl.left > 0
    /\ fl' = IF fl.defer THEN [Counted EXCEPT !.pend = @ \cup {"event"}] ELSE Counted

Timeout ==
    /\ fl.state = "open"
    /\ \E d \in fl.timer : fl' = IF fl.cbs /\ fl.defer
          THEN [bufferevent_disable(fl, {d}) EXCEPT !.pend = @ \cup {"event"}]
          ELSE bufferevent_disable(fl, {d})

\* bufferevent_finalize_cb_ lets go of the underlying bufferevent.
bufferevent_finalize_cb_ ==
    /\ fl.state = "finalizing"
    /\ fl' = [fl EXCEPT !.state = "gone", !.urefs = @ - 1,
                        !.ustate = IF fl.urefs = 1 THEN "gone" ELSE @]

Next == \/ Write \/ Read \/ Enable \/ Disable \/ Flush \/ Free \/ FreeUnderlying
        \/ RunDeferred \/ UnderlyingReads \/ UnderlyingWrites \/ be_filter_eventcb
        \/ Timeout \/ bufferevent_finalize_cb_

-----------------------------------------------------------------------------
\* What the program writes is never left behind in the output buffer: as long
\* as writing is not disabled, data in it waits for the drain of the buffer
\* below, whose write callback moves it on.
FilteredOutputMoves ==
    "disable" \notin fl.calls /\ fl.timer = {} /\ fl.tmo = {} /\ fl.state = "open" /\ fl.ucbs
        => fl.output = 0 \/ fl.uout > 0

\* The underlying bufferevent outlives the filter, and calls into a filter
\* only while that filter exists.
UnderlyingOutlivesFilter ==
    /\ fl.state # "gone" => fl.ustate = "open"
    /\ fl.ucbs => fl.state # "gone"
    /\ fl.urefs = (IF fl.uowned THEN 1 ELSE 0) + (IF fl.state # "gone" THEN 1 ELSE 0)

\* Input that was read below is not stuck there: while the filter reads and has
\* room for it, somebody will fetch it, the callback on the filter's input
\* buffer or a callback of the program that is still to take bytes from it.
FilteredInputMoves ==
    /\ "disable" \notin fl.calls /\ fl.tmo = {} /\ fl.state = "open" /\ fl.cbs /\ fl.ucbs
    /\ "R" \in fl.enabled /\ fl.uin > 0 /\ ~be_readbuf_full(fl, "NORMAL")
    => fl.inbuf_cb /\ fl.input > 0
=============================================================================
