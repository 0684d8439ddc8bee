----------------------------- MODULE Bufferevent -----------------------------
(***************************************************************************)
(* A socket bufferevent: bufferevent.c and bufferevent_sock.c.  The state  *)
(* is struct bufferevent_private.  Every function runs under the lock of   *)
(* the bufferevent, so it is one step, except where it calls back into the *)
(* program: there the step ends with the callback in `running', what the   *)
(* program does in it (or another thread does, with UNLOCK_CALLBACKS) are  *)
(* steps of their own, and Return continues behind the call.  Buffers are  *)
(* their lengths, reasons to suspend are kept as sets, and the socket does *)
(* what a socket may do.                                                   *)
(***************************************************************************)
EXTENDS Integers, FiniteSets

CONSTANTS Cap,        \* bound: bytes in a buffer
          Marks,      \* watermarks for reading: <<low, high>>, high 0 for none
          Scenarios   \* [options: subset of {"DEFER"}, calls: the functions
                      \*  the program calls, n: bound on their number,
                      \*  fd: TRUE if the bufferevent starts with a socket]

VARIABLE bev

Dirs == {"R", "W"}

Live(b) == b.alive = "open"

-----------------------------------------------------------------------------
(* Events, reference counts and deferred callbacks.                        *)

\* event_add on ev_read or ev_write, with the timeout that is configured.
bufferevent_add_event_(b, d) ==
    [b EXCEPT !.ev = @ \cup {d},
              !.timer = IF d \in b.tmo THEN @ \cup {d} ELSE @]

event_del(b, D) == [b EXCEPT !.ev = @ \ D, !.timer = @ \ D]

be_socket_enable(b, D) ==
    LET r == IF "R" \in D THEN bufferevent_add_event_(b, "R") ELSE b
    IN IF "W" \in D THEN bufferevent_add_event_(r, "W") ELSE r

\* Mutant: disabling ends the connection attempt without a word.
be_socket_disable_all(b, D) == event_del(b, D)

\* A connection attempt needs ev_write, whether writing is enabled or not.
be_socket_disable(b, D) ==
    event_del(b, IF b.connecting THEN D \ {"W"} ELSE D)

bufferevent_incref(b) == [b EXCEPT !.refcnt = @ + 1]

\* Without references the events are cancelled and a finalizer is queued.
bufferevent_decref_and_unlock_(b) ==
    IF b.refcnt > 1 THEN [b EXCEPT !.refcnt = @ - 1]
    ELSE [event_del(b, Dirs) EXCEPT !.refcnt = 0, !.alive = "finalizing",
                                    !.deferred = FALSE]

\* Mutant: the queue does not hold a reference.
schedule_without_incref(b) == [b EXCEPT !.deferred = TRUE]

\* SCHEDULE_DEFERRED: the queue holds one reference.
SCHEDULE_DEFERRED(b) ==
    IF b.deferred THEN b
    ELSE bufferevent_incref([b EXCEPT !.deferred = TRUE])

-----------------------------------------------------------------------------
(* Suspending and watermarks.                                              *)

Susp(b, d) == IF d = "R" THEN b.rsusp ELSE b.wsusp

bufferevent_suspend_read_(b, what) ==
    [(IF b.rsusp = {} THEN be_socket_disable(b, {"R"}) ELSE b) EXCEPT
        !.rsusp = @ \cup {what}]

bufferevent_unsuspend_read_(b, what) ==
    LET c == [b EXCEPT !.rsusp = @ \ {what}]
    IN IF c.rsusp = {} /\ "R" \in c.enabled THEN be_socket_enable(c, {"R"}) ELSE c

bufferevent_suspend_write_(b, what) ==
    [(IF b.wsusp = {} THEN be_socket_disable(b, {"W"}) ELSE b) EXCEPT
        !.wsusp = @ \cup {what}]

bufferevent_unsuspend_write_(b, what) ==
    LET c == [b EXCEPT !.wsusp = @ \ {what}]
    IN IF c.wsusp = {} /\ "W" \in c.enabled THEN be_socket_enable(c, {"W"}) ELSE c

\* The callback of the input buffer; enabled while there is a high mark.
bufferevent_inbuf_wm_cb(b) ==
    IF b.high = 0 THEN b
    ELSE IF b.input >= b.high THEN bufferevent_suspend_read_(b, "WM")
    ELSE bufferevent_unsuspend_read_(b, "WM")

\* The callback of the output buffer, after n bytes were added.
bufferevent_socket_outbuf_cb(b, n) ==
    IF n > 0 /\ "W" \in b.enabled /\ "W" \notin b.ev /\ b.wsusp = {}
    THEN bufferevent_add_event_(b, "W") ELSE b

-----------------------------------------------------------------------------
(* Callbacks of the program.  The continuation `k' says where Return goes. *)

Call(b, cb, k) == [b EXCEPT !.running = [cb |-> cb, k |-> k]]

Done(b) == bufferevent_decref_and_unlock_([b EXCEPT !.running = [cb |-> "no", k |-> "no"]])

Defers(b) == "DEFER" \in b.options

\* Each of these ends with what follows the call: for the direct call Return.
bufferevent_run_readcb_(b) ==
    IF ~b.cbs THEN Done(b)
    ELSE IF Defers(b) THEN Done(SCHEDULE_DEFERRED([b EXCEPT !.pend = @ \cup {"read"}]))
    ELSE Call(b, "read", "checked")

bufferevent_run_writecb_(b) ==
    IF ~b.cbs THEN Done(b)
    ELSE IF Defers(b) THEN Done(SCHEDULE_DEFERRED([b EXCEPT !.pend = @ \cup {"write"}]))
    ELSE Call(b, "write", "done")

bufferevent_run_eventcb_(b, what, k) ==
    IF ~b.cbs THEN [b EXCEPT !.running = [cb |-> "no", k |-> k]]
    ELSE IF Defers(b)
    THEN SCHEDULE_DEFERRED([b EXCEPT !.epend = @ \cup {what},
                                     !.running = [cb |-> "no", k |-> k]])
    ELSE Call(b, what, k)

\* bufferevent_trigger_nolock_ looks at the watermarks.
TriggerRead(b) == IF b.input >= b.low THEN bufferevent_run_readcb_(b) ELSE Done(b)
TriggerWrite(b) == IF b.output = 0 THEN bufferevent_run_writecb_(b) ELSE Done(b)

\* Data above the high mark has stopped reading: the program is called again
\* until it takes enough.
bufferevent_inbuf_wm_check(b) ==
    IF b.high = 0 \/ "R" \notin b.enabled \/ b.input < b.high \/ ~b.cbs \/ b.input < b.low
    THEN b
    ELSE SCHEDULE_DEFERRED([b EXCEPT !.pend = @ \cup {"read"}])

\* The rest of bufferevent_run_deferred_callbacks_*, from a callback on.
RunDeferred(b, from) ==
    IF from = 1 /\ b.cbs /\ "CONNECTED" \in b.epend
    THEN Call([b EXCEPT !.epend = @ \ {"CONNECTED"}], "CONNECTED", "deferred2")
    ELSE IF from <= 2 /\ b.cbs /\ "read" \in b.pend
    THEN Call([b EXCEPT !.pend = @ \ {"read"}], "read", "deferred3")
    ELSE IF from <= 3 /\ b.cbs /\ "write" \in b.pend
    THEN Call([b EXCEPT !.pend = @ \ {"write"}], "write", "deferred4")
    ELSE IF b.cbs /\ b.epend # {}
    THEN Call([b EXCEPT !.epend = {}],
              IF b.epend \cap {"ERROR", "CONNECTED"} # {} THEN "ERROR" ELSE "event", "done")
    ELSE Done(b)

-----------------------------------------------------------------------------
(* The functions of the program.                                           *)

bufferevent_enable(b, D) ==
    LET impl == D \ ((IF b.rsusp # {} THEN {"R"} ELSE {}) \cup
                     (IF b.wsusp # {} THEN {"W"} ELSE {}))
    IN be_socket_enable([b EXCEPT !.enabled = @ \cup D], impl)

bufferevent_disable(b, D) == be_socket_disable([b EXCEPT !.enabled = @ \ D], D)

bufferevent_disable_hard_(b, D) ==
    be_socket_disable([b EXCEPT !.enabled = @ \ D, !.connecting = FALSE], D)

bufferevent_setwatermark(b, mark) ==
    LET c == [b EXCEPT !.low = mark[1], !.high = mark[2]]
    IN IF c.high # 0 THEN bufferevent_inbuf_wm_cb(c)
       ELSE bufferevent_unsuspend_read_(c, "WM")

\* bufferevent_generic_adj_existing_timeouts_
bufferevent_set_timeouts(b, D) == [b EXCEPT !.tmo = D, !.timer = b.ev \cap D]

bufferevent_write(b, n) ==
    bufferevent_socket_outbuf_cb([b EXCEPT !.output = @ + n], n)

bufferevent_read(b, n) == bufferevent_inbuf_wm_cb([b EXCEPT !.input = @ - n])

\* A pending lookup is cancelled: its callback comes later.
be_socket_setfd(b, fd) ==
    LET c == [event_del(b, Dirs) EXCEPT !.fd = fd, !.failed = FALSE, !.refused = FALSE]
        d == IF fd THEN bufferevent_enable(c, c.enabled) ELSE c
    IN [d EXCEPT !.dns = IF @ = "asked" THEN "cancelled" ELSE @]

\* r is what evutil_socket_connect_ returns: in progress, connected, refused,
\* or failed with an error.
bufferevent_socket_connect(b, r) ==
    CASE r = "progress" ->
            [be_socket_enable(be_socket_setfd(b, TRUE), {"W"}) EXCEPT
                !.connecting = TRUE, !.at_once = FALSE, !.report = "due"]
      [] r = "connected" ->
            LET c == [be_socket_setfd(b, TRUE) EXCEPT
                         !.connecting = TRUE, !.at_once = TRUE, !.report = "due"]
            IN IF c.output = 0 /\ c.cbs
               THEN SCHEDULE_DEFERRED([c EXCEPT !.pend = @ \cup {"write"}]) ELSE c
      [] r = "refused" ->
            LET c == [be_socket_setfd(b, TRUE) EXCEPT !.report = "due"]
                d == IF c.cbs THEN SCHEDULE_DEFERRED([c EXCEPT !.epend = @ \cup {"ERROR"}])
                     ELSE c
            IN bufferevent_disable(d, Dirs)
      [] r = "error" -> b

bufferevent_socket_connect_hostname(b) ==
    bufferevent_incref([bufferevent_suspend_read_(
        bufferevent_suspend_write_(b, "LOOKUP"), "LOOKUP") EXCEPT !.dns = "asked"])

bufferevent_free(b) ==
    bufferevent_decref_and_unlock_([b EXCEPT !.cbs = FALSE, !.owned = FALSE])

Init == \E sc \in Scenarios :
    bev = [alive |-> "open", options |-> sc.options, calls |-> sc.calls, n |-> sc.n,
           refcnt |-> 1, owned |-> TRUE, cbs |-> TRUE, fd |-> sc.fd,
           enabled |-> {"W"}, rsusp |-> {}, wsusp |-> {}, ev |-> {},
           tmo |-> {}, timer |-> {}, input |-> 0, output |-> 0,
           low |-> 0, high |-> 0, connecting |-> FALSE, refused |-> FALSE,
           deferred |-> FALSE, pend |-> {}, epend |-> {}, dns |-> "no",
           running |-> [cb |-> "no", k |-> "no"],
           failed |-> FALSE, at_once |-> FALSE, report |-> "no"]

Idle == bev.running.cb = "no"
Calls(f) == Live(bev) /\ bev.owned /\ f \in bev.calls /\ bev.n > 0
Counted == [bev EXCEPT !.n = @ - 1]

\* Calls from the loop's thread, also from a callback, or from another thread.
Enable == /\ Calls("enable")
          /\ \E D \in (SUBSET Dirs) \ {{}} : bev' = bufferevent_enable(Counted, D)
Disable == /\ Calls("disable")
           /\ \E D \in (SUBSET Dirs) \ {{}} : bev' = bufferevent_disable(Counted, D)
DisableHard == Calls("hard") /\ bev' = bufferevent_disable_hard_(Counted, Dirs)
SetWatermark == /\ Calls("mark")
                /\ \E m \in Marks : bev' = bufferevent_setwatermark(Counted, m)
SetTimeouts == /\ Calls("timeouts")
               /\ \E D \in SUBSET Dirs : bev' = bufferevent_set_timeouts(Counted, D)
Write == /\ Calls("write")
         /\ \E n \in 1..Cap - bev.output : bev' = bufferevent_write(Counted, n)
Read == /\ Calls("read")
        /\ \E n \in 1..bev.input : bev' = bufferevent_read(Counted, n)
\* Not from the callback that reports a connection: when it returns, ev_write
\* is deleted without a look at the descriptor it now belongs to.
SetFd == /\ Calls("setfd") /\ ~bev.connecting /\ bev.running.k # "connected"
         /\ \E fd \in BOOLEAN : bev' = be_socket_setfd(Counted, fd)
Connect == /\ Calls("connect") /\ bev.dns = "no" /\ bev.report # "due" /\ ~bev.fd
           /\ \E r \in {"progress", "connected", "refused", "error"} :
                 bev' = bufferevent_socket_connect(Counted, r)
ConnectHostname == /\ Calls("connect") /\ bev.dns = "no" /\ bev.report # "due" /\ ~bev.fd
                   /\ bev' = bufferevent_socket_connect_hostname(Counted)
Free == Calls("free") /\ bev' = bufferevent_free(Counted)
Trigger == /\ Calls("trigger") /\ Idle
           /\ bev' = TriggerRead(bufferevent_incref(Counted))

-----------------------------------------------------------------------------
(* Callbacks of the event loop, which runs one at a time.                  *)

\* An event is told to the program: a connection attempt is reported.
Reports(b, what) == [b EXCEPT !.report =
    IF @ = "due" /\ what \in {"CONNECTED", "ERROR"} THEN "told" ELSE @]

\* Goes on where the running handler has no callback to wait for.
Settle(b, k) == IF b.running.cb = "no" /\ b.running.k = k THEN Done(b) ELSE b

\* Error, end of file or timeout: disable, then tell.
Stop(b, d, what) ==
    Settle(bufferevent_run_eventcb_(bufferevent_disable(b, {d}), what, "done"), "done")

bufferevent_readcb ==
    /\ Live(bev) /\ Idle /\ "R" \in bev.ev /\ bev.fd
    /\ LET b == bufferevent_incref(bev)
           room == IF b.high = 0 THEN Cap - b.input ELSE b.high - b.input
       IN \/ "R" \in bev.timer /\ bev' = Stop(b, "R", "TIMEOUT")
          \/ /\ b.high # 0 /\ room <= 0
             /\ bev' = Done(bufferevent_suspend_read_(b, "WM"))
          \/ /\ b.rsusp = {} /\ (b.high = 0 \/ room > 0)
             /\ \/ \E n \in 1..(IF room < Cap - b.input THEN room ELSE Cap - b.input) :
                      bev' = TriggerRead(bufferevent_inbuf_wm_cb([b EXCEPT !.input = @ + n]))
                \/ \E what \in {"EOF", "ERROR"} : bev' = Stop(b, "R", what)
                \/ bev.connecting /\ bev' = Done([b EXCEPT !.refused = TRUE])

\* The part of bufferevent_writecb behind the connection attempt.
WriteOut(b, connected) ==
    IF b.wsusp # {} THEN {Done(b)}
    ELSE {LET c == [b EXCEPT !.output = @ - n]
              d == IF c.output = 0 THEN event_del(c, {"W"}) ELSE c
          IN IF n > 0 \/ ~connected THEN TriggerWrite(d) ELSE Done(d) :
             n \in IF b.output = 0 THEN {0} ELSE 1..b.output}
         \cup (IF b.output = 0 THEN {}
               ELSE {Done(b)} \cup {Stop(b, "W", what) : what \in {"EOF", "ERROR"}})

\* ... and behind the report of a connection.
AfterConnected(b) ==
    IF "W" \notin b.enabled \/ b.wsusp # {} THEN {Done(event_del(b, {"W"}))}
    ELSE WriteOut(b, TRUE)

Failed(b) ==
    Settle(bufferevent_run_eventcb_(
        event_del([b EXCEPT !.connecting = FALSE, !.refused = FALSE, !.failed = TRUE],
                  Dirs), "ERROR", "done"), "done")

bufferevent_writecb ==
    /\ Live(bev) /\ Idle /\ "W" \in bev.ev /\ bev.fd
    /\ LET b == bufferevent_incref(bev)
           c == bufferevent_run_eventcb_([b EXCEPT !.connecting = FALSE],
                                         "CONNECTED", "connected")
       IN \/ "W" \in bev.timer /\ bev' = Stop(b, "W", "TIMEOUT")
          \/ /\ b.connecting
             /\ \/ ~b.refused /\ bev' = Done(b)
                \/ bev' = Failed(b)
                \/ /\ ~b.refused
                   /\ IF c.running.cb = "no" THEN bev' \in AfterConnected(c) ELSE bev' = c
          \/ ~b.connecting /\ bev' \in WriteOut(b, FALSE)

\* The deferred callback is run: it takes over the reference of the queue.
bufferevent_run_deferred_callbacks ==
    /\ Live(bev) /\ Idle /\ bev.deferred
    /\ bev' = RunDeferred([bev EXCEPT !.deferred = FALSE], 1)

\* A callback of the program returns.
Return ==
    /\ ~Idle
    /\ LET b == Reports([bev EXCEPT !.running.cb = "no"], bev.running.cb)
           k == bev.running.k
       IN \/ k = "done" /\ bev' = Done(b)
          \/ k = "checked" /\ bev' = Done(bufferevent_inbuf_wm_check(b))
          \/ k = "connected" /\ bev' \in AfterConnected(b)
          \/ k = "deferred2" /\ bev' = RunDeferred(b, 2)
          \/ k = "deferred3" /\ bev' = RunDeferred(bufferevent_inbuf_wm_check(b), 3)
          \/ k = "deferred4" /\ bev' = RunDeferred(b, 4)

\* The lookup is over: with an address, an error, or because it was cancelled.
bufferevent_connect_getaddrinfo_cb ==
    /\ Live(bev) /\ Idle /\ bev.dns # "no"
    /\ LET b == [bufferevent_unsuspend_read_(
                    bufferevent_unsuspend_write_(bev, "LOOKUP"), "LOOKUP") EXCEPT !.dns = "no"]
       IN \/ bev.dns = "cancelled" /\ bev' = Done(b)
          \/ bev' = Settle(bufferevent_run_eventcb_(b, "ERROR", "done"), "done")
          \/ \E r \in {"progress", "connected", "refused"} :
                bev' = Done(bufferevent_socket_connect(b, r))

bufferevent_finalize_cb_ ==
    /\ bev.alive = "finalizing"
    /\ bev' = [bev EXCEPT !.alive = "gone"]

Next == \/ Enable \/ Disable \/ DisableHard \/ SetWatermark \/ SetTimeouts
        \/ Write \/ Read \/ SetFd \/ Connect \/ ConnectHostname \/ Free \/ Trigger
        \/ bufferevent_readcb \/ bufferevent_writecb
        \/ bufferevent_run_deferred_callbacks \/ Return
        \/ bufferevent_connect_getaddrinfo_cb
        \/ bufferevent_finalize_cb_

Spec == Init /\ [][Next]_bev

-----------------------------------------------------------------------------
One(p) == IF p THEN 1 ELSE 0

\* The bufferevent lives as long as somebody uses it: its owner, the queue of
\* deferred callbacks, a callback that is running, a lookup under way.
\* bufferevent_free in the middle of any of these takes nothing away from it.
ReferencesCounted ==
    /\ bev.refcnt = One(bev.owned) + One(bev.deferred) + One(~Idle) + One(bev.dns # "no")
    /\ Live(bev) <=> bev.refcnt > 0
    /\ ~Live(bev) => bev.ev = {} /\ ~bev.deferred

\* What the loop watches is what is enabled and not suspended, whatever the
\* order of enabling, suspending, connecting and draining was: data in the
\* output buffer gets written, a connection attempt gets reported, and input
\* stops exactly at the high mark.  (failed: a refused connection leaves the
\* events deleted although reading and writing are enabled.)
WatchesWhatIsWanted ==
    Live(bev) =>
    /\ bev.timer = bev.ev \cap bev.tmo
    /\ "WM" \in bev.rsusp <=> bev.high # 0 /\ bev.input >= bev.high
    /\ "LOOKUP" \in bev.rsusp <=> bev.dns # "no"
    /\ "LOOKUP" \in bev.wsusp <=> bev.dns # "no"
    /\ ("R" \in bev.ev) => "R" \in bev.enabled /\ bev.rsusp = {}
    /\ ("W" \in bev.ev) => ("W" \in bev.enabled /\ bev.wsusp = {}) \/ bev.connecting
                              \/ bev.running.k = "connected"
    /\ bev.fd /\ ~bev.failed =>
          /\ "R" \in bev.enabled /\ bev.rsusp = {} => "R" \in bev.ev
          /\ "W" \in bev.enabled /\ bev.wsusp = {} /\ bev.output > 0 => "W" \in bev.ev
          /\ bev.connecting /\ ~bev.at_once => "W" \in bev.ev

\* Deferred results are not forgotten, and neither is a connection attempt:
\* until it is told, it is being made or its result is in the queue.
ResultsAreDelivered ==
    Live(bev) /\ bev.cbs =>
    /\ bev.pend # {} \/ bev.epend # {} => bev.deferred \/ ~Idle
    /\ bev.report = "due" => \/ bev.connecting
                             \/ bev.epend \cap {"CONNECTED", "ERROR"} # {}
                             \/ bev.running.cb \in {"CONNECTED", "ERROR", "event"}
=============================================================================
