------------------------------ MODULE BevAsync ------------------------------
(***************************************************************************)
(* bufferevent_async.c with the overlapped evbuffers of buffer_iocp.c and  *)
(* the completion port of event_iocp.c.  A read, a write and a connection  *)
(* attempt are launched by the bufferevent and completed by any thread of  *)
(* the port, whenever it comes to it; the event loop knows of them only    *)
(* through the base's count of virtual events.  Every action runs under    *)
(* BEV_LOCK, which these bufferevents always have.                         *)
(***************************************************************************)
EXTENDS Integers, FiniteSets

CONSTANTS AsyncCap,      \* bound: bytes in a buffer
          AsyncCalls,    \* bound: calls of the program
          AsyncMarks,    \* high watermarks for reading, 0 for none
          PortThreads    \* the threads that event_iocp_port_launch_ starts

VARIABLES asy,   \* the bufferevent
          port   \* the completion port

asyncVars == <<asy, port>>

\* event_base_add_virtual_ and event_base_del_virtual_ behind the added flags.
bev_async_add(b, d) ==
    IF d \in b.added THEN b ELSE [b EXCEPT !.added = @ \cup {d}, !.virtual = @ + 1]
bev_async_del(b, d) ==
    IF d \in b.added THEN [b EXCEPT !.added = @ \ {d}, !.virtual = @ - 1] ELSE b

incref(b) == [b EXCEPT !.refcnt = @ + 1]

\* be_async_run_eventcb and be_async_trigger_nolock always defer, and a
\* callback that is already waiting is not scheduled again.
Report(b, what) ==
    IF b.deferred = {} THEN [incref(b) EXCEPT !.deferred = {what}]
    ELSE [b EXCEPT !.deferred = @ \cup {what}]

\* bufferevent_decref_: the last reference runs be_async_destruct.
bufferevent_decref(b) ==
    IF b.refcnt > 1 THEN [b EXCEPT !.refcnt = @ - 1]
    ELSE [bev_async_del(bev_async_del(b, "R"), "W") EXCEPT !.refcnt = 0, !.fd = FALSE]

\* evbuffer_launch_write_ pins the data and freezes the start of the buffer.
evbuffer_launch_write(b) == [b EXCEPT !.writing = b.output, !.pinned = @ \cup {"W"}]
\* evbuffer_launch_read_ pins the space and freezes the end of the buffer.
evbuffer_launch_read(b, n) == [b EXCEPT !.reading = n, !.pinned = @ \cup {"R"}]

\* The results of bev_async_consider_writing: the launch may fail.
bev_async_consider_writing(b) ==
    IF b.writing > 0 \/ b.connecting THEN {b}
    ELSE IF ~b.ok \/ "W" \notin b.enabled \/ b.output = 0 \/ b.suspended["W"] # {}
         THEN {bev_async_del(b, "W")}
    ELSE {bev_async_add(evbuffer_launch_write(incref(b)), "W"),
          Report([bufferevent_decref(incref(b)) EXCEPT !.ok = FALSE], "E")}

\* The same for reading, up to the high watermark.
bev_async_consider_reading(b) ==
    IF b.reading > 0 \/ b.connecting THEN {b}
    ELSE IF ~b.ok \/ "R" \notin b.enabled \/ (b.high # 0 /\ b.input >= b.high)
                   \/ b.suspended["R"] # {} \/ b.input >= AsyncCap
         THEN {bev_async_del(b, "R")}
    ELSE {bev_async_add(evbuffer_launch_read(incref(b), IF b.high = 0 THEN AsyncCap - b.input
                                                        ELSE b.high - b.input), "R"),
          bufferevent_decref(Report([incref(b) EXCEPT !.ok = FALSE], "E"))}

be_async_enable(b, D) ==
    IF ~b.ok \/ b.connecting THEN {b}
    ELSE UNION {IF "W" \in D THEN bev_async_consider_writing(c) ELSE {c} :
                c \in IF "R" \in D THEN bev_async_consider_reading(b) ELSE {b}}

be_async_disable(b, D) ==
    LET r == IF "R" \in D THEN bev_async_del(b, "R") ELSE b
    IN IF "W" \in D THEN bev_async_del(r, "W") ELSE r

\* bufferevent_suspend_read_ and _write_, and their counterparts.
suspend(b, d, why) == be_async_disable([b EXCEPT !.suspended[d] = @ \cup {why}], {d})
unsuspend(b, d, why) ==
    LET c == [b EXCEPT !.suspended[d] = @ \ {why}]
    IN IF c.suspended[d] = {} /\ d \in c.enabled THEN be_async_enable(c, {d}) ELSE {c}

\* bufferevent_inbuf_wm_cb, where a high watermark is set.
wm_cb(b) ==
    IF b.high # 0 /\ b.input >= b.high THEN {suspend(b, "R", "wm")} ELSE unsuspend(b, "R", "wm")

\* be_async_inbuf_callback after the program has drained the input.
be_async_inbuf_callback(b) == UNION {bev_async_consider_reading(c) : c \in wm_cb(b)}

bufferevent_async_set_connected(b) == be_async_enable([b EXCEPT !.ok = TRUE], b.enabled)

-----------------------------------------------------------------------------
(* The program.                                                            *)

AsyncInit ==
    /\ \E fd \in BOOLEAN :
        asy = [fd |-> fd, ok |-> fd, connecting |-> FALSE, enabled |-> {"W"}, high |-> 0,
               suspended |-> [d \in {"R", "W"} |-> {}], reading |-> 0, writing |-> 0,
               added |-> {}, pinned |-> {}, virtual |-> 0, input |-> 0, output |-> 0,
               refcnt |-> 1, freed |-> FALSE, deferred |-> {}, left |-> AsyncCalls,
               begun |-> IF fd THEN {"W"} ELSE {}]
    /\ port = [alive |-> PortThreads, lock |-> "none", shutdown |-> FALSE, semaphore |-> 0,
               freed |-> FALSE, stage |-> "running", dequeued |-> {}]

ProgramCall == ~asy.freed /\ asy.left > 0
b1 == [asy EXCEPT !.left = @ - 1]

AsyncEnable(d) ==
    /\ ProgramCall
    /\ asy' \in {[c EXCEPT !.begun = IF asy.ok THEN @ \cup {d} ELSE @] :
                 c \in be_async_enable([b1 EXCEPT !.enabled = @ \cup {d}],
                                       IF asy.suspended[d] = {} THEN {d} ELSE {})}
    /\ UNCHANGED port

AsyncDisable(d) ==
    /\ ProgramCall
    /\ asy' = be_async_disable([b1 EXCEPT !.enabled = @ \ {d}], {d})
    /\ UNCHANGED port

\* Adding to the output runs be_async_outbuf_callback.
AsyncWrite ==
    /\ ProgramCall /\ asy.output < AsyncCap
    /\ asy' \in bev_async_consider_writing([b1 EXCEPT !.output = @ + 1])
    /\ UNCHANGED port

AsyncRead ==
    /\ ProgramCall /\ asy.input > 0
    /\ asy' \in be_async_inbuf_callback([b1 EXCEPT !.input = 0])
    /\ UNCHANGED port

AsyncMark(h) ==
    /\ ProgramCall
    /\ asy' \in wm_cb([b1 EXCEPT !.high = h])
    /\ UNCHANGED port

\* Rate limits suspend a direction and let it go again.
AsyncLimit(d) ==
    /\ ~asy.freed
    /\ IF "bw" \in asy.suspended[d] THEN asy' \in unsuspend(asy, d, "bw")
       ELSE ProgramCall /\ asy' = suspend(b1, d, "bw")
    /\ UNCHANGED port

\* BEV_CTRL_SET_FD: nothing is launched on the new socket.
AsyncSetFd(fd) ==
    /\ ProgramCall /\ ~asy.connecting /\ asy.reading = 0 /\ asy.writing = 0 /\ fd # asy.fd
    /\ asy' = [b1 EXCEPT !.fd = fd, !.ok = fd, !.begun = {}]
    /\ UNCHANGED port

\* bufferevent_socket_connect with ConnectEx; a refused call leaves the socket set.
AsyncConnect ==
    /\ ProgramCall /\ ~asy.connecting /\ asy.reading = 0 /\ asy.writing = 0
    /\ \/ asy' = [incref(b1) EXCEPT !.fd = TRUE, !.ok = TRUE, !.connecting = TRUE,
                                    !.virtual = @ + 1]
       \/ asy' = [b1 EXCEPT !.fd = TRUE, !.ok = TRUE, !.begun = {}]
    /\ UNCHANGED port

\* bufferevent_free: BEV_CTRL_CANCEL_ALL, and the program's reference is dropped.
AsyncFree ==
    /\ ~asy.freed
    /\ asy' = bufferevent_decref([asy EXCEPT !.ok = FALSE, !.fd = FALSE, !.freed = TRUE])
    /\ UNCHANGED port

\* The loop runs the deferred callbacks and drops their reference.
AsyncDeferred ==
    /\ asy.deferred # {}
    /\ asy' = bufferevent_decref([asy EXCEPT !.deferred = {}])
    /\ UNCHANGED port

-----------------------------------------------------------------------------
(* A thread of the port dequeues a completion, looks under the port's lock *)
(* whether the port is shutting down, and only then runs its callback.     *)

Pending == (IF asy.connecting THEN {"connect"} ELSE {})
           \cup (IF asy.reading > 0 THEN {"R"} ELSE {}) \cup (IF asy.writing > 0 THEN {"W"} ELSE {})

\* GetQueuedCompletionStatus in loop; "none" is a notification.
Dequeue(t, what) ==
    /\ t \in port.alive /\ \A e \in port.dequeued : e[1] # t
    /\ port.stage \in {"running", "notified"}
    /\ IF what = "none" THEN port.stage = "notified"
       ELSE what \in Pending /\ \A e \in port.dequeued : e[2] # what
    /\ port' = [port EXCEPT !.dequeued = @ \cup {<<t, what>>}]
    /\ UNCHANGED asy

\* The thread finds port->shutdown set, counts itself out and leaves the lock
\* in a step of its own: what it dequeued is dropped.
ThreadStops(t, what) ==
    /\ <<t, what>> \in port.dequeued /\ port.shutdown /\ port.lock = "none"
    /\ port' = [port EXCEPT !.dequeued = @ \ {<<t, what>>}, !.alive = @ \ {t}, !.lock = t,
                            !.semaphore = IF port.alive = {t} THEN 1 ELSE @]
    /\ UNCHANGED asy

ThreadLeaves(t) ==
    /\ port.lock = t
    /\ port' = [port EXCEPT !.lock = "none"]
    /\ UNCHANGED asy

Handle(t, what) ==
    /\ <<t, what>> \in port.dequeued /\ ~port.shutdown /\ port.lock = "none"
    /\ port' = [port EXCEPT !.dequeued = @ \ {<<t, what>>}]

\* evbuffer_commit_read_ unfreezes, releases the pins and runs the callbacks.
evbuffer_commit_read(b, n) ==
    IF n = 0 THEN {[b EXCEPT !.pinned = @ \ {"R"}]}
    ELSE IF b.high # 0 THEN wm_cb([b EXCEPT !.pinned = @ \ {"R"}, !.input = @ + n])
    ELSE {[b EXCEPT !.pinned = @ \ {"R"}, !.input = @ + n]}

evbuffer_commit_write(b, n) == [b EXCEPT !.pinned = @ \ {"W"}, !.output = @ - n]

\* Mutant: a failed connection leaves its virtual event with the base.
connect_complete_keeps_virtual(t) ==
    /\ Handle(t, "connect")
    /\ asy' = bufferevent_decref(Report([asy EXCEPT !.connecting = FALSE, !.begun = {}], "E"))

\* connect_complete.
ConnectComplete(t) ==
    /\ Handle(t, "connect")
    /\ \E ok \in BOOLEAN :
        LET b == [asy EXCEPT !.connecting = FALSE]
        IN asy' \in {bufferevent_decref([Report(c, "E") EXCEPT !.virtual = @ - 1,
                        !.begun = IF ok THEN b.enabled ELSE {}]) :
                     c \in IF ok THEN bufferevent_async_set_connected(b) ELSE {b}}

\* read_complete: n bytes, or none at the end of the stream or with an error.
ReadComplete(t) ==
    /\ Handle(t, "R")
    /\ \E n \in 0..asy.reading : \E c \in evbuffer_commit_read(asy, n) :
        LET b == [c EXCEPT !.reading = 0]
        IN asy' \in {bufferevent_decref(d) : d \in
                     IF ~b.ok THEN {b}
                     ELSE IF n > 0 THEN bev_async_consider_reading(Report(b, "R"))
                     ELSE {Report([b EXCEPT !.ok = FALSE], "E")}}

\* write_complete, in the same way.
WriteComplete(t) ==
    /\ Handle(t, "W")
    /\ \E n \in 0..asy.writing :
        LET b == [evbuffer_commit_write(asy, n) EXCEPT !.writing = 0]
        IN asy' \in {bufferevent_decref(d) : d \in
                     IF ~b.ok THEN {b}
                     ELSE IF n > 0 THEN bev_async_consider_writing(Report(b, "W"))
                     ELSE {Report([b EXCEPT !.ok = FALSE], "E")}}

\* event_iocp_shutdown_: flag and notify, wait, and free the port if no thread is left.
PortShutdown ==
    /\ port.stage = "running" /\ port.lock = "none"
    /\ port' = [port EXCEPT !.shutdown = TRUE, !.stage = "notified"]
    /\ UNCHANGED asy

\* The wait ends with the semaphore or after waitMsec.
PortWaited ==
    /\ port.stage = "notified"
    /\ port' = [port EXCEPT !.stage = "waited", !.semaphore = 0]
    /\ UNCHANGED asy

PortFree ==
    /\ port.stage = "waited" /\ port.lock = "none"
    /\ port' = [port EXCEPT !.freed = (port.alive = {}),
                            !.stage = IF port.alive = {} THEN "freed" ELSE "notified"]
    /\ UNCHANGED asy

AsyncNext ==
    \/ \E d \in {"R", "W"} : AsyncEnable(d) \/ AsyncDisable(d) \/ AsyncLimit(d)
    \/ AsyncWrite \/ AsyncRead \/ AsyncConnect \/ AsyncFree \/ AsyncDeferred
    \/ \E h \in AsyncMarks : AsyncMark(h)
    \/ \E fd \in BOOLEAN : AsyncSetFd(fd)
    \/ \E t \in PortThreads : \/ \E w \in {"connect", "R", "W", "none"} :
                                    Dequeue(t, w) \/ ThreadStops(t, w)
                              \/ ThreadLeaves(t)
                              \/ ConnectComplete(t) \/ ReadComplete(t) \/ WriteComplete(t)
    \/ PortShutdown \/ PortWaited \/ PortFree

-----------------------------------------------------------------------------

\* Whoever may still complete holds a reference, its memory is pinned, and a
\* bufferevent that is gone leaves no virtual event that would keep the loop running.
AsyncLifetimes ==
    /\ asy.refcnt = (IF asy.freed THEN 0 ELSE 1) + Cardinality(Pending)
                    + (IF asy.deferred = {} THEN 0 ELSE 1)
    /\ asy.pinned = Pending \ {"connect"}
    /\ asy.refcnt = 0 => asy.virtual = 0
    /\ port.freed => port.alive = {} /\ port.lock = "none"

\* What is enabled on a good socket and could move is under way.
AsyncMoves ==
    asy.ok /\ ~asy.connecting =>
        /\ "W" \in asy.enabled \cap asy.begun /\ asy.suspended["W"] = {} /\ asy.output > 0
              => asy.writing > 0
        /\ "R" \in asy.enabled \cap asy.begun /\ asy.suspended["R"] = {} /\ asy.input = 0
              => asy.reading > 0
=============================================================================
