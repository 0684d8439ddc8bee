------------------------------ MODULE Listener ------------------------------
(***************************************************************************)
(* listener.c: an evconnlistener over an event.  The loop's thread runs    *)
(* listener_read_cb; it and, with LEV_OPT_THREADSAFE, another thread call  *)
(* the listener's functions, the loop's thread from within the callbacks.  *)
(* event_del in the other thread waits for a running callback of the       *)
(* event.  The program uses nothing after its evconnlistener_free.         *)
(***************************************************************************)
EXTENDS Integers, FiniteSets

CONSTANTS LnCalls,    \* bound: calls of the program
          LnConns,    \* bound: connections that arrive
          LnSetups    \* [threadsafe, disabled, nocb, errorcb, close_on_free: BOOLEAN]

VARIABLE ln

Ops == {"enable", "disable", "set_cb", "set_null", "free"}

-----------------------------------------------------------------------------
event_listener_enable(h) == [h EXCEPT !.added = TRUE]

\* event_listener_destroy and the end of the listener.
event_listener_destroy(h) ==
    [h EXCEPT !.added = FALSE, !.alive = FALSE, !.fdopen = IF h.s.close_on_free THEN FALSE ELSE @]

\* Mutant: the reference of a running callback is not counted.
decref_frees(h) == event_listener_destroy([h EXCEPT !.refcnt = 0])

listener_decref_and_unlock(h) ==
    IF h.refcnt = 1 THEN event_listener_destroy([h EXCEPT !.refcnt = 0]) ELSE [h EXCEPT !.refcnt = @ - 1]

evconnlistener_enable(h) ==
    LET e == [h EXCEPT !.enabled = TRUE] IN IF e.cb THEN event_listener_enable(e) ELSE e

\* Mutant: a callback that is set on an enabled listener does not start it.
set_cb_starts_nothing(h, cb) == [h EXCEPT !.cb = cb]

evconnlistener_set_cb(h, cb) ==
    LET e == [h EXCEPT !.cb = cb] IN IF h.enabled /\ ~h.cb THEN evconnlistener_enable(e) ELSE e

evconnlistener_free(h) ==
    listener_decref_and_unlock([h EXCEPT !.cb = FALSE, !.errorcb = FALSE, !.freecalled = TRUE])

evconnlistener_disable(h) == [h EXCEPT !.enabled = FALSE, !.added = FALSE]

Do(h, op) ==
    CASE op = "enable"   -> evconnlistener_enable(h)
      [] op = "disable"  -> evconnlistener_disable(h)
      [] op = "set_cb"   -> evconnlistener_set_cb(h, TRUE)
      [] op = "set_null" -> evconnlistener_set_cb(h, FALSE)
      [] op = "free"     -> evconnlistener_free(h)

\* Does the call delete the event, and so wait for its callback in the loop's thread?
Deletes(h, op) == op = "disable" \/ (op = "free" /\ h.refcnt = 1)

-----------------------------------------------------------------------------
(* The program: from a callback, from the loop's thread between callbacks, *)
(* or from the other thread, which takes the lock first.                   *)

MayCall(op) == ln.calls < LnCalls /\ ~ln.freecalled /\ op \in Ops

\* The lock is recursive, and free while callbacks run.
LoopCalls(op) ==
    /\ ln.at \in {"idle", "cb", "errorcb"} /\ ln.lock # "other" /\ MayCall(op)
    /\ ln' = Do([ln EXCEPT !.calls = @ + 1], op)

OtherLocks(op) ==
    /\ ln.s.threadsafe /\ ln.other = "none" /\ MayCall(op) /\ ln.lock = "none"
    /\ ln' = IF Deletes(ln, op) THEN [ln EXCEPT !.calls = @ + 1, !.other = op, !.lock = "other"]
             ELSE Do([ln EXCEPT !.calls = @ + 1], op)

\* event_del returns once the callback has.
OtherDeletes ==
    /\ ln.other # "none" /\ ln.at = "idle"
    /\ ln' = Do([ln EXCEPT !.other = "none", !.lock = "none"], ln.other)

-----------------------------------------------------------------------------
(* The loop.                                                               *)

Arrives == ln.arrived < LnConns /\ ln.fdopen /\ ln' = [ln EXCEPT !.arrived = @ + 1, !.backlog = @ + 1]

\* The socket is readable, or has an error, and the event is active.
Activated ==
    /\ ln.at = "idle" /\ ln.added /\ (ln.backlog > 0 \/ ln.errors < 1)
    /\ ln' = [ln EXCEPT !.at = "enter"]

listener_read_cb ==
    /\ ln.at = "enter" /\ ln.lock = "none"
    /\ ln' = [ln EXCEPT !.lock = "loop", !.at = "accept", !.uaf = @ \/ ~ln.alive]

\* accept: with no address the connection is closed, without a callback too.
Accepts ==
    /\ ln.at = "accept" /\ ln.backlog > 0
    /\ LET h == [ln EXCEPT !.backlog = @ - 1]
       IN \/ ln' = [h EXCEPT !.closed = @ + 1]
          \/ ln' = IF ~h.cb THEN [h EXCEPT !.closed = @ + 1, !.lock = "none", !.at = "idle"]
                   ELSE [h EXCEPT !.refcnt = @ + 1, !.lock = "none", !.at = "cb", !.given = @ + 1]

\* Nothing to accept, or an error that is reported.
AcceptFails ==
    /\ ln.at = "accept"
    /\ \/ ln.backlog = 0 /\ ln' = [ln EXCEPT !.lock = "none", !.at = "idle"]
       \/ /\ ln.errors < 1
          /\ LET h == [ln EXCEPT !.errors = @ + 1, !.lock = "none"]
             IN ln' = IF h.errorcb THEN [h EXCEPT !.refcnt = @ + 1, !.at = "errorcb"]
                      ELSE [h EXCEPT !.at = "idle"]

\* The callback returns and the lock is taken again.
CallbackReturns ==
    /\ ln.at \in {"cb", "errorcb"} /\ ln.lock = "none"
    /\ LET h == [ln EXCEPT !.uaf = @ \/ ~ln.alive]
       IN ln' = IF ln.at = "errorcb" \/ h.refcnt = 1
                THEN [listener_decref_and_unlock(h) EXCEPT !.at = "idle"]
                ELSE IF ~h.enabled THEN [h EXCEPT !.refcnt = @ - 1, !.at = "idle"]
                ELSE [h EXCEPT !.refcnt = @ - 1, !.lock = "loop", !.at = "accept"]

\* evconnlistener_new.
Init == \E s \in LnSetups :
    LET h == [s |-> s, alive |-> TRUE, refcnt |-> 1, cb |-> ~s.nocb, errorcb |-> s.errorcb, enabled |-> FALSE,
              added |-> FALSE, fdopen |-> TRUE, lock |-> "none", at |-> "idle", other |-> "none", calls |-> 0,
              backlog |-> 0, arrived |-> 0, given |-> 0, closed |-> 0, errors |-> 0, freecalled |-> FALSE,
              uaf |-> FALSE]
    IN ln = IF s.disabled THEN h ELSE evconnlistener_enable(h)

Next == \/ Arrives \/ Activated \/ listener_read_cb \/ Accepts \/ AcceptFails \/ CallbackReturns \/ OtherDeletes
        \/ \E op \in Ops : LoopCalls(op) \/ OtherLocks(op)

-----------------------------------------------------------------------------
\* A listener is in memory while a callback of it runs and until the program
\* frees it, no longer, and its memory is never used afterwards.
FreedInTime ==
    /\ ~ln.uaf
    /\ ln.alive <=> (~ln.freecalled \/ ln.at \in {"cb", "errorcb"})
    /\ ln.alive => ln.refcnt = (IF ln.freecalled THEN 0 ELSE 1) + (IF ln.at \in {"cb", "errorcb"} THEN 1 ELSE 0)

\* Every connection waits, was closed or was given to the program, and none is
\* accepted for a listener that was disabled before.
ConnectionsKept ==
    /\ ln.arrived = ln.backlog + ln.closed + ln.given
    /\ ln.at = "accept" => ln.enabled

\* An enabled listener with a callback is in the event loop.
EnabledListens == ln.alive /\ ln.enabled /\ ln.cb => ln.added \/ ln.freecalled

\* listener.h says of LEV_OPT_THREADSAFE that the listener is safe to use from
\* more than one thread at once: no thread waits for a callback that waits for
\* the lock the thread holds.
NoLockCycle == ~(ln.other # "none" /\ ln.at \in {"enter", "cb", "errorcb"})
=============================================================================
