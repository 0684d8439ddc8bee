---------------------------- MODULE ListenerIocp ----------------------------
(***************************************************************************)
(* listener.c on Windows with an IOCP port: a listener keeps several       *)
(* sockets in AcceptEx.  A thread of the port reports the completion       *)
(* (accepted_socket_cb), the loop runs the deferred callback               *)
(* (accepted_socket_invoke_user_cb), and the program enables, disables and *)
(* frees the listener meanwhile.                                           *)
(***************************************************************************)
EXTENDS Integers, FiniteSets

CONSTANTS AsIds,      \* the accepting sockets, N_SOCKETS_PER_LISTENER of them
          LiCalls     \* bound: calls of the program

VARIABLE li

\* s: "none", in AcceptEx, or a connection; io: completions the port still owes;
\* early: one of them is for an AcceptEx that had succeeded at once; deferred: the
\* callback is scheduled; incb: the program's callback runs; restart: it has
\* returned, start_accepting is to come.
Idle == [s |-> "none", io |-> 0, early |-> FALSE, deferred |-> FALSE, error |-> FALSE, free_on_cb |-> FALSE,
         alive |-> TRUE, incb |-> FALSE, restart |-> FALSE]

listener_decref_and_unlock(h) ==
    IF h.refcnt = 1 THEN [h EXCEPT !.refcnt = 0, !.alive = FALSE] ELSE [h EXCEPT !.refcnt = @ - 1]

\* free_and_unlock_accepting_socket and the listener's reference.
free_and_unlock_accepting_socket(h, i) ==
    listener_decref_and_unlock([h EXCEPT !.as[i] = [Idle EXCEPT !.alive = FALSE, !.io = h.as[i].io], !.uaf = @ \/ ~h.as[i].alive])

\* AcceptEx is pending, succeeds at once (accepted_socket_cb schedules the callback,
\* and the port reports the completion all the same) or fails; there is no socket;
\* or the port refuses it.
Outcomes == {"pending", "at_once", "fails", "no_socket", "refused"}
Started(a, how) ==
    CASE how = "pending"   -> [a EXCEPT !.s = "accepting", !.io = @ + 1]
      [] how = "at_once"   -> [a EXCEPT !.s = "conn", !.io = @ + 1, !.early = TRUE, !.deferred = TRUE]
      [] how = "fails"     -> [a EXCEPT !.s = "accepting", !.error = TRUE, !.deferred = TRUE]
      [] how = "no_socket" -> [a EXCEPT !.error = TRUE, !.deferred = TRUE]
      [] how = "refused"   -> a

\* The last operation of the socket or its callback is not over.
Busy(a) == a.io > 0 \/ a.deferred \/ a.incb \/ a.restart

\* A socket that is busy is used twice.
start_accepting(h, i) ==
    IF ~h.enabled THEN {h}
    ELSE {[h EXCEPT !.twice = @ \/ Busy(h.as[i]), !.as[i] = Started(@, how)] : how \in Outcomes}

\* stop_accepting for the sockets in use; only those are freed at a shutdown.
iocp_listener_disable_impl(h, shutdown) ==
    [h EXCEPT !.event_added = FALSE,
              !.idle = @ \/ (shutdown /\ \E i \in AsIds :
                     /\ h.as[i].alive
                     /\ h.as[i].s = "none" \/ (h.as[i].io = 0 /\ ~h.as[i].deferred)),
              !.as = [i \in AsIds |-> IF @[i].free_on_cb \/ @[i].s = "none" \/ ~@[i].alive THEN @[i]
                                      ELSE [@[i] EXCEPT !.s = "none", !.free_on_cb = shutdown]],
              !.fdopen = @ /\ ~shutdown]

\* start_accepting for the sockets that accept nothing.
iocp_listener_enable(h) ==
    LET starts == {i \in AsIds : ~h.as[i].free_on_cb /\ h.as[i].s = "none"}
    IN {[h EXCEPT !.enabled = TRUE, !.event_added = TRUE, !.twice = @ \/ \E i \in starts : Busy(h.as[i]),
                  !.as = [i \in AsIds |-> IF i \in starts THEN Started(@[i], how[i]) ELSE @[i]]] :
        how \in [AsIds -> Outcomes]}

-----------------------------------------------------------------------------
MayCall == li.calls < LiCalls /\ ~li.freecalled
Called == [li EXCEPT !.calls = @ + 1]

Enable == MayCall /\ \E h \in iocp_listener_enable(Called) : li' = h
Disable == MayCall /\ li' = iocp_listener_disable_impl([Called EXCEPT !.enabled = FALSE], FALSE)

\* evconnlistener_free: iocp_listener_destroy shuts down, then the program's reference goes.
Free == MayCall /\ li' = listener_decref_and_unlock(
                             iocp_listener_disable_impl([Called EXCEPT !.cb = FALSE, !.freecalled = TRUE], TRUE))

\* Mutant: the listener's reference is kept when a socket's accept fails at the end.
accepted_socket_cb_keeps_ref(i, ok) ==
    LET a == li.as[i]
        h == [li EXCEPT !.as[i].io = @ - 1, !.as[i].early = FALSE]
    IN IF ok THEN [h EXCEPT !.as[i].deferred = TRUE]
       ELSE IF a.free_on_cb THEN [h EXCEPT !.as[i] = [Idle EXCEPT !.alive = FALSE]]
       ELSE IF a.s = "none" THEN h
       ELSE [h EXCEPT !.as[i].error = TRUE, !.as[i].deferred = TRUE]

accepted_socket_cb(i, ok) ==
    LET a == li.as[i]
        h == [li EXCEPT !.as[i].io = @ - 1, !.as[i].early = FALSE, !.uaf = @ \/ ~a.alive]
    IN IF ok THEN [h EXCEPT !.as[i].deferred = TRUE]
       ELSE IF a.free_on_cb THEN free_and_unlock_accepting_socket(h, i)
       ELSE IF a.s = "none" THEN h
       ELSE [h EXCEPT !.as[i].error = TRUE, !.as[i].deferred = TRUE]

\* A connection, an error, or the end of an operation whose socket was closed.
Completes ==
    \E i \in AsIds :
       /\ li.as[i].io > 0
       /\ \/ li.as[i].early /\ li' = accepted_socket_cb(i, TRUE)
          \/ /\ ~li.as[i].early /\ li.as[i].s = "accepting" /\ li.fdopen
             /\ li' = [accepted_socket_cb(i, TRUE) EXCEPT !.as[i].s = "conn"]
          \/ ~li.as[i].early /\ li' = accepted_socket_cb(i, FALSE)

\* accepted_socket_invoke_user_cb up to the program's callback; the loop runs one at
\* a time.  The freed socket may have a completion to come.
accepted_socket_invoke_user_cb ==
    \E i \in AsIds :
       /\ li.as[i].deferred /\ \A j \in AsIds : ~li.as[j].incb /\ ~li.as[j].restart
       /\ LET h == [li EXCEPT !.as[i].deferred = FALSE]
          IN li' = IF h.as[i].free_on_cb
                   THEN free_and_unlock_accepting_socket([h EXCEPT !.twice = @ \/ h.as[i].early], i)
                   ELSE [h EXCEPT !.refcnt = @ + 1, !.as[i].error = FALSE, !.as[i].incb = TRUE,
                                  !.as[i].s = IF h.as[i].error THEN @ ELSE "none"]

\* The callback returns, and the listener's lock is released, ...
CallbackReturns ==
    \E i \in AsIds :
       /\ li.as[i].incb
       /\ LET h == listener_decref_and_unlock([li EXCEPT !.as[i].incb = FALSE])
          IN li' = IF h.alive THEN [h EXCEPT !.as[i].restart = TRUE] ELSE h

\* ... before the socket is started again under its own lock.
Restarts ==
    \E i \in AsIds :
       /\ li.as[i].restart
       /\ li' \in start_accepting([li EXCEPT !.as[i].restart = FALSE,
                                            !.uaf = @ \/ ~li.as[i].alive \/ ~li.alive], i)

\* evconnlistener_new_async.
Init == \E how \in [AsIds -> Outcomes \ {"refused"}] :
        li = [alive |-> TRUE, refcnt |-> 1 + Cardinality(AsIds), enabled |-> TRUE, cb |-> TRUE, fdopen |-> TRUE,
              event_added |-> TRUE, as |-> [i \in AsIds |-> Started(Idle, how[i])],
              calls |-> 0, freecalled |-> FALSE, uaf |-> FALSE, twice |-> FALSE,
              idle |-> FALSE]

\* Nothing is claimed of a socket used twice, and the model stops there.
Next == /\ ~li.twice
        /\ Enable \/ Disable \/ Free \/ Completes \/ accepted_socket_invoke_user_cb \/ CallbackReturns
           \/ Restarts

-----------------------------------------------------------------------------
\* The listener is freed once the program, every accepting socket and every
\* running callback have let go of it, and nothing touches a freed socket, as long
\* as no socket was used twice: started while busy, or freed with a completion to
\* come because its AcceptEx had succeeded at once (listener.c:574).
IocpReferences ==
    li.twice \/ /\ ~li.uaf
                /\ li.refcnt = (IF li.freecalled THEN 0 ELSE 1) + Cardinality({i \in AsIds : li.as[i].alive})
                                + Cardinality({i \in AsIds : li.as[i].incb})
                /\ li.alive <=> li.refcnt > 0

\* After evconnlistener_free the sockets go as their operations end: none is left
\* without an operation or a callback to come (except after a free while one had
\* neither: iocp_listener_disable_impl passes over sockets that are disabled, in
\* their callback or could not be made, and start_accepting may then bring them
\* back to life).
IocpSocketsGo ==
    li.freecalled /\ ~li.idle /\ ~li.twice => \A i \in AsIds : li.as[i].alive => Busy(li.as[i])
=============================================================================
