------------------------------ MODULE EvSignal ------------------------------
(***************************************************************************)
(* signal.c with the signal map of evmap.c and event_signal_closure: a     *)
(* signal handler that writes to a pipe, the loop that reads the pipe and  *)
(* activates the signal's events, and the process-wide handlers that are   *)
(* set and put back as events come and go.  A signal may arrive between    *)
(* any two steps.  One thread runs the loops of all bases.                 *)
(***************************************************************************)
EXTENDS Integers, Sequences, FiniteSets

CONSTANTS SigBases,   \* the event bases
          Signals,    \* signal numbers, 1..n
          SigEvents,  \* the events: [base, sig, persist]
          SigCalls,   \* bound: calls of the program, and signals raised
          PipeCap,    \* bytes that a pipe holds
          SigSetups   \* sets of the calls that the program makes

VARIABLE sg

NoEvent == [base |-> "none", sig |-> 0, persist |-> FALSE]

\* The events of evmap_signal for a signal of a base.
Slot(h, b, n) == {e \in h.list : e.base = b /\ e.sig = n}

-----------------------------------------------------------------------------
(* The handlers of the process and the variables of the handler.           *)

\* evsig_set_handler_: remember what was there.
evsig_set_handler_(h, b, n) ==
    [h EXCEPT !.sh_old_max[b] = IF n >= @ THEN n + 1 ELSE @, !.sh_old[b][n] = h.disp[n],
              !.disp[n] = "evsig"]

evsig_restore_handler_(h, b, n) ==
    IF n >= h.sh_old_max[b] THEN h
    ELSE [h EXCEPT !.disp[n] = IF h.sh_old[b][n] = "null" THEN @ ELSE h.sh_old[b][n],
                   !.sh_old[b][n] = "null"]

evsig_set_base_(h, b) ==
    [h EXCEPT !.evsig_base = b, !.evsig_base_n = h.n_added[b], !.evsig_base_fd = h.pair[b]]

\* evsig_del; the last event of the signal is gone.
evsig_del(h, b, n) ==
    evsig_restore_handler_([h EXCEPT !.evsig_base_n = @ - 1, !.n_added[b] = @ - 1], b, n)

\* evsig_init_: a new pipe; saved handlers are forgotten.
evsig_init_(h, b) ==
    [h EXCEPT !.pair[b] = h.nextfd, !.nextfd = @ + 1, !.pipe = [@ EXCEPT ![h.nextfd] = <<>>],
              !.sh_old[b] = [n \in Signals |-> "null"], !.sh_old_max[b] = 0]

ClosePair(h, b) == [h EXCEPT !.pipe = [@ EXCEPT ![h.pair[b]] = <<0>>]]

\* Mutant: the handler keeps the pipe of a base that is gone.
dealloc_keeps_base(h, b) ==
    LET f[n \in {0} \cup Signals] == IF n = 0 THEN [h EXCEPT !.added[b] = FALSE]
                                     ELSE evsig_restore_handler_(f[n - 1], b, n)
    IN [ClosePair(f[Cardinality(Signals)], b) EXCEPT !.sh_old_max[b] = 0]

evsig_dealloc_(h, b) ==
    LET f[n \in {0} \cup Signals] ==
            IF n = 0 THEN [h EXCEPT !.added[b] = FALSE]
            ELSE IF h.sh_old[b][n] = "null" THEN f[n - 1] ELSE evsig_restore_handler_(f[n - 1], b, n)
        r == ClosePair(f[Cardinality(Signals)], b)
        u == [r EXCEPT !.sh_old_max[b] = 0]
    IN IF u.evsig_base # b THEN u
       ELSE [u EXCEPT !.evsig_base = "none", !.evsig_base_n = 0, !.evsig_base_fd = 0]

-----------------------------------------------------------------------------
(* A signal arrives.                                                       *)

IsOpen(h, fd) == fd > 0 /\ h.pipe[fd] # <<0>>

\* evsig_handler: a full pipe, or none, loses the signal.
evsig_handler(h, n) ==
    IF h.evsig_base = "none" \/ ~IsOpen(h, h.evsig_base_fd) \/ Len(h.pipe[h.evsig_base_fd]) >= PipeCap
    THEN h
    ELSE [h EXCEPT !.pipe[h.evsig_base_fd] = Append(@, n),
                   !.owed = @ \cup {e \in h.list : e.sig = n /\ h.pair[e.base] = h.evsig_base_fd}]

Raise ==
    /\ sg.raised < SigCalls
    /\ \E n \in Signals : /\ sg.disp[n] = "evsig"
                          /\ sg' = evsig_handler([sg EXCEPT !.raised = @ + 1], n)

-----------------------------------------------------------------------------
(* The program adds and deletes events.  evsig_add first names the base,   *)
(* then sets the handler: a signal may come in between.                    *)

Calling(c) == sg.ncall < SigCalls /\ c \in sg.s /\ sg.adding = NoEvent

AddBegins ==
    /\ Calling("add")
    /\ \E e \in SigEvents :
          /\ e \notin sg.list /\ sg.alive[e.base]
          /\ LET h == [sg EXCEPT !.ncall = @ + 1]
             IN sg' = IF Slot(h, e.base, e.sig) # {} THEN [h EXCEPT !.list = @ \cup {e}]
                      ELSE [evsig_set_base_([h EXCEPT !.n_added[e.base] = @ + 1], e.base)
                            EXCEPT !.adding = e, !.mixed = @ \/ \E x \in h.list : x.base # e.base]

\* evsig_set_handler_ may fail, and so may the first event_add of the pipe's
\* event: that leaves the handler set.
evsig_add ==
    /\ sg.adding # NoEvent
    /\ LET e == sg.adding
           h == [sg EXCEPT !.adding = NoEvent]
           set == evsig_set_handler_(h, e.base, e.sig)
           uncount(x) == [x EXCEPT !.evsig_base_n = @ - 1, !.n_added[e.base] = @ - 1]
       IN \/ sg' = [set EXCEPT !.added[e.base] = TRUE, !.list = @ \cup {e}]
          \/ sg' = uncount(h)
          \/ ~h.added[e.base] /\ sg' = [uncount(set) EXCEPT !.leftset = TRUE]

\* Mutant: a deletion in the callback does not stop the calls that are left.
event_del_keeps_calls(h, e) ==
    LET d == [h EXCEPT !.list = @ \ {e}, !.active[e] = 0, !.owed = @ \ {e}]
    IN IF e \notin h.list THEN d
       ELSE IF Slot(d, e.base, e.sig) = {} THEN evsig_del(d, e.base, e.sig) ELSE d

\* event_del_nolock_ of a signal event; calls that are still to come are taken back.
event_del(h, e) ==
    LET d == [h EXCEPT !.list = @ \ {e}, !.active[e] = 0, !.owed = @ \ {e},
                       !.run = IF @.ev = e THEN [@ EXCEPT !.left = 0] ELSE @]
    IN IF e \notin h.list THEN d
       ELSE IF Slot(d, e.base, e.sig) = {} THEN evsig_del(d, e.base, e.sig) ELSE d

Delete ==
    /\ Calling("del")
    /\ \E e \in sg.list : sg' = [event_del([sg EXCEPT !.ncall = @ + 1], e) EXCEPT !.deleted = @ \cup {e}]

-----------------------------------------------------------------------------
(* The loop.                                                               *)

\* evmap_signal_active_ and event_active_nolock_: an event that is active already
\* keeps its number of calls.
evmap_signal_active_(h, b, n, calls) ==
    [h EXCEPT !.active = [e \in SigEvents |->
        IF e \in Slot(h, b, n) /\ h.active[e] = 0 THEN calls ELSE h.active[e]]]

\* Mutant: of several signals in the pipe only the first is taken.
evsig_cb_first(h, b) ==
    evmap_signal_active_([h EXCEPT !.pipe[h.pair[b]] = <<>>], b, Head(h.pipe[h.pair[b]]), 1)

\* evsig_cb empties the pipe.
evsig_cb(h, b) ==
    LET p == h.pipe[h.pair[b]]
        count(n) == Cardinality({i \in 1..Len(p) : p[i] = n})
        f[n \in {0} \cup Signals] ==
            IF n = 0 THEN [h EXCEPT !.pipe[h.pair[b]] = <<>>]
            ELSE IF count(n) = 0 THEN f[n - 1] ELSE evmap_signal_active_(f[n - 1], b, n, count(n))
    IN f[Cardinality(Signals)]

PipeIsRead ==
    /\ sg.adding = NoEvent /\ sg.run.ev = NoEvent
    /\ \E b \in SigBases : /\ sg.alive[b] /\ sg.added[b] /\ Len(sg.pipe[sg.pair[b]]) > 0
                           /\ sg' = evsig_cb(sg, b)

\* event_signal_closure calls the program back as often as the signal came.
SignalClosure ==
    /\ sg.adding = NoEvent /\ sg.run.ev = NoEvent
    /\ \E e \in SigEvents :
          /\ sg.active[e] > 0
          /\ LET h == IF e.persist THEN [sg EXCEPT !.active[e] = 0]
                      ELSE [event_del(sg, e) EXCEPT !.active[e] = 0]
             IN sg' = [h EXCEPT !.run = [ev |-> e, left |-> sg.active[e] - 1], !.owed = @ \ {e},
                                !.deleted = @ \ {e}]

\* The next call, the end, or event_base_loopbreak, which drops the calls left.
ClosureGoesOn ==
    /\ sg.adding = NoEvent /\ sg.run.ev # NoEvent
    /\ \/ sg.run.left > 0 /\ sg' = [sg EXCEPT !.run.left = @ - 1,
                                              !.wrongcall = @ \/ sg.run.ev \in sg.deleted]
       \/ sg.run.left = 0 /\ sg' = [sg EXCEPT !.run = [ev |-> NoEvent, left |-> 0]]
       \/ sg.run.left > 0 /\ "break" \in sg.s /\ sg' = [sg EXCEPT !.run = [ev |-> NoEvent, left |-> 0]]

\* event_base_loop starts: the base that runs gets the signals.
LoopStarts ==
    /\ Calling("loop") /\ sg.run.ev = NoEvent
    /\ \E b \in SigBases :
          /\ sg.alive[b] /\ sg.added[b] /\ sg.n_added[b] > 0
          /\ sg' = evsig_set_base_([sg EXCEPT !.ncall = @ + 1], b)

-----------------------------------------------------------------------------
(* Fork and free.                                                          *)

\* evmap_signal_reinit_iter_fn over the signals that have events.
Readd(h, b) ==
    LET f[n \in {0} \cup Signals] ==
            IF n = 0 THEN h
            ELSE IF Slot(h, b, n) = {} THEN f[n - 1]
            ELSE [evsig_set_handler_(evsig_set_base_([f[n - 1] EXCEPT !.n_added[b] = @ + 1], b), b, n)
                  EXCEPT !.added[b] = TRUE]
    IN f[Cardinality(Signals)]

\* event_reinit in the child of a fork: signals in the pipe were the parent's.
\* (need_reinit is set for every backend of a system that forks.)
event_reinit ==
    /\ Calling("reinit") /\ sg.run.ev = NoEvent /\ sg.nreinit < 1
    /\ \E b \in SigBases :
          /\ sg.alive[b]
          /\ LET h == [sg EXCEPT !.ncall = @ + 1, !.nreinit = @ + 1, !.reinit = @ \cup {b}, !.owed = {}]
             IN sg' = Readd(evsig_init_(evsig_dealloc_([h EXCEPT !.added[b] = FALSE], b), b), b)

\* event_base_free: evmap_delete_all_, then the backend's evsig_dealloc_.
event_base_free ==
    /\ Calling("free") /\ sg.run.ev = NoEvent
    /\ \E b \in SigBases :
          /\ sg.alive[b]
          /\ LET f[S \in SUBSET {e \in SigEvents : e.base = b}] ==
                     IF S = {} THEN [sg EXCEPT !.ncall = @ + 1]
                     ELSE LET e == CHOOSE x \in S : TRUE IN event_del(f[S \ {e}], e)
             IN sg' = [evsig_dealloc_(f[{e \in SigEvents : e.base = b}], b) EXCEPT !.alive[b] = FALSE]

-----------------------------------------------------------------------------
Fds == 1..(Cardinality(SigBases) + 2)

\* The first pipe of each base.
FirstPair == CHOOSE f \in [SigBases -> 1..Cardinality(SigBases)] : \A a, b \in SigBases : a # b => f[a] # f[b]

Init == \E s \in SigSetups :
    sg = [s |-> s, disp |-> [n \in Signals |-> "default"],
          sh_old |-> [b \in SigBases |-> [n \in Signals |-> "null"]],
          sh_old_max |-> [b \in SigBases |-> 0], evsig_base |-> "none", evsig_base_n |-> 0,
          evsig_base_fd |-> 0, n_added |-> [b \in SigBases |-> 0], added |-> [b \in SigBases |-> FALSE],
          pair |-> FirstPair, nextfd |-> Cardinality(SigBases) + 1, pipe |-> [f \in Fds |-> <<>>],
          alive |-> [b \in SigBases |-> TRUE], list |-> {}, active |-> [e \in SigEvents |-> 0],
          run |-> [ev |-> NoEvent, left |-> 0], adding |-> NoEvent, owed |-> {}, deleted |-> {},
          wrongcall |-> FALSE, leftset |-> FALSE, mixed |-> FALSE, reinit |-> {}, ncall |-> 0,
          nreinit |-> 0, raised |-> 0]

Next == \/ Raise \/ AddBegins \/ evsig_add \/ Delete \/ PipeIsRead \/ SignalClosure
        \/ ClosureGoesOn \/ LoopStarts \/ event_reinit \/ event_base_free

-----------------------------------------------------------------------------
\* A signal that the handler wrote for an event is in the pipe or has made the
\* event active until the event's callback runs or the event is deleted; and no
\* callback runs for an event after its deletion in an earlier one.
SignalsReachEvents ==
    /\ \A e \in sg.owed : \/ sg.active[e] > 0
                          \/ \E i \in 1..Len(sg.pipe[sg.pair[e.base]]) : sg.pipe[sg.pair[e.base]][i] = e.sig
    /\ ~sg.wrongcall

\* The handlers of the process: ours exactly for the signals with events, else
\* what was there before (as long as one base at a time has signals, as signal.c
\* asks for); the count of a base is that of its signals, up to an event_reinit,
\* which counts them again; the handler writes to the open pipe of a living base.
HandlersFollowEvents ==
    /\ ~sg.mixed /\ ~sg.leftset /\ sg.adding = NoEvent =>
          \A n \in Signals : (sg.disp[n] = "evsig") <=> \E e \in sg.list : e.sig = n
    /\ sg.adding = NoEvent /\ sg.reinit = {} =>
          \A b \in SigBases : sg.n_added[b] = Cardinality({n \in Signals : Slot(sg, b, n) # {}})
    /\ sg.evsig_base # "none" => /\ sg.alive[sg.evsig_base]
                                 /\ sg.evsig_base_fd = sg.pair[sg.evsig_base]
                                 /\ IsOpen(sg, sg.evsig_base_fd)
=============================================================================
