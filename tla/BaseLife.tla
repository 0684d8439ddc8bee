------------------------------ MODULE BaseLife ------------------------------
(***************************************************************************)
(* The life of an event base (event.c): the choice of the backend, events  *)
(* that are assigned, added, made active, finalized and freed, one-shot    *)
(* events, the map of debug mode, event_reinit, and event_base_free, which *)
(* runs finalizers that give up further callbacks while it walks the very  *)
(* queues they are on.  A group is an object such as a bufferevent: its    *)
(* callbacks, one finalizer for all, and the object it holds underneath.   *)
(* One thread makes all calls; another may wake the loop.                  *)
(***************************************************************************)
EXTENDS Integers, Sequences, FiniteSets

CONSTANTS Members,       \* the two callbacks of each group, by the group's name
          LifeSetups,    \* [debug, cfg, calls]: see MCKern
          LifeCalls      \* bound: calls of the program

VARIABLE bl

None == "none"
Queues == 1..2

\* A group's first callback is an I/O event, its second a deferred callback;
\* "t" is a timer, "c" an event with a common timeout, "o" a one-shot event.
LifeGroups == DOMAIN Members
Loose == {"t", "c", "o"}
Cbs == Loose \cup {Members[g][i] : g \in LifeGroups, i \in 1..2} \cup {"th_notify"}
IsEvent(c) == \A g \in LifeGroups : c # Members[g][2]
GroupOf(c) == CHOOSE g \in LifeGroups : \E i \in 1..2 : Members[g][i] = c
Pri(c) == IF c \in {"th_notify", "c"} THEN 1 ELSE 2

\* The callback has been assigned and not been freed.
Fresh == [alive |-> FALSE, ins |-> FALSE, tmo |-> None, fin |-> None, nx |-> None]

-----------------------------------------------------------------------------
(* Debug mode: who has been set up, and who is added.                      *)

Debugging(h) == h.debug
Note(h, c, v) == IF Debugging(h) THEN [h EXCEPT !.map[c] = v] ELSE h
event_debug_note_setup_(h, c) == Note(h, c, "setup")
event_debug_note_teardown_(h, c) == Note(h, c, None)
event_debug_note_add_(h, c) == Note([h EXCEPT !.ok = @ /\ (Debugging(h) => h.map[c] # None)], c, "added")
event_debug_note_del_(h, c) == Note([h EXCEPT !.ok = @ /\ (Debugging(h) => h.map[c] # None)], c, "setup")
event_debug_assert_is_setup_(h, c) == [h EXCEPT !.ok = @ /\ (Debugging(h) => h.map[c] # None)]
event_debug_assert_not_added_(h, c) == [h EXCEPT !.ok = @ /\ (Debugging(h) => h.map[c] # "added")]

-----------------------------------------------------------------------------
(* Queues.                                                                 *)

Index(s, c) == CHOOSE i \in 1..Len(s) : s[i] = c
Has(s, c) == \E i \in 1..Len(s) : s[i] = c
Without(s, c) == SelectSeq(s, LAMBDA x : x # c)
Active(h, c) == \E i \in Queues : Has(h.q[i], c)
Later(h, c) == Has(h.later, c)

\* TAILQ_NEXT: an element that was removed keeps the pointer it had.
TailqNext(h, c) ==
    IF Active(h, c)
    THEN LET s == h.q[Pri(c)] IN IF Index(s, c) = Len(s) THEN None ELSE s[Index(s, c) + 1]
    ELSE h.st[c].nx

\* Memory that has been freed is not to be touched.
Touch(h, c) == [h EXCEPT !.ok = @ /\ h.st[c].alive]

event_queue_insert_active(h, c) == IF Active(h, c) THEN h ELSE [h EXCEPT !.q[Pri(c)] = Append(@, c)]
event_queue_remove_active(h, c) ==
    IF Active(h, c) THEN [h EXCEPT !.st[c].nx = TailqNext(h, c), !.q[Pri(c)] = Without(@, c)] ELSE h

\* event_callback_activate_nolock_: also takes it off active_later_queue.
event_callback_activate_nolock_(h, c) ==
    IF h.st[c].fin # None THEN h ELSE event_queue_insert_active([h EXCEPT !.later = Without(@, c)], c)
event_active_nolock_(h, c) == event_callback_activate_nolock_(event_debug_assert_is_setup_(h, c), c)
event_callback_activate_later_nolock_(h, c) ==
    IF Active(h, c) \/ Later(h, c) THEN h ELSE [h EXCEPT !.later = Append(@, c)]

event_del_nolock_(h, c, even_if_finalizing) ==
    IF h.st[c].fin # None /\ ~even_if_finalizing THEN h
    ELSE event_debug_note_del_([event_queue_remove_active(h, c) EXCEPT
             !.later = Without(@, c), !.st[c].ins = FALSE, !.st[c].tmo = None], c)

event_callback_cancel_nolock_(h, c, even_if_finalizing) ==
    IF h.st[c].fin # None /\ ~even_if_finalizing THEN h
    ELSE IF IsEvent(c) THEN event_del_nolock_(h, c, even_if_finalizing)
    ELSE [event_queue_remove_active(h, c) EXCEPT !.later = Without(@, c)]

\* event_finalize_nolock_ and event_callback_finalize_nolock_
FinalizeWith(h, c, how) ==
    [event_callback_activate_nolock_(event_callback_cancel_nolock_(h, c, FALSE), c) EXCEPT !.st[c].fin = how]

\* Mutant: every callback of the group gets the finalizer.
finalize_many_each(h, g) ==
    FinalizeWith(FinalizeWith(h, Members[g][1], "cb"), Members[g][2], "cb")

\* event_callback_finalize_many_: the one that runs, or the first.
event_callback_finalize_many_(h, g) ==
    LET m == Members[g]
        one(x, i) == IF x.current = m[i] THEN FinalizeWith(x, m[i], "cb")
                     ELSE event_callback_cancel_nolock_(x, m[i], FALSE)
        all == one(one(h, 1), 2)
    IN [IF h.current \in {m[1], m[2]} THEN all ELSE FinalizeWith(all, m[1], "cb")
        EXCEPT !.given = @ \cup {g}]

\* What the finalizer of a group does (bufferevent_finalize_cb_): the callbacks go
\* with the object, and then the reference to the object underneath.
Destruct(h, g) ==
    LET gone == [h EXCEPT !.st[Members[g][1]].alive = FALSE, !.st[Members[g][2]].alive = FALSE, !.ran[g] = @ + 1]
        torn == event_debug_note_teardown_(gone, Members[g][1])
        u == h.under[g]
    IN IF u = None \/ u \in h.given THEN torn ELSE event_callback_finalize_many_(torn, u)

\* event_base_foreach_event_nolock_: the events in the order of their visits.
Listed(h) ==
    LET f(S) == IF S = {} THEN <<>> ELSE CHOOSE s \in [1..Cardinality(S) -> S] : \A i, j \in DOMAIN s : i # j => s[i] # s[j]
    IN f({c \in Cbs : h.st[c].ins}) \o f({c \in Cbs : h.st[c].tmo = "heap" /\ ~h.st[c].ins})
       \o f({c \in Cbs : h.st[c].tmo = "common" /\ ~h.st[c].ins})
Unlisted(h, s) == SelectSeq(s, LAMBDA c : IsEvent(c) /\ ~h.st[c].ins /\ h.st[c].tmo = None)
event_base_foreach_event_nolock_(h) == Listed(h) \o Unlisted(h, h.q[1]) \o Unlisted(h, h.q[2])

-----------------------------------------------------------------------------
(* Making a base.                                                          *)

\* The methods that the configuration and the environment allow.
Allowed(cfg) ==
    {i \in 1..Len(cfg.ops) : /\ cfg.ops[i].name \notin cfg.avoid
                             /\ cfg.require \subseteq cfg.ops[i].features
                             /\ cfg.ignore_env \/ cfg.ops[i].name \notin cfg.env}

event_assign(h, c) ==
    event_debug_note_setup_([event_debug_assert_not_added_(h, c) EXCEPT !.st[c] = [Fresh EXCEPT !.alive = TRUE],
                                                                       !.late = TRUE], c)

\* evthread_make_base_notifiable_nolock_
evthread_make_base_notifiable_nolock_(h, fd) ==
    event_debug_note_add_([event_assign([h EXCEPT !.notify = [fn |-> TRUE, fd |-> fd, readable |-> FALSE,
                                                              pending |-> h.notify.pending]],
                                        "th_notify") EXCEPT !.st["th_notify"].ins = TRUE], "th_notify")

BeginFree(h) == [h EXCEPT !.phase = "notify", !.it = [q |-> 1, at |-> None, deleted |-> 0]]

\* event_base_new_with_config; what is made so far goes when a later part fails.
event_base_new_with_config ==
    /\ bl.phase = "none"
    /\ LET cfg == bl.s.cfg
           works == {i \in Allowed(cfg) : i \notin cfg.broken}
           h == [bl EXCEPT !.late = TRUE, !.failed = cfg.fails # None \/ works = {}]
       IN bl' = IF works = {} THEN BeginFree(h)
                ELSE LET sel == [h EXCEPT !.evsel = CHOOSE i \in works : \A j \in works : i <= j]
                         ready == [sel EXCEPT !.nqueues = 1]
                     IN CASE cfg.fails = "priority" -> BeginFree(sel)
                          [] cfg.fails = "notify"   -> BeginFree(ready)
                          [] cfg.nolock             -> [ready EXCEPT !.phase = "up"]
                          [] OTHER -> [evthread_make_base_notifiable_nolock_(ready, 1) EXCEPT !.phase = "up"]

event_enable_debug_mode ==
    /\ bl.phase = "none" /\ ~bl.late /\ bl.s.debug /\ ~bl.debug
    /\ bl' = [bl EXCEPT !.debug = TRUE]

\* event_base_priority_init: not while anything is active.
event_base_priority_init ==
    /\ bl.phase = "up" /\ bl.nqueues = 1
    /\ bl' = [bl EXCEPT !.nqueues = IF \E i \in Queues : bl.q[i] # <<>> THEN @ ELSE 2]

-----------------------------------------------------------------------------
(* The program's calls, in callbacks or between them.  It assigns what is  *)
(* new, and leaves alone what it has given to a finalizer or freed.        *)

Calling(call) == bl.phase = "up" /\ bl.nqueues = 2 /\ bl.ncall < LifeCalls /\ call \in bl.s.calls /\ ~bl.locked
Counted == [bl EXCEPT !.ncall = @ + 1]
Given(c) == \E g \in bl.given, i \in 1..2 : Members[g][i] = c
Own(c) == bl.st[c].alive /\ bl.st[c].fin = None

event_new ==
    /\ Calling("new")
    /\ \E c \in {"t", "c"} : ~bl.st[c].alive /\ bl.st[c].fin = None /\ bl' = event_assign(Counted, c)

\* bufferevent_init_common_ and the like.
GroupNew ==
    /\ Calling("group")
    /\ \E g \in LifeGroups, u \in LifeGroups \cup {None} :
          /\ ~bl.st[Members[g][1]].alive /\ bl.ran[g] = 0 /\ g \notin bl.given
          /\ u # None => u # g /\ Own(Members[u][1]) /\ u \notin bl.given /\ \A x \in LifeGroups : bl.under[x] # u
          /\ bl' = [event_assign(Counted, Members[g][1]) EXCEPT !.st[Members[g][2]].alive = TRUE, !.under[g] = u]

event_add ==
    /\ Calling("add")
    /\ \E c \in Cbs \ {"th_notify", "o"} :
          /\ IsEvent(c) /\ Own(c) /\ ~Given(c)
          /\ bl' = event_debug_note_add_([event_debug_assert_is_setup_(Counted, c) EXCEPT
                       !.st[c].ins = c \notin Loose,
                       !.st[c].tmo = IF c \in Loose THEN IF c = "c" THEN "common" ELSE "heap" ELSE @], c)

event_active ==
    /\ Calling("active")
    /\ \E c \in Cbs \ {"th_notify", "o"} :
          /\ Own(c) /\ ~Given(c)
          /\ \/ IsEvent(c) /\ bl' = event_active_nolock_(Counted, c)
             \/ ~IsEvent(c) /\ bl' = event_callback_activate_nolock_(Counted, c)
             \/ ~IsEvent(c) /\ bl' = event_callback_activate_later_nolock_(Counted, c)

\* event_base_once, at once, with a timeout, or failing to be added: then the
\* base stays locked.
event_base_once ==
    /\ Calling("once") /\ ~bl.st["o"].alive
    /\ LET h == event_assign(Counted, "o")
           listed == [h EXCEPT !.once = {"o"}]
       IN \/ bl' = event_active_nolock_(listed, "o")
          \/ bl' = event_debug_note_add_([listed EXCEPT !.st["o"].tmo = "heap"], "o")
          \/ bl' = [h EXCEPT !.locked = TRUE, !.st["o"].alive = FALSE]

\* event_del
Delete ==
    /\ Calling("del")
    /\ \E c \in {"t", "c"} : Own(c) /\ bl' = event_del_nolock_(Counted, c, FALSE)

\* event_free; also of an event whose finalizer has run.
event_free ==
    /\ Calling("del")
    /\ \E c \in {"t", "c"} :
          /\ bl.st[c].alive /\ (bl.st[c].fin = None \/ (bl.st[c].fin = "event" /\ ~Active(bl, c)))
          /\ bl' = [event_debug_note_teardown_(event_del_nolock_(Counted, c, FALSE), c) EXCEPT !.st[c].alive = FALSE]

event_finalize_impl_ ==
    /\ Calling("finalize")
    /\ \E c \in {"t", "c"}, how \in {"event", "free"} : Own(c) /\ bl' = FinalizeWith(Counted, c, how)

\* bufferevent_decref_and_unlock_ with the last reference of the program.
GroupFree ==
    /\ Calling("group")
    /\ \E g \in LifeGroups :
          /\ Own(Members[g][1]) /\ g \notin bl.given /\ \A x \in LifeGroups : bl.under[x] # g
          /\ bl' = event_callback_finalize_many_(Counted, g)

\* event_base_active_by_fd for a timer's fd.
event_base_active_by_fd ==
    /\ Calling("active")
    /\ \E c \in {"t", "c"} : bl.st[c].tmo # None /\ bl' = event_active_nolock_(Counted, c)

-----------------------------------------------------------------------------
(* The loop.                                                               *)

RunFinalizer(h, c) ==
    CASE h.st[c].fin = "cb"    -> Destruct(h, GroupOf(c))
      [] h.st[c].fin = "event" -> [h EXCEPT !.ran[c] = @ + 1]
      [] h.st[c].fin = "free"  -> [h EXCEPT !.ran[c] = @ + 1, !.st[c].alive = FALSE]
      [] OTHER -> h

\* One callback of event_process_active_single_queue: an event is deleted first
\* (only th_notify is persistent), a finalizer ends its callback; event_once_cb frees
\* the one-shot event.
ProcessActive ==
    /\ bl.phase = "up" /\ bl.nqueues = 2 /\ ~bl.locked /\ bl.current = None
    /\ \E i \in Queues :
          /\ bl.q[i] # <<>> /\ (i = 2 => bl.q[1] = <<>>)
          /\ LET c == Head(bl.q[i])
                 h == Touch(IF IsEvent(c) /\ bl.st[c].fin = None /\ c # "th_notify" THEN event_del_nolock_(bl, c, FALSE)
                            ELSE event_queue_remove_active(bl, c), c)
             IN bl' = CASE h.st[c].fin \in {"event", "free"} -> RunFinalizer(event_debug_note_teardown_(h, c), c)
                        [] h.st[c].fin = "cb" -> RunFinalizer(h, c)
                        [] c = "th_notify" -> [h EXCEPT !.notify.readable = FALSE, !.notify.pending = FALSE]
                        [] c = "o" -> [event_debug_note_teardown_(event_debug_assert_not_added_(h, c), c)
                                       EXCEPT !.once = {}, !.st[c].alive = FALSE]
                        [] OTHER -> [h EXCEPT !.current = c]

CallbackReturns == bl.current # None /\ bl.phase = "up" /\ bl' = [bl EXCEPT !.current = None]

\* event_process_active is over: event_queue_make_later_events_active.
event_queue_make_later_events_active ==
    /\ bl.phase = "up" /\ bl.nqueues = 2 /\ ~bl.locked /\ bl.current = None /\ bl.later # <<>> /\ \A i \in Queues : bl.q[i] = <<>>
    /\ bl' = event_queue_insert_active([bl EXCEPT !.later = Tail(@)], Head(bl.later))

\* evthread_notify_base by another thread, and the backend's report of it.
evthread_notify_base ==
    /\ Calling("notify") /\ bl.notify.fn
    /\ bl' = IF bl.notify.pending THEN Counted
             ELSE [Counted EXCEPT !.notify.pending = TRUE, !.notify.readable = TRUE]

NotifyIsReported ==
    /\ bl.phase = "up" /\ ~bl.locked /\ bl.current = None /\ bl.notify.readable /\ bl.st["th_notify"].ins /\ ~Active(bl, "th_notify")
    /\ bl' = event_active_nolock_(bl, "th_notify")

\* event_reinit in the child: a new notification fd; the map is told again.  A
\* notification that was pending stays so.
event_reinit ==
    /\ Calling("reinit") /\ bl.current = None /\ bl.nreinit = 0
    /\ LET h == [Counted EXCEPT !.nreinit = 1, !.lostnote = bl.notify.pending]
           unassign(x, c) == event_debug_note_teardown_(event_debug_assert_not_added_(x, c), c)
           del == unassign(event_del_nolock_(h, "th_notify", FALSE), "th_notify")
       IN bl' = IF bl.notify.fn THEN evthread_make_base_notifiable_nolock_(del, 2) ELSE h

-----------------------------------------------------------------------------
(* event_base_free_                                                        *)

event_base_free ==
    /\ bl.phase = "up" /\ bl.current = None /\ ~bl.locked /\ bl.nqueues = 2
    /\ bl' = BeginFree(bl)

FreesNotify ==
    /\ bl.phase = "notify"
    /\ LET gone == event_debug_note_teardown_(event_debug_assert_not_added_(
                       event_del_nolock_(bl, "th_notify", FALSE), "th_notify"), "th_notify")
       IN bl' = [IF bl.notify.fd = 0 THEN bl ELSE [gone EXCEPT !.notify.fd = 0, !.st["th_notify"].alive = FALSE]
                 EXCEPT !.phase = "maps"]

\* evmap_delete_all_, the timer heap, the common timeouts.
FreesMaps ==
    /\ bl.phase = "maps"
    /\ LET f[S \in SUBSET Cbs] == IF S = {} THEN bl
                                  ELSE LET c == CHOOSE x \in S : TRUE IN event_del_nolock_(Touch(f[S \ {c}], c), c, FALSE)
           h == f[{c \in Cbs : bl.st[c].ins \/ bl.st[c].tmo # None}]
       IN bl' = [h EXCEPT !.phase = "queues", !.it = [q |-> 1, at |-> IF h.q[1] = <<>> THEN None ELSE Head(h.q[1]), deleted |-> 0]]

event_base_cancel_single_callback_(h, c) ==
    RunFinalizer([event_callback_cancel_nolock_(Touch(h, c), c, TRUE) EXCEPT !.it.deleted = 1], c)

\* One callback of event_base_free_queues_: its successor is looked up first.
event_base_free_queues_ ==
    /\ bl.phase = "queues"
    /\ LET c == bl.it.at
           first(q) == IF bl.q[q] = <<>> THEN None ELSE Head(bl.q[q])
       IN bl' = IF c # None
                THEN [event_base_cancel_single_callback_(bl, c) EXCEPT !.it.at = TailqNext(bl, c)]
                ELSE IF bl.it.q = 1 THEN [bl EXCEPT !.it.q = 2, !.it.at = first(2)]
                ELSE [bl EXCEPT !.phase = "later"]

\* Mutant: the queues are walked once.
free_later_once ==
    /\ bl.phase = "later"
    /\ bl' = IF bl.later # <<>> THEN event_base_cancel_single_callback_(bl, Head(bl.later))
             ELSE [bl EXCEPT !.phase = "end"]

\* The rest of event_base_free_queues_, and the loop around it.
FreesLater ==
    /\ bl.phase = "later"
    /\ bl' = IF bl.later # <<>> THEN event_base_cancel_single_callback_(bl, Head(bl.later))
             ELSE IF bl.it.deleted = 0 THEN [bl EXCEPT !.phase = "end"]
             ELSE [bl EXCEPT !.phase = "queues",
                             !.it = [q |-> 1, at |-> IF bl.q[1] = <<>> THEN None ELSE Head(bl.q[1]), deleted |-> 0]]

\* The one-shot events, the backend, and the assertions.
FreesRest ==
    /\ bl.phase = "end"
    /\ bl' = [bl EXCEPT !.phase = "gone", !.once = {}, !.st["o"].alive = @ /\ bl.once = {}, !.evsel = 0,
                        !.ok = /\ @ /\ \A i \in Queues : bl.q[i] = <<>>
                               /\ \A c \in Cbs : bl.st[c].tmo = None]

event_disable_debug_mode ==
    /\ bl.phase = "gone" /\ bl.debug
    /\ bl' = [bl EXCEPT !.debug = FALSE, !.map = [c \in Cbs |-> None]]

Init == \E s \in LifeSetups :
    bl = [s |-> s, phase |-> "none", evsel |-> 0, nqueues |-> 0, failed |-> FALSE, locked |-> FALSE, late |-> FALSE,
          debug |-> FALSE, map |-> [c \in Cbs |-> None], q |-> [i \in Queues |-> <<>>], later |-> <<>>,
          once |-> {}, current |-> None, st |-> [c \in Cbs |-> Fresh], under |-> [g \in LifeGroups |-> None],
          given |-> {}, ran |-> [x \in LifeGroups \cup Loose |-> 0], ok |-> TRUE, ncall |-> 0, nreinit |-> 0,
          lostnote |-> FALSE, it |-> [q |-> 1, at |-> None, deleted |-> 0],
          notify |-> [fn |-> FALSE, fd |-> 0, readable |-> FALSE, pending |-> FALSE]]

Next == \/ event_enable_debug_mode \/ event_base_new_with_config \/ event_base_priority_init
        \/ event_new \/ GroupNew \/ event_add \/ event_active \/ event_base_once \/ Delete \/ event_free
        \/ event_finalize_impl_ \/ GroupFree \/ event_base_active_by_fd
        \/ ProcessActive \/ CallbackReturns \/ event_queue_make_later_events_active
        \/ evthread_notify_base \/ NotifyIsReported \/ event_reinit
        \/ event_base_free \/ FreesNotify \/ FreesMaps \/ event_base_free_queues_ \/ FreesLater \/ FreesRest
        \/ event_disable_debug_mode

-----------------------------------------------------------------------------
\* A base that is gone has run every finalizer it was given exactly once, those
\* that other finalizers asked for included, and has freed its one-shot events;
\* before that no finalizer runs twice.
FreedWithFinalizers ==
    /\ \A x \in LifeGroups \cup Loose : bl.ran[x] <= 1
    /\ bl.phase = "gone" =>
          /\ \A g \in bl.given : bl.ran[g] = 1
          /\ \A c \in Loose : bl.st[c].fin # None => bl.ran[c] = 1
          /\ ~bl.st["o"].alive

\* No callback is touched after it was freed, the queues are empty when the base
\* goes, and debug mode finds no fault with a program that has none.
LifeAssertions == bl.ok

\* event_base_foreach_event visits every event that is pending or on an active
\* queue exactly once (those on active_later_queue it never sees).
ForeachVisitsOnce ==
    bl.phase = "up" =>
        LET v == event_base_foreach_event_nolock_(bl)
            seen == {v[i] : i \in 1..Len(v)}
        IN /\ Len(v) = Cardinality(seen)
           /\ seen = {c \in Cbs : IsEvent(c) /\ (bl.st[c].ins \/ bl.st[c].tmo # None \/ Active(bl, c))}

\* A wake-up that another thread asked for is on its way, up to an event_reinit
\* with one pending.
WakeupsKept == bl.notify.pending /\ bl.phase = "up" => bl.notify.readable \/ bl.lostnote
=============================================================================
