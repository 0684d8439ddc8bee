------------------------------ MODULE EventBase ------------------------------
(***************************************************************************)
(* The event loop of libevent (event.c): one event_base, the thread Loop   *)
(* that runs event_base_loop() on it, and other threads that call the      *)
(* public API on its events and deferred callbacks.                        *)
(*                                                                         *)
(* th_base_lock is held by Loop except while it waits in the backend, runs *)
(* a callback, or is outside event_base_loop(); every API call is one      *)
(* critical section, so it is one action, enabled when the lock is free.   *)
(* event_del() may release the lock in EVTHREAD_COND_WAIT: its return is a *)
(* second action.  Events are I/O (EV_READ) events or pure timers.         *)
(***************************************************************************)
EXTENDS Integers, Sequences, FiniteSets

CONSTANTS
  Events,       \* struct event objects (EVLIST_INIT callbacks) of the application
  Deferreds,    \* struct event_callback objects run by EV_CLOSURE_CB_SELF
  Notify,       \* base->th_notify, the only EVLIST_INTERNAL event
  None,         \* the null event_callback
  Loop,         \* the thread that runs event_base_loop()
  Threads,      \* the other threads
  NPri,         \* base->nactivequeues
  Pri,          \* evcb_pri of every callback
  IO,           \* events with EV_READ
  Persist,      \* events with EV_PERSIST
  EvFinalize,   \* events with EV_FINALIZE
  ExitEvents,   \* event_once objects whose callback is event_loopexit_cb
  Fd,           \* ev_fd of the I/O events and of Notify
  LoopFlags,    \* the EVLOOP_* flags given to event_base_loop()
  MaxDispatch,  \* base->max_dispatch_callbacks
  LimitAfter,   \* base->limit_callbacks_after_prio
  MaxDeferreds, \* MAX_DEFERREDS_QUEUED
  ActiveWith,   \* the results passed to event_active() and event_active_later_()
  Delays,       \* the relative timeouts passed to event_add()
  MaxTime,      \* bound on the clock
  MaxVirtual,   \* bound on virtual_event_count
  AddMayFail,   \* whether evmap_io_add_() may return -1
  Spurious,     \* whether condition variables wake up spuriously
  Ops           \* the API calls the application makes

Callbacks == Events \cup Deferreds \cup {Notify}
Priorities == 0 .. (NPri - 1)
ListFlags == {"TIMEOUT", "INSERTED", "ACTIVE", "ACTIVE_LATER"}
Flags == ListFlags \cup {"FINALIZING"}
Results == {"READ", "TIMEOUT"}
Fds == {Fd[c] : c \in IO \cup {Notify}}
Forever == -1     \* a NULL timeout; also "no cached time" and "no priority"

ASSUME ConstantsAssumption ==
  /\ IsFiniteSet(Events) /\ IsFiniteSet(Deferreds) /\ IsFiniteSet(Threads)
  /\ Events \cap Deferreds = {} /\ Notify \notin Events \cup Deferreds
  /\ None \notin Callbacks /\ Loop \notin Threads
  /\ NPri \in Nat \ {0}
  /\ Pri \in [Callbacks -> Priorities] /\ Pri[Notify] = 0
  /\ IO \subseteq Events /\ Persist \subseteq Events
  /\ EvFinalize \subseteq Events /\ ExitEvents \subseteq Events \ (IO \cup Persist)
  /\ DOMAIN Fd = IO \cup {Notify} /\ \A e \in IO : Fd[e] # Fd[Notify]
  /\ LoopFlags \subseteq {"ONCE", "NONBLOCK", "NO_EXIT_ON_EMPTY"}
  /\ MaxDispatch \in Nat \ {0} /\ LimitAfter \in Nat
  /\ MaxDeferreds \in Nat /\ ActiveWith \subseteq Results /\ Delays \subseteq Nat
  /\ MaxTime \in Nat /\ MaxVirtual \in Nat
  /\ AddMayFail \in BOOLEAN /\ Spurious \in BOOLEAN

VARIABLES
  q,                  \* the queues: flags, lists and counters of the base
  ev_res, ev_io_timeout,
  event_break, event_gotterm, event_continue, n_deferreds_queued,
  pc,                 \* where Loop is
  deadline,           \* when the backend stops waiting (Forever: never)
  lag,                \* how stale the time was that deadline is computed from
  ready,              \* fds the backend reported, not yet looked up
  todo,               \* events evmap_io_active_() has still to activate
  event_running_priority, count,
  current_event,      \* base->current_event
  exec,               \* the callback that executes: [cb, fin]
  waiters,            \* base->current_event_waiters
  is_notify_pending,
  notify_fd,          \* whether the notification eventfd is readable
  now, tv_cache,
  thr,                \* the other threads: [pc, ev]
  quiet,              \* history: events each thread deleted and nobody armed since
  armed,              \* history: whether the application has the event added with an
                      \* interval, and whether event_persist_closure failed to renew it
  finruns             \* history: finalizer runs since the last event_assign

qvars   == <<q, ev_res, ev_io_timeout>>
ctl     == <<event_break, event_gotterm, event_continue, n_deferreds_queued>>
where   == <<pc, deadline, lag, ready, todo, event_running_priority, count>>
cbvars  == <<current_event, exec, waiters>>
ntf     == <<is_notify_pending, notify_fd>>
clock   == <<now, tv_cache>>
history == <<quiet, armed, finruns>>
vars    == <<qvars, ctl, where, cbvars, ntf, clock, thr, history>>

NoExec == [cb |-> None, fin |-> FALSE]
Idle == [pc |-> "idle", ev |-> None]

------------------------------------------------------------------------------
(* The queues of the base.  b is the value of q before the primitive.      *)

\* TAILQ_REMOVE
TAILQ_REMOVE(s, c) ==
  IF \E i \in 1 .. Len(s) : s[i] = c
  THEN LET i == CHOOSE i \in 1 .. Len(s) : s[i] = c
       IN [j \in 1 .. (Len(s) - 1) |-> IF j < i THEN s[j] ELSE s[j + 1]]
  ELSE s

\* INCR_EVENT_COUNT and DECR_EVENT_COUNT leave EVLIST_INTERNAL events out
Counted(c) == IF c = Notify THEN 0 ELSE 1

event_queue_insert_inserted(b, e) ==
  [b EXCEPT !.flags[e] = @ \cup {"INSERTED"}, !.event_count = @ + Counted(e)]

event_queue_remove_inserted(b, e) ==
  [b EXCEPT !.flags[e] = @ \ {"INSERTED"}, !.event_count = @ - Counted(e)]

event_queue_insert_timeout(b, e, at) ==
  [b EXCEPT !.flags[e] = @ \cup {"TIMEOUT"}, !.event_count = @ + Counted(e),
            !.timeout[e] = at]

event_queue_remove_timeout(b, e) ==
  [b EXCEPT !.flags[e] = @ \ {"TIMEOUT"}, !.event_count = @ - Counted(e)]

event_queue_insert_active(b, c) ==
  IF "ACTIVE" \in b.flags[c] THEN b
  ELSE [b EXCEPT !.flags[c] = @ \cup {"ACTIVE"}, !.event_count = @ + Counted(c),
                 !.event_count_active = @ + 1, !.active[Pri[c]] = Append(@, c)]

event_queue_remove_active(b, c) ==
  [b EXCEPT !.flags[c] = @ \ {"ACTIVE"}, !.event_count = @ - Counted(c),
            !.event_count_active = @ - 1, !.active[Pri[c]] = TAILQ_REMOVE(@, c)]

event_queue_insert_active_later(b, c) ==
  IF b.flags[c] \cap {"ACTIVE", "ACTIVE_LATER"} # {} THEN b
  ELSE [b EXCEPT !.flags[c] = @ \cup {"ACTIVE_LATER"}, !.event_count = @ + Counted(c),
                 !.event_count_active = @ + 1, !.later = Append(@, c)]

\* Mutant: event_count_active is not decremented.
remove_later_keeps_count(b, c) ==
  [b EXCEPT !.flags[c] = @ \ {"ACTIVE_LATER"}, !.event_count = @ - Counted(c),
            !.later = TAILQ_REMOVE(@, c)]

event_queue_remove_active_later(b, c) ==
  [b EXCEPT !.flags[c] = @ \ {"ACTIVE_LATER"}, !.event_count = @ - Counted(c),
            !.event_count_active = @ - 1, !.later = TAILQ_REMOVE(@, c)]

\* one turn of the loop in event_queue_make_later_events_active()
event_queue_make_later_event_active(b) ==
  LET c == Head(b.later)
  IN [b EXCEPT !.flags[c] = (@ \ {"ACTIVE_LATER"}) \cup {"ACTIVE"},
               !.later = Tail(@), !.active[Pri[c]] = Append(@, c)]

event_haveevents(b) == b.virtual > 0 \/ b.event_count > 0
N_ACTIVE_CALLBACKS(b) == b.event_count_active

\* The heap holds the events with EVLIST_TIMEOUT; its top is the earliest.
TimeHeap(b) == {e \in Events : "TIMEOUT" \in b.flags[e]}
min_heap_top(b, e) ==
  e \in TimeHeap(b) /\ \A f \in TimeHeap(b) : b.timeout[e] =< b.timeout[f]

\* what evmap_io_add_ and evmap_io_del_ return: did the backend's interest change?
EvmapChanges(b, e) ==
  \A f \in IO \ {e} : Fd[f] = Fd[e] => "INSERTED" \notin b.flags[f]
NeedsEvmapAdd(b, e) ==
  e \in IO /\ b.flags[e] \cap {"INSERTED", "ACTIVE", "ACTIVE_LATER"} = {}

\* event_add_nolock_ with the absolute time at, or Forever for tv == NULL
event_add_nolock_(b, e, at) ==
  LET b1 == IF NeedsEvmapAdd(b, e) THEN event_queue_insert_inserted(b, e) ELSE b
      b2 == IF "TIMEOUT" \in b1.flags[e] THEN event_queue_remove_timeout(b1, e) ELSE b1
      b3 == IF "ACTIVE" \in b2.flags[e] /\ "TIMEOUT" \in ev_res[e]
            THEN event_queue_remove_active(b2, e) ELSE b2
  IN IF at = Forever THEN b1 ELSE event_queue_insert_timeout(b3, e, at)

\* Mutant: no wakeup for a new earliest timeout.
add_ignores_top(b, e, at, tnow) ==
  \/ NeedsEvmapAdd(b, e) /\ EvmapChanges(b, e)
  \/ at # Forever /\ \E f \in TimeHeap(b) : b.timeout[f] < tnow

\* the reasons event_add_nolock_ has to wake the loop; tnow is gettime()
AddNotifies(b, e, at, tnow) ==
  LET b1 == event_add_nolock_(b, e, at)
  IN \/ NeedsEvmapAdd(b, e) /\ EvmapChanges(b, e)
     \/ at # Forever /\ \A f \in TimeHeap(b1) \ {e} : at < b1.timeout[f]
     \/ at # Forever /\ \E f \in TimeHeap(b1) : b1.timeout[f] < tnow

\* event_del_nolock_, but for the wait at its end
event_del_nolock_(b, e) ==
  LET b1 == IF "TIMEOUT" \in b.flags[e] THEN event_queue_remove_timeout(b, e) ELSE b
      b2 == IF "ACTIVE" \in b1.flags[e] THEN event_queue_remove_active(b1, e)
            ELSE IF "ACTIVE_LATER" \in b1.flags[e]
            THEN event_queue_remove_active_later(b1, e) ELSE b1
      b3 == IF "INSERTED" \in b2.flags[e] THEN event_queue_remove_inserted(b2, e) ELSE b2
  IN IF "FINALIZING" \in b.flags[e] THEN b ELSE b3

DelNotifies(b, e) ==
  LET b1 == event_del_nolock_(b, e)
  IN /\ "FINALIZING" \notin b.flags[e] /\ "INSERTED" \in b.flags[e]
     /\ EvmapChanges(b, e) \/ (~event_haveevents(b1) /\ N_ACTIVE_CALLBACKS(b1) = 0)

\* Mutant: a callback on the later queue is activated without leaving that queue.
activate_keeps_later(b, c) ==
  IF b.flags[c] \cap {"FINALIZING", "ACTIVE"} # {} THEN b ELSE event_queue_insert_active(b, c)

event_callback_activate_nolock_(b, c) ==
  IF b.flags[c] \cap {"FINALIZING", "ACTIVE"} # {} THEN b
  ELSE IF "ACTIVE_LATER" \in b.flags[c]
  THEN event_queue_insert_active(event_queue_remove_active_later(b, c), c)
  ELSE event_queue_insert_active(b, c)

event_callback_cancel_nolock_(b, c) ==
  IF "FINALIZING" \in b.flags[c] THEN b
  ELSE IF "ACTIVE" \in b.flags[c] THEN event_queue_remove_active(b, c)
  ELSE IF "ACTIVE_LATER" \in b.flags[c] THEN event_queue_remove_active_later(b, c)
  ELSE b

SetFinalizing(b, c) == [b EXCEPT !.flags[c] = @ \cup {"FINALIZING"}]

------------------------------------------------------------------------------
(* Locking, time and notification.                                         *)

\* Loop holds th_base_lock in every other place
LockFree == pc \in {"stopped", "poll", "polled", "callback", "drain", "drained"}

\* gettime(): the cached time if there is one
gettime == IF tv_cache # Forever THEN tv_cache ELSE now

\* EVBASE_NEED_NOTIFY
EVBASE_NEED_NOTIFY(t) == pc # "stopped" /\ t # Loop

\* evthread_notify_base, called by t when why holds: at most one write is pending
evthread_notify_base(t, why) ==
  IF why /\ EVBASE_NEED_NOTIFY(t) /\ ~is_notify_pending
  THEN is_notify_pending' = TRUE /\ notify_fd' = TRUE
  ELSE UNCHANGED ntf

\* A callback of the application, which may call the API, is executing.
InUserCallback ==
  pc = "callback" /\ ~exec.fin /\ exec.cb \notin ExitEvents \cup {Notify}

MayCall(t, op) ==
  /\ op \in Ops /\ LockFree
  /\ IF t = Loop THEN pc = "stopped" \/ InUserCallback ELSE thr[t] = Idle

\* after its finalizer ran, or inside event_once, an event is not the application's
Usable(c) == c \notin ExitEvents /\ (c \in Events \cup Deferreds => finruns[c] = 0)

Rearm(c) == quiet' = [t \in Threads |-> quiet[t] \ {c}]

------------------------------------------------------------------------------
(* The API, called by any thread.                                          *)

\* event_add(e, tv); a call that returns -1 changes nothing
event_add(t, e, tv) ==
  LET at == IF tv = Forever THEN Forever ELSE gettime + tv IN
  /\ MayCall(t, "add") /\ Usable(e) /\ "FINALIZING" \notin q.flags[e]
  /\ q' = event_add_nolock_(q, e, at)
  /\ ev_io_timeout' = IF e \in Persist /\ tv # Forever
                      THEN [ev_io_timeout EXCEPT ![e] = tv] ELSE ev_io_timeout
  /\ evthread_notify_base(t, AddNotifies(q, e, at, gettime))
  /\ Rearm(e)
  /\ armed' = [armed EXCEPT ![e] = IF tv > 0 THEN "timed"
                                   ELSE IF tv = 0 \/ @ # "timed" THEN "untimed" ELSE @]
  /\ UNCHANGED <<ev_res, ctl, where, cbvars, clock, thr, finruns>>

\* Mutant: only event_del_block waits.
only_block_waits(t, e, blocking) == blocking = "BLOCK" /\ current_event = e /\ t # Loop

\* the condition of EVTHREAD_COND_WAIT in event_del_nolock_
MustWait(t, e, blocking) ==
  /\ blocking # "NOBLOCK" /\ current_event = e /\ t # Loop
  /\ blocking = "BLOCK" \/ e \notin EvFinalize

\* event_del, event_del_block, event_del_noblock up to the return or the wait
event_del(t, e, blocking) ==
  /\ MayCall(t, "del") /\ Usable(e) /\ "FINALIZING" \notin q.flags[e]
  /\ q' = event_del_nolock_(q, e)
  /\ evthread_notify_base(t, DelNotifies(q, e))
  /\ IF MustWait(t, e, blocking)
     THEN waiters' = waiters + 1 /\ thr' = [thr EXCEPT ![t] = [pc |-> "wait", ev |-> e]]
     ELSE UNCHANGED <<waiters, thr>>
  /\ quiet' = IF t # Loop /\ (blocking = "BLOCK" \/ (blocking = "AUTOBLOCK" /\ e \notin EvFinalize))
              THEN [quiet EXCEPT ![t] = @ \cup {e}] ELSE quiet
  /\ armed' = [armed EXCEPT ![e] = "no"]
  /\ UNCHANGED <<ev_res, ev_io_timeout, ctl, where, current_event, exec, clock, finruns>>

\* a spurious return of the condition variable; bounded, or a thread could delete an
\* executing event, wake up and delete it again any number of times
SpuriousWakeup(t) ==
  /\ Spurious /\ thr[t].pc = "wait" /\ waiters =< Cardinality(Threads)
  /\ thr' = [thr EXCEPT ![t].pc = "woken"]
  /\ UNCHANGED <<qvars, ctl, where, cbvars, ntf, clock, history>>

\* the waiting thread has the lock again, and event_del returns
event_del_return(t) ==
  /\ thr[t].pc = "woken" /\ LockFree
  /\ thr' = [thr EXCEPT ![t] = Idle]
  /\ UNCHANGED <<qvars, ctl, where, cbvars, ntf, clock, history>>

\* event_remove_timer
event_remove_timer(t, e) ==
  /\ MayCall(t, "remove_timer") /\ Usable(e) /\ "TIMEOUT" \in q.flags[e]
  /\ q' = event_queue_remove_timeout(q, e)
  /\ ev_io_timeout' = [ev_io_timeout EXCEPT ![e] = 0]
  /\ armed' = [armed EXCEPT ![e] = "no"]
  /\ UNCHANGED <<ev_res, ctl, where, cbvars, ntf, clock, thr, quiet, finruns>>

\* Mutant: a more urgent event does not interrupt the queue that is being run.
active_without_continue(b, e, res) ==
  /\ q' = event_callback_activate_nolock_(b, e)
  /\ ev_res' = [ev_res EXCEPT ![e] = {res}]
  /\ UNCHANGED event_continue

\* event_active_nolock_(e, res) by t, when the queues are b; ntf is the caller's
event_active_nolock_(b, e, res) ==
  /\ q' = event_callback_activate_nolock_(b, e)
  /\ ev_res' = IF "FINALIZING" \in b.flags[e] THEN ev_res
               ELSE [ev_res EXCEPT ![e] = IF b.flags[e] \cap {"ACTIVE", "ACTIVE_LATER"} = {}
                                          THEN {res} ELSE @ \cup {res}]
  /\ event_continue' = (event_continue
       \/ (b.flags[e] \cap {"FINALIZING", "ACTIVE"} = {} /\ Pri[e] < event_running_priority))

ActivateNotifies(b, c) == b.flags[c] \cap {"FINALIZING", "ACTIVE"} = {}

\* event_active
event_active(t, e, res) ==
  /\ MayCall(t, "active") /\ Usable(e) /\ "FINALIZING" \notin q.flags[e]
  /\ event_active_nolock_(q, e, res)
  /\ evthread_notify_base(t, ActivateNotifies(q, e))
  /\ Rearm(e)
  /\ UNCHANGED <<ev_io_timeout, event_break, event_gotterm, n_deferreds_queued,
                 where, cbvars, clock, thr, armed, finruns>>

\* event_active_later_
event_active_later_(t, e, res) ==
  /\ MayCall(t, "active_later") /\ Usable(e) /\ "FINALIZING" \notin q.flags[e]
  /\ ev_res' = [ev_res EXCEPT ![e] = IF q.flags[e] \cap {"ACTIVE", "ACTIVE_LATER"} = {}
                                     THEN {res} ELSE @ \cup {res}]
  /\ q' = event_queue_insert_active_later(q, e)
  /\ evthread_notify_base(t, q.flags[e] \cap {"ACTIVE", "ACTIVE_LATER"} = {})
  /\ Rearm(e)
  /\ UNCHANGED <<ev_io_timeout, ctl, where, cbvars, clock, thr, armed, finruns>>

\* Mutant: the limit on deferred callbacks is never applied.
schedule_without_limit(t, d) ==
  /\ MayCall(t, "schedule") /\ Usable(d)
  /\ q' = event_callback_activate_nolock_(q, d)
  /\ evthread_notify_base(t, ActivateNotifies(q, d))
  /\ UNCHANGED <<ev_res, ev_io_timeout, ctl, where, cbvars, clock, thr, history>>

\* event_deferred_cb_schedule_
event_deferred_cb_schedule_(t, d) ==
  /\ MayCall(t, "schedule") /\ Usable(d)
  /\ IF n_deferreds_queued > MaxDeferreds
     THEN /\ q' = event_queue_insert_active_later(q, d)
          /\ evthread_notify_base(t, q.flags[d] \cap {"ACTIVE", "ACTIVE_LATER"} = {})
          /\ UNCHANGED n_deferreds_queued
     ELSE /\ q' = event_callback_activate_nolock_(q, d)
          /\ evthread_notify_base(t, ActivateNotifies(q, d))
          /\ n_deferreds_queued' = n_deferreds_queued +
               (IF q.flags[d] \cap {"FINALIZING", "ACTIVE", "ACTIVE_LATER"} = {} THEN 1 ELSE 0)
  /\ UNCHANGED <<ev_res, ev_io_timeout, event_break, event_gotterm, event_continue,
                 where, cbvars, clock, thr, history>>

\* event_deferred_cb_cancel_ and event_callback_cancel_
event_deferred_cb_cancel_(t, d) ==
  /\ MayCall(t, "cancel") /\ Usable(d)
  /\ q' = event_callback_cancel_nolock_(q, d)
  /\ UNCHANGED <<ev_res, ev_io_timeout, ctl, where, cbvars, ntf, clock, thr, history>>

\* Mutant: EVLIST_FINALIZING is set before the event is activated.
finalize_flag_first(t, e) ==
  /\ MayCall(t, "finalize") /\ Usable(e) /\ "FINALIZING" \notin q.flags[e]
  /\ q' = event_callback_activate_nolock_(SetFinalizing(event_del_nolock_(q, e), e), e)
  /\ evthread_notify_base(t, TRUE)
  /\ Rearm(e)
  /\ armed' = [armed EXCEPT ![e] = "no"]
  /\ UNCHANGED <<ev_res, ev_io_timeout, ctl, where, cbvars, clock, thr, finruns>>

\* event_finalize and event_free_finalize; a second call changes nothing
event_finalize(t, e) ==
  LET b1 == event_del_nolock_(q, e) IN
  /\ MayCall(t, "finalize") /\ Usable(e) /\ "FINALIZING" \notin q.flags[e]
  /\ q' = SetFinalizing(event_callback_activate_nolock_(b1, e), e)
  /\ ev_res' = [ev_res EXCEPT ![e] = {}]
  /\ event_continue' = (event_continue \/ Pri[e] < event_running_priority)
  /\ evthread_notify_base(t, TRUE)
  /\ Rearm(e)
  /\ armed' = [armed EXCEPT ![e] = "no"]
  /\ UNCHANGED <<ev_io_timeout, event_break, event_gotterm, n_deferreds_queued,
                 where, cbvars, clock, thr, finruns>>

\* event_callback_finalize_ on a deferred callback
event_callback_finalize_(t, d) ==
  /\ MayCall(t, "finalize") /\ Usable(d) /\ "FINALIZING" \notin q.flags[d]
  /\ q' = SetFinalizing(event_callback_activate_nolock_(event_callback_cancel_nolock_(q, d), d), d)
  /\ evthread_notify_base(t, TRUE)
  /\ UNCHANGED <<ev_res, ev_io_timeout, ctl, where, cbvars, clock, thr, history>>

\* event_assign (or event_deferred_cb_init_) of memory that is not in use
event_assign(t, c) ==
  /\ MayCall(t, "assign") /\ q.flags[c] \cap ListFlags = {} /\ exec.cb # c
  /\ c \notin ExitEvents
  /\ q' = [q EXCEPT !.flags[c] = {}]
  /\ ev_res' = IF c \in Events THEN [ev_res EXCEPT ![c] = {}] ELSE ev_res
  /\ ev_io_timeout' = IF c \in Events THEN [ev_io_timeout EXCEPT ![c] = 0] ELSE ev_io_timeout
  /\ finruns' = [finruns EXCEPT ![c] = 0]
  /\ armed' = IF c \in Events THEN [armed EXCEPT ![c] = "no"] ELSE armed
  /\ UNCHANGED <<ctl, where, cbvars, ntf, clock, thr, quiet>>

\* event_base_loopbreak and event_base_loopcontinue
event_base_loopbreak(t) ==
  /\ MayCall(t, "break")
  /\ event_break' = TRUE /\ evthread_notify_base(t, TRUE)
  /\ UNCHANGED <<qvars, event_gotterm, event_continue, n_deferreds_queued,
                 where, cbvars, clock, thr, history>>

event_base_loopcontinue(t) ==
  /\ MayCall(t, "continue")
  /\ event_continue' = TRUE /\ evthread_notify_base(t, TRUE)
  /\ UNCHANGED <<qvars, event_break, event_gotterm, n_deferreds_queued,
                 where, cbvars, clock, thr, history>>

\* event_base_loopexit: an event_once whose callback is event_loopexit_cb
event_base_loopexit(t, x, tv) ==
  /\ MayCall(t, "exit") /\ q.flags[x] = {} /\ exec.cb # x
  /\ IF tv = Forever
     THEN /\ event_active_nolock_(q, x, "TIMEOUT")
          /\ evthread_notify_base(t, TRUE)
     ELSE /\ q' = event_add_nolock_(q, x, gettime + tv)
          /\ evthread_notify_base(t, AddNotifies(q, x, gettime + tv, gettime))
          /\ UNCHANGED <<ev_res, event_continue>>
  /\ UNCHANGED <<ev_io_timeout, event_break, event_gotterm, n_deferreds_queued,
                 where, cbvars, clock, thr, history>>

\* event_base_add_virtual_ and event_base_del_virtual_
event_base_add_virtual_(t) ==
  /\ MayCall(t, "virtual") /\ q.virtual < MaxVirtual
  /\ q' = [q EXCEPT !.virtual = @ + 1]
  /\ UNCHANGED <<ev_res, ev_io_timeout, ctl, where, cbvars, ntf, clock, thr, history>>

event_base_del_virtual_(t) ==
  /\ MayCall(t, "virtual") /\ q.virtual > 0
  /\ q' = [q EXCEPT !.virtual = @ - 1]
  /\ evthread_notify_base(t, q.virtual = 1)
  /\ UNCHANGED <<ev_res, ev_io_timeout, ctl, where, cbvars, clock, thr, history>>

------------------------------------------------------------------------------
(* event_base_loop, run by Loop.                                           *)

\* leave event_base_loop: running_loop = 0
LeaveLoop == pc' = "stopped" /\ tv_cache' = Forever

loop_start ==
  /\ pc = "stopped" /\ pc' = "iter"
  /\ event_break' = FALSE /\ event_gotterm' = FALSE /\ tv_cache' = Forever
  /\ UNCHANGED <<qvars, event_continue, n_deferreds_queued, deadline, lag, ready, todo,
                 event_running_priority, count, cbvars, ntf, now, thr, history>>

\* "If we have no events, we just exit"
NothingLeft(b) ==
  "NO_EXIT_ON_EMPTY" \notin LoopFlags /\ ~event_haveevents(b) /\ N_ACTIVE_CALLBACKS(b) = 0

MustExit == event_gotterm \/ event_break \/ NothingLeft(q)

loop_exit ==
  /\ pc = "iter" /\ MustExit /\ LeaveLoop
  /\ event_continue' = FALSE /\ n_deferreds_queued' = 0
  /\ UNCHANGED <<qvars, event_break, event_gotterm, deadline, lag, ready, todo,
                 event_running_priority, count, cbvars, ntf, now, thr, history>>

\* timeout_next: how long the backend may wait, relative to gettime()
timeout_next ==
  IF TimeHeap(q) = {} THEN Forever
  ELSE LET top == CHOOSE e \in Events : min_heap_top(q, e)
       IN IF q.timeout[top] =< gettime THEN 0 ELSE q.timeout[top] - gettime

loop_wait ==
  LET wait == IF N_ACTIVE_CALLBACKS(q) = 0 /\ "NONBLOCK" \notin LoopFlags
              THEN timeout_next ELSE 0 IN
  /\ pc = "iter" /\ ~MustExit /\ pc' = "later"
  /\ event_continue' = FALSE /\ n_deferreds_queued' = 0
  /\ deadline' = IF wait = Forever THEN Forever ELSE now + wait
  /\ lag' = now - gettime
  /\ UNCHANGED <<qvars, event_break, event_gotterm, ready, todo, event_running_priority,
                 count, cbvars, ntf, clock, thr, history>>

\* event_queue_make_later_events_active, one callback at a time
make_later_active ==
  /\ pc = "later" /\ q.later # <<>>
  /\ q' = event_queue_make_later_event_active(q)
  /\ n_deferreds_queued' = n_deferreds_queued
       + (IF Head(q.later) \in Deferreds /\ "FINALIZING" \notin q.flags[Head(q.later)] THEN 1 ELSE 0)
  /\ UNCHANGED <<ev_res, ev_io_timeout, event_break, event_gotterm, event_continue,
                 where, cbvars, ntf, clock, thr, history>>

\* evsel->dispatch releases the lock and waits
dispatch_enter ==
  /\ pc = "later" /\ q.later = <<>> /\ pc' = "poll" /\ tv_cache' = Forever
  /\ UNCHANGED <<qvars, ctl, deadline, lag, ready, todo, event_running_priority, count,
                 cbvars, ntf, now, thr, history>>

Registered(fd) == \E c \in IO \cup {Notify} : Fd[c] = fd /\ "INSERTED" \in q.flags[c]

LeavePoll(fds) ==
  /\ pc = "poll" /\ pc' = "polled"
  /\ ready' = fds \cup (IF notify_fd THEN {Fd[Notify]} ELSE {})
  /\ deadline' = Forever /\ lag' = 0
  /\ UNCHANGED <<qvars, ctl, todo, event_running_priority, count, cbvars, ntf, clock,
                 thr, history>>

\* epoll_wait returns because fds of the application are ready
wait_ready(fds) ==
  /\ fds # {} /\ \A fd \in fds : fd # Fd[Notify] /\ Registered(fd)
  /\ LeavePoll(fds)

\* epoll_wait returns because the notification fd is
wait_notified == notify_fd /\ LeavePoll({})

wait_timeout == ~notify_fd /\ deadline # Forever /\ now >= deadline /\ LeavePoll({})

\* EINTR: epoll_dispatch returns 0
wait_interrupted == "eintr" \in Ops /\ ~notify_fd /\ LeavePoll({})

\* the backend fails: event_base_loop returns -1
wait_error ==
  /\ "error" \in Ops /\ pc = "poll" /\ LeaveLoop
  /\ deadline' = Forever /\ lag' = 0
  /\ UNCHANGED <<qvars, ctl, ready, todo, event_running_priority, count, cbvars, ntf,
                 now, thr, history>>

\* the lock is taken again: evmap_io_active_ looks up the events of each fd now
dispatch_locked ==
  /\ pc = "polled" /\ pc' = "dispatch" /\ ready' = {}
  /\ todo' = {c \in IO \cup {Notify} : "INSERTED" \in q.flags[c] /\ Fd[c] \in ready}
  /\ UNCHANGED <<qvars, ctl, deadline, lag, event_running_priority, count, cbvars, ntf,
                 clock, thr, history>>

dispatch_activate(c) ==
  /\ pc = "dispatch" /\ c \in todo /\ todo' = todo \ {c}
  /\ event_active_nolock_(q, c, "READ")
  /\ UNCHANGED <<ev_io_timeout, event_break, event_gotterm, n_deferreds_queued, pc, deadline,
                 lag, ready, event_running_priority, count, cbvars, ntf, clock, thr, history>>

dispatch_leave ==
  /\ pc = "dispatch" /\ todo = {} /\ pc' = "timeouts" /\ tv_cache' = now
  /\ UNCHANGED <<qvars, ctl, deadline, lag, ready, todo, event_running_priority, count,
                 cbvars, ntf, now, thr, history>>

\* one turn of timeout_process
Due(e) == min_heap_top(q, e) /\ q.timeout[e] =< gettime

timeout_process(e) ==
  /\ pc = "timeouts" /\ Due(e)
  /\ event_active_nolock_(event_del_nolock_(q, e), e, "TIMEOUT")
  /\ UNCHANGED <<ev_io_timeout, event_break, event_gotterm, n_deferreds_queued, where, cbvars,
                 ntf, clock, thr, history>>

\* event_process_active starts its scan, or there is nothing active
timeouts_done ==
  /\ pc = "timeouts" /\ ~\E e \in Events : Due(e)
  /\ \/ /\ N_ACTIVE_CALLBACKS(q) > 0 /\ pc' = "scan" /\ event_running_priority' = 0
        /\ UNCHANGED tv_cache
     \/ /\ N_ACTIVE_CALLBACKS(q) = 0 /\ UNCHANGED event_running_priority
        /\ IF "NONBLOCK" \in LoopFlags THEN LeaveLoop ELSE pc' = "iter" /\ UNCHANGED tv_cache
  /\ UNCHANGED <<qvars, ctl, deadline, lag, ready, todo, count, cbvars, ntf, now, thr, history>>

\* event_process_active returned n
EndProcess(b, n) ==
  /\ event_running_priority' = -1 /\ count' = 0
  /\ IF "ONCE" \in LoopFlags /\ N_ACTIVE_CALLBACKS(b) = 0 /\ n # 0
     THEN LeaveLoop ELSE pc' = "iter" /\ UNCHANGED tv_cache

NonEmpty(i) == i \in Priorities /\ q.active[i] # <<>>

\* Mutant: the scan does not stop at nactivequeues.
scan_past_end ==
  /\ pc = "scan"
  /\ IF NonEmpty(event_running_priority)
     THEN pc' = "run" /\ UNCHANGED event_running_priority
     ELSE UNCHANGED pc /\ event_running_priority' = event_running_priority + 1
  /\ count' = 0
  /\ UNCHANGED <<qvars, ctl, deadline, lag, ready, todo, cbvars, ntf, clock, thr, history>>

\* the for loop of event_process_active, from event_running_priority on
scan_queues ==
  /\ pc = "scan"
  /\ IF \E i \in Priorities : i >= event_running_priority /\ NonEmpty(i)
     THEN /\ event_running_priority' = CHOOSE i \in Priorities :
               /\ i >= event_running_priority /\ NonEmpty(i)
               /\ \A j \in Priorities : j >= event_running_priority /\ NonEmpty(j) => i =< j
          /\ pc' = "run" /\ count' = 0 /\ UNCHANGED tv_cache
     ELSE EndProcess(q, 0)
  /\ UNCHANGED <<qvars, ctl, deadline, lag, ready, todo, cbvars, ntf, now, thr, history>>

\* event_process_active_single_queue returned count
QueueDone ==
  IF count > 0 THEN EndProcess(q, count)
  ELSE /\ pc' = "scan" /\ event_running_priority' = event_running_priority + 1
       /\ UNCHANGED <<count, tv_cache>>

queue_drained ==
  /\ pc = "run" /\ q.active[event_running_priority] = <<>> /\ QueueDone
  /\ UNCHANGED <<qvars, ctl, deadline, lag, ready, todo, cbvars, ntf, now, thr, history>>

\* take the first callback c off its queue, leaving b, and release the lock
StartCallback(c, b, fin) ==
  /\ pc = "run" /\ q.active[event_running_priority] # <<>>
  /\ c = Head(q.active[event_running_priority]) /\ fin = ("FINALIZING" \in q.flags[c])
  /\ q' = b
  /\ count' = IF count < MaxDispatch THEN count + Counted(c) ELSE count  \* capped
  /\ waiters' = 0 /\ current_event' = IF fin THEN None ELSE c
  /\ exec' = [cb |-> c, fin |-> fin]
  /\ pc' = IF c = Notify THEN "drain" ELSE "callback"
  /\ UNCHANGED <<ev_res, ctl, deadline, lag, ready, todo, event_running_priority, ntf, clock,
                 thr, quiet>>

\* EV_CLOSURE_EVENT: event_del_nolock_ first
run_event(e) ==
  /\ e \notin Persist /\ StartCallback(e, event_del_nolock_(q, e), FALSE)
  /\ armed' = [armed EXCEPT ![e] = "no"]
  /\ UNCHANGED <<ev_io_timeout, finruns>>

\* EV_CLOSURE_CB_SELF, and the persistent internal event
run_callback(c) ==
  /\ StartCallback(c, event_queue_remove_active(q, c), FALSE)
  /\ UNCHANGED <<ev_io_timeout, armed, finruns>>

\* event_persist_closure: the absolute time of the next timeout
NextRun(e) ==
  LET from == IF "TIMEOUT" \in ev_res[e] THEN q.timeout[e] ELSE gettime
      run_at == from + ev_io_timeout[e]
  IN IF run_at < gettime THEN gettime + ev_io_timeout[e] ELSE run_at

\* Mutant: only an event that timed out without data is scheduled again.
persist_drops_timer(e) ==
  LET b == event_queue_remove_active(q, e) IN
  /\ e \in Persist /\ UNCHANGED <<ev_io_timeout, armed, finruns>>
  /\ IF ev_io_timeout[e] # 0 /\ "TIMEOUT" \notin ev_res[e]
     THEN StartCallback(e, event_add_nolock_(b, e, NextRun(e)), FALSE)
     ELSE StartCallback(e, b, FALSE)

run_persist(e) ==
  LET b == event_queue_remove_active(q, e) IN
  /\ e \in Persist
  /\ \/ /\ ev_io_timeout[e] = 0 /\ StartCallback(e, b, FALSE)
        /\ UNCHANGED armed
     \/ /\ ev_io_timeout[e] # 0 /\ StartCallback(e, event_add_nolock_(b, e, NextRun(e)), FALSE)
        /\ armed' = [armed EXCEPT ![e] = IF @ = "refused" THEN "timed" ELSE @]
     \/ /\ ev_io_timeout[e] # 0 /\ AddMayFail /\ NeedsEvmapAdd(b, e)  \* event_add_nolock_ failed
        /\ StartCallback(e, b, FALSE)
        /\ armed' = [armed EXCEPT ![e] = IF @ = "timed" THEN "refused" ELSE @]
  /\ UNCHANGED <<ev_io_timeout, finruns>>

\* EV_CLOSURE_EVENT_FINALIZE(_FREE) and EV_CLOSURE_CB_FINALIZE
run_finalizer(c) ==
  /\ StartCallback(c, event_queue_remove_active(q, c), TRUE)
  /\ finruns' = [finruns EXCEPT ![c] = IF @ < 2 THEN @ + 1 ELSE @]
  /\ UNCHANGED <<ev_io_timeout, armed>>

\* evthread_notify_drain_eventfd: read without the lock, then clear the flag with it
drain_read ==
  /\ pc = "drain" /\ pc' = "drained" /\ notify_fd' = FALSE
  /\ UNCHANGED <<qvars, ctl, deadline, lag, ready, todo, event_running_priority, count, cbvars,
                 is_notify_pending, clock, thr, history>>

\* Mutant: is_notify_pending is not cleared.
drain_keeps_pending ==
  /\ pc = "drained" /\ pc' = "callback"
  /\ UNCHANGED <<qvars, ctl, deadline, lag, ready, todo, event_running_priority, count, cbvars,
                 ntf, clock, thr, history>>

drain_clear ==
  /\ pc = "drained" /\ pc' = "callback" /\ is_notify_pending' = FALSE
  /\ UNCHANGED <<qvars, ctl, deadline, lag, ready, todo, event_running_priority, count, cbvars,
                 notify_fd, clock, thr, history>>

MaxToProcess == IF event_running_priority < LimitAfter THEN count + 1 ELSE MaxDispatch

\* Mutant: the waiters are not signalled.
return_without_broadcast ==
  /\ pc = "callback" /\ pc' = "run"
  /\ current_event' = None /\ exec' = NoExec /\ waiters' = 0
  /\ UNCHANGED <<qvars, ctl, deadline, lag, ready, todo, event_running_priority, count, ntf,
                 clock, thr, history>>

\* the callback returned: the rest of the loop body of the single-queue function
callback_return ==
  /\ pc = "callback"
  /\ current_event' = None /\ exec' = NoExec /\ waiters' = 0
  /\ thr' = IF waiters = 0 THEN thr    \* else EVTHREAD_COND_BROADCAST
            ELSE [t \in Threads |-> IF thr[t].pc = "wait" THEN [thr[t] EXCEPT !.pc = "woken"]
                                    ELSE thr[t]]
  /\ event_gotterm' = (event_gotterm \/ exec.cb \in ExitEvents)    \* event_loopexit_cb
  /\ IF event_break THEN EndProcess(q, -1)
     ELSE IF count >= MaxToProcess THEN EndProcess(q, count)
     ELSE IF event_continue THEN QueueDone
     ELSE pc' = "run" /\ UNCHANGED <<event_running_priority, count, tv_cache>>
  /\ UNCHANGED <<qvars, event_break, event_continue, n_deferreds_queued, deadline, lag, ready,
                 todo, ntf, now, history>>

\* locked sections take no time
Tick ==
  /\ LockFree /\ now < MaxTime /\ now' = now + 1
  /\ UNCHANGED <<qvars, ctl, where, cbvars, ntf, tv_cache, thr, history>>

------------------------------------------------------------------------------
Init ==
  /\ q = [flags |-> [c \in Callbacks |-> IF c = Notify THEN {"INSERTED"} ELSE {}],
          active |-> [i \in Priorities |-> <<>>], later |-> <<>>,
          timeout |-> [e \in Events |-> 0],
          event_count |-> 0, event_count_active |-> 0, virtual |-> 0]
  /\ ev_res = [e \in Events \cup {Notify} |-> {}] /\ ev_io_timeout = [e \in Events |-> 0]
  /\ event_break = FALSE /\ event_gotterm = FALSE /\ event_continue = FALSE
  /\ n_deferreds_queued = 0
  /\ pc = "stopped" /\ deadline = Forever /\ lag = 0 /\ ready = {} /\ todo = {}
  /\ event_running_priority = -1 /\ count = 0
  /\ current_event = None /\ exec = NoExec /\ waiters = 0
  /\ is_notify_pending = FALSE /\ notify_fd = FALSE
  /\ now = 1 /\ tv_cache = Forever
  /\ thr = [t \in Threads |-> Idle]
  /\ quiet = [t \in Threads |-> {}] /\ armed = [e \in Events |-> "no"]
  /\ finruns = [c \in Events \cup Deferreds |-> 0]

\* one turn of Loop, apart from what the application's callbacks call and from the
\* ends of a wait that are up to the outside
LoopStep ==
  \/ loop_exit \/ loop_wait \/ make_later_active \/ dispatch_enter
  \/ wait_notified \/ wait_timeout
  \/ dispatch_locked \/ (\E c \in IO \cup {Notify} : dispatch_activate(c)) \/ dispatch_leave
  \/ (\E e \in Events : timeout_process(e)) \/ timeouts_done \/ scan_queues \/ queue_drained
  \/ (\E e \in Events : run_event(e)) \/ (\E c \in Deferreds \cup {Notify} : run_callback(c))
  \/ (\E e \in Events : run_persist(e)) \/ (\E c \in Events \cup Deferreds : run_finalizer(c))
  \/ drain_read \/ drain_clear \/ callback_return

ApiCall(t) ==
  \/ \E e \in Events : \/ \E tv \in Delays \cup {Forever} : event_add(t, e, tv)
                       \/ \E m \in {"AUTOBLOCK", "BLOCK", "NOBLOCK"} : event_del(t, e, m)
                       \/ event_remove_timer(t, e)
                       \/ \E res \in ActiveWith : event_active(t, e, res)
                       \/ \E res \in ActiveWith : event_active_later_(t, e, res)
                       \/ event_finalize(t, e)
  \/ \E d \in Deferreds : \/ event_deferred_cb_schedule_(t, d)
                          \/ event_deferred_cb_cancel_(t, d)
                          \/ event_callback_finalize_(t, d)
  \/ \E c \in Events \cup Deferreds : event_assign(t, c)
  \/ event_base_loopbreak(t) \/ event_base_loopcontinue(t)
  \/ \E x \in ExitEvents, tv \in Delays \cup {Forever} : event_base_loopexit(t, x, tv)
  \/ event_base_add_virtual_(t) \/ event_base_del_virtual_(t)

Next ==
  \/ LoopStep \/ (\E fds \in SUBSET Fds : wait_ready(fds))
  \/ loop_start \/ wait_interrupted \/ wait_error \/ Tick
  \/ \E t \in Threads \cup {Loop} : ApiCall(t)
  \/ \E t \in Threads : SpuriousWakeup(t) \/ event_del_return(t)

Spec == Init /\ [][Next]_vars

------------------------------------------------------------------------------
(* Properties.                                                             *)

InQueue(s, c) == \E i \in 1 .. Len(s) : s[i] = c
NoDuplicates(s) == \A i, j \in 1 .. Len(s) : s[i] = s[j] => i = j

BaseRec ==
  [flags : [Callbacks -> SUBSET Flags], active : [Priorities -> Seq(Callbacks)],
   later : Seq(Callbacks), timeout : [Events -> Nat],
   event_count : Int, event_count_active : Int, virtual : Nat]

\* Every variable has its type.
TypeOK ==
  /\ q \in BaseRec
  /\ ev_res \in [Events \cup {Notify} -> SUBSET Results]
  /\ ev_io_timeout \in [Events -> Delays \cup {0}]
  /\ event_break \in BOOLEAN /\ event_gotterm \in BOOLEAN /\ event_continue \in BOOLEAN
  /\ n_deferreds_queued \in Nat
  /\ pc \in {"stopped", "iter", "later", "poll", "polled", "dispatch", "timeouts", "scan",
             "run", "callback", "drain", "drained"}
  /\ deadline \in Int /\ lag \in Int /\ ready \subseteq Fds /\ todo \subseteq IO \cup {Notify}
  /\ event_running_priority \in -1 .. NPri /\ count \in Nat
  /\ current_event \in Callbacks \cup {None}
  /\ exec \in [cb : Callbacks \cup {None}, fin : BOOLEAN] /\ waiters \in Nat
  /\ is_notify_pending \in BOOLEAN /\ notify_fd \in BOOLEAN
  /\ now \in Nat /\ tv_cache \in Nat \cup {Forever}
  /\ thr \in [Threads -> [pc : {"idle", "wait", "woken"}, ev : Events \cup {None}]]
  /\ quiet \in [Threads -> SUBSET Events] /\ armed \in [Events -> {"no", "untimed", "timed", "refused"}]
  /\ finruns \in [Events \cup Deferreds -> 0 .. 2]

QueuesMatch(b) ==
  /\ \A i \in Priorities : NoDuplicates(b.active[i])
  /\ NoDuplicates(b.later)
  /\ \A c \in Callbacks, i \in Priorities :
       InQueue(b.active[i], c) <=> (i = Pri[c] /\ "ACTIVE" \in b.flags[c])
  /\ \A c \in Callbacks : InQueue(b.later, c) <=> "ACTIVE_LATER" \in b.flags[c]
  /\ \A c \in Callbacks : ~({"ACTIVE", "ACTIVE_LATER"} \subseteq b.flags[c])

\* The lists agree with the flags, as event_base_assert_ok_nolock_ demands: a callback
\* is on the active queue of its priority exactly when EVLIST_ACTIVE is set, on the
\* later queue exactly when EVLIST_ACTIVE_LATER is, never on both, never twice.
QueuesMatchFlags == QueuesMatch(q)

PendingPairs(b) == {p \in (Events \cup Deferreds) \X ListFlags : p[2] \in b.flags[p[1]]}
ActiveSet(b) == {c \in Callbacks : b.flags[c] \cap {"ACTIVE", "ACTIVE_LATER"} # {}}
CountsMatch(b) ==
  /\ b.event_count = Cardinality(PendingPairs(b))
  /\ b.event_count_active = Cardinality(ActiveSet(b))

\* event_count is the number of (non-internal callback, list) pairs and
\* event_count_active the number of active callbacks: the loop decides from the two
\* whether to wait and whether to exit.
CountsMatchFlags == CountsMatch(q)

Sleeping == pc = "poll" /\ (deadline = Forever \/ now < deadline)

\* While the loop sleeps in the backend with something to do - a callback active, a
\* loopbreak, or nothing left to wait for - the notification fd is readable, so the
\* sleep ends.
NoLostWakeup ==
  Sleeping /\ (\/ N_ACTIVE_CALLBACKS(q) > 0 \/ event_break
               \/ deadline = Forever /\ NothingLeft(q)) => notify_fd

\* The loop never sleeps past a scheduled timeout by more than the staleness of the
\* cached time that timeout_next used, also when another thread adds the timeout.
OversleepBounded ==
  Sleeping => \A e \in TimeHeap(q) :
    notify_fd \/ (deadline # Forever /\ deadline =< q.timeout[e] + lag)

\* Once a blocking event_del has returned in another thread, and until the event is
\* added or activated again, the event is on no list and its callback is not
\* executing: the argument of the callback may be freed.
DeletedEventsAreQuiet ==
  \A t \in Threads : \A e \in quiet[t] :
    /\ q.flags[e] \cap ListFlags = {}
    /\ exec = [cb |-> e, fin |-> FALSE] => thr[t] = [pc |-> "wait", ev |-> e]

\* A finalizer is queued or has run, never neither and never twice, and when it runs
\* nothing else in the base refers to the event.
FinalizerRunsOnceAndLast ==
  \A c \in Events \cup Deferreds :
    /\ finruns[c] =< 1
    /\ "FINALIZING" \in q.flags[c] =>
         q.flags[c] \cap ListFlags = IF finruns[c] = 0 THEN {"ACTIVE"} ELSE {}
    /\ finruns[c] > 0 => "FINALIZING" \in q.flags[c] /\ current_event # c /\ c \notin todo

\* A persistent event added with an interval and not deleted, a timer or an I/O event
\* with a timeout, is scheduled, or active so that event_persist_closure will schedule
\* it again (with {0, 0} there is no interval, and nothing is scheduled again), unless
\* that closure's event_add_nolock_ has failed, which nobody is told: that happens only
\* to an I/O event, and leaves it unregistered until it is added or runs again.
PersistentTimerStaysScheduled ==
  \A e \in Persist :
    /\ armed[e] = "timed" => q.flags[e] \cap {"TIMEOUT", "ACTIVE"} # {}
    /\ armed[e] = "refused" => e \in IO /\ "INSERTED" \notin q.flags[e]

\* A callback starts only when no event of a higher priority is active
\* (event_active_nolock_ sets event_continue for that).
PriorityRespected ==
  [][exec = NoExec /\ exec' # NoExec =>
       \A e \in Events : "ACTIVE" \in q.flags[e] => Pri[e] >= Pri[exec'.cb]]_vars

------------------------------------------------------------------------------
(* Properties that the documentation states and the code does not have.    *)

\* An I/O event that was added persistently and not deleted is registered for I/O, or
\* its callback is due or running.
AddedEventsStayRegistered ==
  \A e \in Persist \cap IO : armed[e] # "no" =>
    q.flags[e] \cap {"INSERTED", "ACTIVE", "ACTIVE_LATER"} # {} \/ exec.cb = e

------------------------------------------------------------------------------
(* Liveness.  Loop keeps taking its steps and callbacks return; nothing is *)
(* assumed of the other threads, of the clock, or of the descriptors but   *)
(* that of the notification, which is readable once it has been written.   *)

FairSpec == Spec /\ WF_vars(LoopStep)

\* While the loop runs, an active callback does not stay active forever without any
\* callback being run: no wakeup is lost and the scan finds it.
ActiveCallbacksGetRun ==
  (pc # "stopped" /\ N_ACTIVE_CALLBACKS(q) > 0)
     ~> (exec # NoExec \/ N_ACTIVE_CALLBACKS(q) = 0 \/ pc = "stopped")

\* A thread that waits in event_del is signalled.
DelWaitersAreSignalled ==
  \A t \in Threads : thr[t].pc = "wait" ~> thr[t].pc # "wait"

\* Deferred callbacks that keep scheduling each other cannot keep the loop from
\* looking at the backend: past MAX_DEFERREDS_QUEUED they go to the later queue.
DeferredsYield == []<>(pc \in {"poll", "stopped"})

=============================================================================
