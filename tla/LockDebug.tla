------------------------------ MODULE LockDebug -----------------------------
(***************************************************************************)
(* evthread.c with the callbacks of evthread_pthread.c: the lock functions *)
(* of the process, the wrappers of evthread_enable_lock_debugging, and the *)
(* global locks that both kinds of set-up fill in, in either order.  Taking *)
(* a debugging lock is two steps (the real mutex, then the record of who   *)
(* holds it) and so is releasing it.  The program sets up before it makes  *)
(* locks, unlocks what it holds, and takes a plain lock at most once.      *)
(***************************************************************************)
EXTENDS Integers, FiniteSets

CONSTANTS LkThreads,   \* threads
          LkLocks,     \* locks: "glob" is a global lock of libevent, "rec..." recursive, others plain
          LkSteps      \* bound: calls of set-up and lock operations

VARIABLE lk

Recursive(l) == l = "rec"
NoLock == [exists |-> FALSE, wrap |-> FALSE, count |-> 0, held_by |-> 0, real |-> FALSE, realrec |-> FALSE,
           owner |-> 0, n |-> 0]
NoPc == [at |-> "idle", l |-> "none"]

\* external: a mutex of pthreads.
Free_(k) == k.owner = 0
Takes(k, t) == [k EXCEPT !.owner = t, !.n = @ + 1]
Drops(k) == [k EXCEPT !.n = @ - 1, !.owner = IF k.n = 1 THEN 0 ELSE @]

-----------------------------------------------------------------------------
(* Making locks.                                                           *)

\* evthread_posix_lock_alloc
evthread_posix_lock_alloc(l) == [NoLock EXCEPT !.exists = TRUE, !.real = TRUE, !.realrec = Recursive(l)]

\* debug_lock_alloc: the real lock, if there is one, is recursive.
debug_lock_alloc(h, l) ==
    [NoLock EXCEPT !.exists = TRUE, !.wrap = TRUE, !.real = h.orig = "posix", !.realrec = h.orig = "posix"]

evthreadimpl_lock_alloc_(h, l) ==
    CASE h.fns = "null"  -> NoLock
      [] h.fns = "posix" -> evthread_posix_lock_alloc(l)
      [] h.fns = "debug" -> debug_lock_alloc(h, l)

\* Mutant: a debugging lock made before the lock functions stays without a real lock.
setup_global_lock_keeps(h, l, enable_locks) ==
    IF ~enable_locks THEN [h EXCEPT !.locks[l] = debug_lock_alloc(h, l)]
    ELSE IF ~h.debugging THEN [h EXCEPT !.locks[l] = evthread_posix_lock_alloc(l)]
    ELSE IF h.locks[l].exists THEN h ELSE [h EXCEPT !.locks[l] = debug_lock_alloc(h, l)]

\* The four cases of evthread_setup_global_lock_; the global locks are plain, so
\* that case 2 makes a new lock.
evthread_setup_global_lock_(h, l, enable_locks) ==
    LET k == h.locks[l]
        got(x, ok) == [h EXCEPT !.locks[l] = x, !.ok = @ /\ ok]
    IN CASE ~enable_locks /\ h.orig = "null"  -> got(debug_lock_alloc(h, l), ~k.exists)
         [] ~enable_locks /\ h.orig # "null"  -> got(debug_lock_alloc(h, l), k.exists)
         [] enable_locks /\ ~h.debugging      -> got(evthreadimpl_lock_alloc_(h, l), ~k.exists)
         [] OTHER -> IF ~k.exists THEN got(debug_lock_alloc(h, l), TRUE)
                     ELSE got([k EXCEPT !.real = TRUE, !.realrec = IF k.real THEN @ ELSE TRUE], k.wrap)

event_global_setup_locks_(h, enable_locks) == evthread_setup_global_lock_(h, "glob", enable_locks)

-----------------------------------------------------------------------------
(* Set-up, by the first thread.                                            *)

Quiet == \A t \in LkThreads : lk.pc[t] = NoPc
NoLocksYet == \A l \in LkLocks \ {"glob"} : ~lk.locks[l].exists
Setup == lk.steps < LkSteps /\ Quiet /\ NoLocksYet /\ ~lk.shut /\ \A l \in LkLocks : lk.locks[l].owner = 0 /\ lk.locks[l].count = 0
Stepped == [lk EXCEPT !.steps = @ + 1]

\* evthread_set_lock_callbacks: what is set already can only be set again.
evthread_set_lock_callbacks(h) ==
    LET target == IF h.debugging THEN h.orig ELSE h.fns
        set == IF h.debugging THEN [h EXCEPT !.orig = "posix"] ELSE [h EXCEPT !.fns = "posix"]
    IN IF target # "null" THEN h ELSE event_global_setup_locks_(set, TRUE)

\* evthread_set_condition_callbacks
evthread_set_condition_callbacks(h) ==
    LET target == IF h.debugging THEN h.origcond ELSE h.condwait
    IN IF target # "null" THEN h
       ELSE IF h.debugging THEN [h EXCEPT !.origcond = "posix"] ELSE [h EXCEPT !.condwait = "posix"]

evthread_use_pthreads ==
    Setup /\ lk' = [evthread_set_condition_callbacks(evthread_set_lock_callbacks(Stepped)) EXCEPT !.id = TRUE]

evthread_enable_lock_debugging ==
    /\ Setup
    /\ lk' = IF lk.debugging THEN Stepped
             ELSE event_global_setup_locks_([Stepped EXCEPT !.orig = lk.fns, !.fns = "debug",
                                                 !.origcond = lk.condwait, !.condwait = "debug",
                                                 !.debugging = TRUE], FALSE)

\* libevent_global_shutdown: the global lock goes, and with it lock debugging,
\* while the lock functions stay those of debugging.
libevent_global_shutdown ==
    /\ Setup
    /\ lk' = [Stepped EXCEPT !.shut = TRUE, !.ok = @ /\ lk.locks["glob"].count = 0, !.locks["glob"] = NoLock,
                             !.debugging = IF lk.locks["glob"].exists THEN FALSE ELSE @]

-----------------------------------------------------------------------------
(* Locking.  More than one thread runs only with lock functions.           *)

May(t) == lk.pc[t] = NoPc /\ (t = 1 \/ lk.fns = "posix" \/ lk.orig = "posix")

Alloc ==
    /\ lk.steps < LkSteps /\ Quiet /\ ~lk.shut
    /\ \E l \in LkLocks \ {"glob"} :
          /\ ~lk.locks[l].exists /\ lk.fns # "null"
          /\ lk' = [Stepped EXCEPT !.locks[l] = evthreadimpl_lock_alloc_(lk, l)]

\* EVLOCK_LOCK up to the real mutex (evthread_posix_lock): a plain lock is the
\* caller's for the first time.
evthreadimpl_lock_lock_(t, l) ==
    LET k == lk.locks[l] IN
    /\ lk.steps < LkSteps /\ May(t) /\ k.exists /\ (lk.held[t][l] = 0 \/ Recursive(l)) /\ lk.held[t][l] < 2
    /\ k.real => Free_(k) \/ (k.owner = t /\ k.realrec)
    /\ lk' = [Stepped EXCEPT !.locks[l] = IF k.real THEN Takes(k, t) ELSE k, !.held[t][l] = @ + 1,
                             !.pc[t] = IF k.wrap THEN [at |-> "mark", l |-> l] ELSE @]

evthread_debug_lock_mark_locked(h, l, me) ==
    LET k == h.locks[l]
        c == k.count + 1
    IN [h EXCEPT !.locks[l] = [k EXCEPT !.count = c, !.held_by = IF h.id THEN me ELSE @],
                 !.ok = /\ @ /\ (Recursive(l) \/ c = 1)
                        /\ h.id /\ c > 1 => k.held_by = me]

evthread_debug_lock_mark_unlocked(h, l, me) ==
    LET k == h.locks[l]
    IN [h EXCEPT !.locks[l] = [k EXCEPT !.count = @ - 1, !.held_by = IF h.id /\ k.count = 1 THEN 0 ELSE @],
                 !.ok = @ /\ (h.id => k.held_by = me) /\ k.count > 0]

Marks(t) ==
    /\ lk.pc[t].at = "mark"
    /\ lk' = evthread_debug_lock_mark_locked([lk EXCEPT !.pc[t] = NoPc], lk.pc[t].l, t)

\* Mutant: the real lock is given up before the holder is cleared.
unlock_real_first(t, l) ==
    LET k == lk.locks[l] IN
    /\ May(t) /\ lk.held[t][l] > 0
    /\ lk' = [lk EXCEPT !.held[t][l] = @ - 1, !.locks[l] = IF k.real THEN Drops(k) ELSE k,
                        !.pc[t] = IF k.wrap THEN [at |-> "mark", l |-> l] ELSE @]

\* EVLOCK_UNLOCK: debug_lock_unlock clears the holder first.
evthreadimpl_lock_unlock_(t, l) ==
    LET k == lk.locks[l] IN
    /\ May(t) /\ lk.held[t][l] > 0
    /\ lk' = IF k.wrap
             THEN evthread_debug_lock_mark_unlocked([lk EXCEPT !.pc[t] = [at |-> "drop", l |-> l]], l, t)
             ELSE [lk EXCEPT !.held[t][l] = @ - 1, !.locks[l] = IF k.real THEN Drops(k) ELSE k]

debug_lock_unlock(t) ==
    LET l == lk.pc[t].l
        k == lk.locks[l]
    IN /\ lk.pc[t].at = "drop"
       /\ lk' = [lk EXCEPT !.pc[t] = NoPc, !.held[t][l] = @ - 1, !.locks[l] = IF k.real THEN Drops(k) ELSE k]

\* A wait on a condition with a plain lock (debug_cond_wait, evthread_posix_cond_wait).
debug_cond_wait(t, l) ==
    /\ lk.steps < LkSteps /\ May(t) /\ lk.held[t][l] = 1 /\ ~Recursive(l)
    /\ IF lk.debugging THEN lk.origcond = "posix" ELSE lk.condwait = "posix"
    /\ LET k == lk.locks[l]
           h == [Stepped EXCEPT !.pc[t] = [at |-> "wait", l |-> l]]
           u == IF k.wrap THEN evthread_debug_lock_mark_unlocked(h, l, t) ELSE h
       IN lk' = [u EXCEPT !.locks[l] = Drops(@)]

\* Signalled, timed out or spuriously awake: the lock is taken again first.
Wakes(t) ==
    LET l == lk.pc[t].l
        k == lk.locks[l]
    IN /\ lk.pc[t].at = "wait" /\ Free_(k)
       /\ lk' = [lk EXCEPT !.locks[l] = Takes(k, t), !.pc[t] = IF k.wrap THEN [at |-> "mark", l |-> l] ELSE NoPc]

\* debug_lock_free; nobody uses the lock any more.
debug_lock_free ==
    /\ lk.steps < LkSteps
    /\ \E l \in LkLocks \ {"glob"} :
          /\ lk.locks[l].exists
          /\ \A t \in LkThreads : lk.held[t][l] = 0 /\ lk.pc[t].l # l
          /\ lk' = [Stepped EXCEPT !.locks[l] = NoLock, !.ok = @ /\ lk.locks[l].count = 0]

Init == lk = [fns |-> "null", orig |-> "null", condwait |-> "null", origcond |-> "null", debugging |-> FALSE,
              id |-> FALSE, shut |-> FALSE, ok |-> TRUE, steps |-> 0, locks |-> [l \in LkLocks |-> NoLock],
              held |-> [t \in LkThreads |-> [l \in LkLocks |-> 0]], pc |-> [t \in LkThreads |-> NoPc]]

Next == \/ evthread_use_pthreads \/ evthread_enable_lock_debugging \/ libevent_global_shutdown \/ Alloc
        \/ debug_lock_free
        \/ \E t \in LkThreads : Marks(t) \/ debug_lock_unlock(t) \/ Wakes(t)
        \/ \E t \in LkThreads, l \in LkLocks :
              evthreadimpl_lock_lock_(t, l) \/ evthreadimpl_lock_unlock_(t, l) \/ debug_cond_wait(t, l)

-----------------------------------------------------------------------------
\* A thread that is neither taking nor releasing lock l.
Inside(t, l) == lk.held[t][l] > 0 /\ lk.pc[t].l # l

\* With lock functions set, before or after lock debugging, two threads are never
\* inside the same lock, the global locks of libevent included.
LocksExclude == \A l \in LkLocks : \A t, u \in LkThreads : t # u => ~(Inside(t, l) /\ Inside(u, l))

\* The record of a debugging lock is that of the mutex whenever its holder is
\* neither taking nor releasing it, and no assertion of evthread.c fails in a
\* program that uses its locks properly.
DebugRecordsHolder ==
    /\ lk.ok
    /\ \A l \in LkLocks : \A t \in LkThreads :
          lk.locks[l].wrap /\ Inside(t, l) =>
             lk.locks[l].count = lk.held[t][l] /\ (lk.id => lk.locks[l].held_by = t)
=============================================================================
