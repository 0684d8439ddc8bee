------------------------------- MODULE MCKern -------------------------------
(***************************************************************************)
(* What carries the event loop, for TLC: the life of a base (BaseLife),    *)
(* signals (EvSignal), the backends other than epoll (Backends), listeners *)
(* of both kinds (Listener, ListenerIocp) and lock debugging (LockDebug).  *)
(* They share no state here: a behaviour exercises one, its `part'.        *)
(***************************************************************************)
EXTENDS Integers, FiniteSets

CONSTANTS Parts, SigBases, Signals, SigEvents, SigCalls, PipeCap, SigSetups, BkFds, BkCap, BkSteps, BkSetups,
          LnCalls, LnConns, LnSetups, AsIds, LiCalls, LkThreads, LkLocks, LkSteps,
          Members, LifeSetups, LifeCalls

\* new_accepting_socket makes N_SOCKETS_PER_LISTENER of them.
ASSUME SocketsAssumption == IsFiniteSet(AsIds)

\* "glob" is a global lock; "none" and 0 stand for no lock and no thread.
ASSUME LocksAssumption == "glob" \in LkLocks /\ "none" \notin LkLocks /\ 0 \notin LkThreads

VARIABLES part, sg, bk, ln, li, lk, bl

S == INSTANCE EvSignal
B == INSTANCE Backends
L == INSTANCE Listener
A == INSTANCE ListenerIocp
K == INSTANCE LockDebug
F == INSTANCE BaseLife

\* Two events for one signal, one of them not persistent; two bases with the
\* other signal.
SigCases == {[base |-> "b1", sig |-> 1, persist |-> TRUE], [base |-> "b1", sig |-> 1, persist |-> FALSE],
             [base |-> "b1", sig |-> 2, persist |-> TRUE], [base |-> "b2", sig |-> 2, persist |-> TRUE]}
SigCallSets == {{"add", "del", "loop", "free", "break"}, {"add", "del", "loop", "reinit"}}

\* Every backend, with and without failing calls; poll without locks as well.
BkCases == [kind : {"select", "poll", "devpoll", "evport", "kqueue", "win32"}, threads : {TRUE}, fail : BOOLEAN]
           \cup {[kind |-> "poll", threads |-> FALSE, fail |-> FALSE]}

LnCases == [threadsafe : BOOLEAN, disabled : BOOLEAN, nocb : BOOLEAN, errorcb : BOOLEAN, close_on_free : {TRUE}]
LnThreadsafe == {[threadsafe |-> TRUE, disabled |-> FALSE, nocb |-> FALSE, errorcb |-> FALSE, close_on_free |-> TRUE]}

\* Two objects with callbacks, and the bases that cannot be made.
TwoObjects == [g1 |-> <<"ev1", "deferred1">>, g2 |-> <<"ev2", "deferred2">>]
PlainConfig == [ops |-> <<[name |-> "epoll", features |-> {"ET"}], [name |-> "poll", features |-> {"FDS"}]>>,
                avoid |-> {}, require |-> {}, env |-> {}, ignore_env |-> FALSE, broken |-> {}, fails |-> "none",
                nolock |-> FALSE]
OddConfigs == {[PlainConfig EXCEPT !.avoid = {"epoll"}, !.require = {"ET"}],
               [PlainConfig EXCEPT !.broken = {1}, !.nolock = TRUE], [PlainConfig EXCEPT !.fails = "priority"],
               [PlainConfig EXCEPT !.fails = "notify"]}
LifeCases == {[debug |-> TRUE, cfg |-> PlainConfig, calls |-> {"group", "add", "active", "notify", "reinit", "once"}],
              [debug |-> TRUE, cfg |-> PlainConfig, calls |-> {"new", "finalize", "add", "active", "del", "once"}]}
             \cup [debug : BOOLEAN, cfg : OddConfigs, calls : {{}}]

Off == <<>>

SuiteInit ==
    /\ part \in Parts
    /\ IF part = "signal" THEN S!Init ELSE sg = Off
    /\ IF part = "backend" THEN B!Init ELSE bk = Off
    /\ IF part = "listener" THEN L!Init ELSE ln = Off
    /\ IF part = "iocp" THEN A!Init ELSE li = Off
    /\ IF part = "locks" THEN K!Init ELSE lk = Off
    /\ IF part = "life" THEN F!Init ELSE bl = Off

SuiteNext ==
    /\ UNCHANGED part
    /\ \/ part = "signal" /\ S!Next /\ UNCHANGED <<bk, ln, li, lk, bl>>
       \/ part = "backend" /\ B!Next /\ UNCHANGED <<sg, ln, li, lk, bl>>
       \/ part = "listener" /\ L!Next /\ UNCHANGED <<sg, bk, li, lk, bl>>
       \/ part = "iocp" /\ A!Next /\ UNCHANGED <<sg, bk, ln, lk, bl>>
       \/ part = "locks" /\ K!Next /\ UNCHANGED <<sg, bk, ln, li, bl>>
       \/ part = "life" /\ F!Next /\ UNCHANGED <<sg, bk, ln, li, lk>>

SuiteSpec == SuiteInit /\ [][SuiteNext]_<<part, sg, bk, ln, li, lk, bl>>

-----------------------------------------------------------------------------
\* What arrives is delivered: a signal reaches the events it was caught for, an
\* fd that is ready is reported by every backend, a connection is handed over or
\* still accepted, a wake-up is under way.
NothingLost ==
    /\ part = "signal" => S!SignalsReachEvents
    /\ part = "backend" => B!NothingMissed
    /\ part = "listener" => L!ConnectionsKept /\ L!EnabledListens
    /\ part = "iocp" => A!IocpSocketsGo
    /\ part = "life" => F!WakeupsKept

\* The outside follows the registrations: signal handlers, what a backend has
\* asked of the kernel, the events a base lists, the real lock under a
\* debugging one.
OutsideFollows ==
    /\ part = "signal" => S!HandlersFollowEvents
    /\ part = "backend" => B!WatchesWhatIsWanted
    /\ part = "locks" => K!LocksExclude
    /\ part = "life" => F!ForeachVisitsOnce

\* Nothing is freed too early, too late or twice, and no assertion of the code
\* fails: tables, references of listeners, holders of locks, finalizers.
OwnershipHolds ==
    /\ part = "backend" => B!TablesFit
    /\ part = "listener" => L!FreedInTime
    /\ part = "iocp" => A!IocpReferences
    /\ part = "locks" => K!DebugRecordsHolder
    /\ part = "life" => F!FreedWithFinalizers /\ F!LifeAssertions

\* "Indicates that the listener should be locked so it's safe to use from multiple
\* threadcs at once" (LEV_OPT_THREADSAFE, listener.h): a thread that calls a
\* function of the listener and the loop never wait for each other.
NoLockCycle == part = "listener" => L!NoLockCycle
=============================================================================
