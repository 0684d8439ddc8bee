-------------------------------- MODULE MCBev --------------------------------
(***************************************************************************)
(* The bufferevents for TLC: sockets (Bufferevent), pairs (BevPair),       *)
(* filters (BevFilter), TLS (BevOpenssl), IOCP (BevAsync) and the rate     *)
(* limits (RateLimit).  They share no state here, so a behaviour exercises *)
(* one of them, its `part', and the variables of the others stay empty.    *)
(***************************************************************************)
EXTENDS Bufferevent

CONSTANTS Parts, PairCap, PairMarks, PairCalls, FiltCap, FiltCalls, FiltMarks, FiltSetups,
          RateSetups, MaxAge, TlsCap, TlsCalls, TlsMarks,
          AsyncCap, AsyncCalls, AsyncMarks, PortThreads

VARIABLES part, end, finalizers, lock, left, fl, rl, tls, asy, port

P == INSTANCE BevPair
F == INSTANCE BevFilter
R == INSTANCE RateLimit
T == INSTANCE BevOpenssl
A == INSTANCE BevAsync

\* What ev_token_bucket_cfg_new and bufferevent_set_max_single_read accept; the
\* share of a group is at least one byte, as it is unless the program sets it to 0.
ASSUME RateAssumption ==
    /\ MaxAge \in Nat
    /\ \A s \in RateSetups :
          /\ IsFiniteSet(s.bevs) /\ s.dirs \subseteq {"R", "W"} /\ s.cfgs # {} /\ s.n \in Nat
          /\ \A c \in s.cfgs : c \in [rate : Nat \ {0}, max : Nat \ {0}] /\ c.rate <= c.max
          /\ s.share \in Nat \ {0} /\ s.single \in Nat \ {0} /\ s.over \in Nat

\* Lengths and watermarks are of type size_t.
ASSUME MarksAssumption ==
    Cap \in Nat /\ (\A m \in Marks : m[2] \in Nat) /\ TlsMarks \subseteq Nat

ReadMarks == {<<0, 0>>, <<1, 1>>, <<0, 2>>, <<2, 2>>}

\* What the program calls: plain and deferred, with timeouts, connecting.
Cases ==
    {[options |-> {}, calls |-> {"enable", "disable", "mark", "write", "read", "free"},
      n |-> 4, fd |-> TRUE],
     [options |-> {"DEFER"}, calls |-> {"enable", "disable", "mark", "write", "read", "trigger", "free"},
      n |-> 4, fd |-> TRUE],
     [options |-> {}, calls |-> {"enable", "disable", "timeouts", "hard", "write", "free"},
      n |-> 4, fd |-> TRUE],
     [options |-> {}, calls |-> {"enable", "disable", "connect", "setfd", "write", "free"},
      n |-> 4, fd |-> FALSE],
     [options |-> {"DEFER"}, calls |-> {"enable", "disable", "connect", "setfd", "write", "free"},
      n |-> 4, fd |-> FALSE]}

FilterMarks == {<<0, 0>>, <<1, 1>>}
FilterCases == [close : BOOLEAN, defer : BOOLEAN,
                calls : {{"write", "read", "enable", "flush", "free"},
                         {"write", "read", "enable", "disable", "free"}}]

\* One bufferevent with its own limit, two in a group, one with both.
RateCases ==
    {[bevs |-> {"a"}, dirs |-> {"R", "W"}, own |-> TRUE, grouped |-> FALSE, n |-> 4, share |-> 1,
      single |-> 2, over |-> 1, cfgs |-> {[rate |-> 1, max |-> 1], [rate |-> 1, max |-> 2]}],
     [bevs |-> {"a", "b"}, dirs |-> {"R"}, own |-> FALSE, grouped |-> TRUE, n |-> 5, share |-> 2,
      single |-> 2, over |-> 0, cfgs |-> {[rate |-> 1, max |-> 2], [rate |-> 2, max |-> 2]}],
     [bevs |-> {"a"}, dirs |-> {"R"}, own |-> TRUE, grouped |-> TRUE, n |-> 4, share |-> 1,
      single |-> 2, over |-> 0, cfgs |-> {[rate |-> 1, max |-> 2], [rate |-> 2, max |-> 2]}]}

None == <<>>
pair == <<end, finalizers, lock, left>>
async == <<asy, port>>
NoPair == end = None /\ finalizers = None /\ lock = 0 /\ left = 0
NoAsync == asy = None /\ port = None

SuiteInit ==
    /\ part \in Parts
    /\ IF part = "socket" THEN Init ELSE bev = None
    /\ IF part = "pair" THEN P!Init ELSE NoPair
    /\ IF part = "filter" THEN F!Init ELSE fl = None
    /\ IF part = "ratelimit" THEN R!Init ELSE rl = None
    /\ IF part = "tls" THEN T!Init ELSE tls = None
    /\ IF part = "async" THEN A!AsyncInit ELSE NoAsync

SuiteNext ==
    /\ UNCHANGED part
    /\ \/ part = "socket" /\ Next /\ UNCHANGED <<pair, fl, rl, tls, async>>
       \/ part = "pair" /\ P!Next /\ UNCHANGED <<bev, fl, rl, tls, async>>
       \/ part = "filter" /\ F!Next /\ UNCHANGED <<bev, pair, rl, tls, async>>
       \/ part = "ratelimit" /\ R!Next /\ UNCHANGED <<bev, pair, fl, tls, async>>
       \/ part = "tls" /\ T!Next /\ UNCHANGED <<bev, pair, fl, rl, async>>
       \/ part = "async" /\ A!AsyncNext /\ UNCHANGED <<bev, pair, fl, rl, tls>>

SuiteSpec == SuiteInit /\ [][SuiteNext]_<<part, bev, pair, fl, rl, tls, async>>

-----------------------------------------------------------------------------
\* A bufferevent, the bufferevent under a filter, the lock of a pair and the
\* IOCP port live exactly as long as a callback, a queue, an operation of the
\* system or the program refers to them, whenever bufferevent_free comes.
Lifetimes ==
    /\ part = "socket" => ReferencesCounted
    /\ part = "pair" => P!SharedLockOutlivesBoth
    /\ part = "filter" => F!UnderlyingOutlivesFilter
    /\ part = "async" => A!AsyncLifetimes

\* The events that the loop watches are the ones that the state of the socket
\* bufferevent or of the TLS engine calls for.
EventsFollowState ==
    /\ part = "socket" => WatchesWhatIsWanted
    /\ part = "tls" => T!TlsWatchesWhatItWants

\* Data and results that could move do not wait for a call nobody makes: the
\* results of a socket, the data of a pair, of a filter (input only where
\* callbacks are deferred), of the TLS engine and of an IOCP socket, and a
\* direction that was suspended for want of bandwidth.
NothingIsStuck ==
    /\ part = "socket" => ResultsAreDelivered
    /\ part = "pair" => P!PairsTalk
    /\ part = "filter" => F!FilteredOutputMoves /\ (fl.defer => F!FilteredInputMoves)
    /\ part = "tls" => T!TlsDrained
    /\ part = "async" => A!AsyncMoves
    /\ part = "ratelimit" => R!SuspensionsEnd

\* Empty buckets stop, no bucket exceeds its burst, nobody reads zero bytes.
BucketsGovern == part = "ratelimit" => R!BucketsGovern

\* "Schedule callback to avoid data gets stuck in underlying input buffer"
\* (bufferevent_filter.c): input below the filter that it has room for will be
\* fetched, also where the program is called directly.
InputIsNotStuckBelow == part = "filter" => F!FilteredInputMoves
=============================================================================
