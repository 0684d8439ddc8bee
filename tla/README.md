# A TLA+ verification of libevent 2.1.12

This directory holds TLA+ models of the C sources under
`src/libevent-2.1.12-stable/`, the TLC configurations that check them, and
TLAPS proofs. `PROJECT.json` maps every definition to the lines it models.
The other directories of the repository (`src/libevent_test`, `src/doc`) are
demonstration programs and notes that use the library; they are read as
evidence of intended use and not modelled.

## 1. The system

libevent runs callbacks when descriptors become ready, timeouts expire or
signals arrive. One `struct event_base` is run by one thread in
`event_base_loop()`; other threads may call the API on its events if locking
has been enabled (`evthread_use_pthreads()`).

| component | state | operations | what is hard | what makes it correct |
|---|---|---|---|---|
| event loop (`event.c`) | `evcb_flags`, active queues, later queue, timer heap, `event_count*`, `current_event`, `event_break/gotterm/continue`, `is_notify_pending` | `event_add/del/active/finalize`, deferred callbacks, loop control, `event_base_loop` | other threads while the loop sleeps or runs a callback; released locks; cached time | lists agree with flags and counters; no lost wakeup; `event_del` leaves the callback quiet; finalizers run once and last; priorities |
| fd/signal maps and changelist (`evmap.c`) | per-fd event list, `nread/nwrite/nclose`, pending changes | `evmap_io_add_/del_/active_`, `event_changelist_*` | batching of changes, fds closed and reused, fork | what the kernel watches is what is registered when `epoll_wait` is entered |
| epoll backend (`epoll.c`) | epoll set, timerfd, event array | `epoll_dispatch`, `epoll_apply_one_change` | errors that have to be turned into another operation, array growth | the operation table restores the wanted set in every error case |
| timer heap (`minheap-internal.h`) | array, `min_heap_idx` | push, erase, adjust, pop | index bookkeeping | heap order, and `min_heap_idx` is the position |
| common timeouts (`event.c`) | queue per duration | insert, schedule, callback | one heap entry for many events | queue sorted, the first entry scheduled |
| signals (`signal.c`, `evmap.c`) | old handlers, socketpair, `ncaught`, `ev_ncalls` | handler, `evsig_cb`, add, del, reinit | asynchronous handler, full pipe, `ncalls` loop, several bases, fork | no signal is lost, handlers are set exactly while an event needs them |
| evbuffer (`buffer.c`) | chain, `total_len`, freeze flags, callbacks | add, prepend, drain, move, reserve/commit, pullup, callbacks | chains shared between buffers, deferred callbacks | the content is the concatenation of what was added; lengths add up |
| bufferevents (`bufferevent*.c`) | buffers, enabled, suspended, refcount, deferred flags, connecting | read/write callbacks, enable, disable, connect, free, watermarks, flush; pairs, filters, TLS, IOCP | callbacks that free the object, locks released around callbacks, completions after the free | lifetimes follow references; the loop watches what the state calls for; no data is left behind |
| rate limits (`bufferevent_ratelim.c`) | buckets, group, suspended members | refill, decrement, suspend, unsuspend | group lock against bufferevent locks, ticks | bounded rate; nobody stays suspended |
| listeners (`listener.c`) | refcount, enabled, callback; accepting sockets (IOCP) | accept loop, enable, disable, set_cb, free | free inside the callback, calls of other threads, completions | no use after free, connections are kept or handed over |
| DNS (`evdns.c`) | requests in flight and waiting, name servers, counters; ports and their requests | transmit, timeout, reply, failure, probe, search, cancel, suspend; getaddrinfo; server ports | late, lost and duplicated replies, cancelling, shutdown | each request is answered exactly once, none is forgotten |
| HTTP (`http.c`) | connection and request state, retry count | connect, retry, read, write, fail, cancel; hold, answer in pieces | callbacks that free, retries, keep-alive, pipelining | each request ends exactly once, and moves while it has not |
| RPC, tagging (`evrpc.c`, `event_tagging.c`) | pool, paused requests | hooks, pause, resume, timeout; marshal, unmarshal | hooks that suspend, cut-off values | each request completes once; what is written is read back |
| locking (`evthread.c`) | lock functions, debug lock owner and count, global locks | set-up, lock, unlock, cond wait | set-up in any order, recursive locks and condition variables | owner and count agree with the real lock, global locks exclude |
| other backends (`select.c`, `poll.c`, `devpoll.c`, `evport.c`, `kqueue.c`, `win32select.c`) | descriptor tables, change lists | add, del, dispatch | tables copied and moved while another thread adds, one-shot reports, failing calls | what is watched is what is wanted, nothing ready is missed |
| base life (`event.c`) | chosen backend, once list, debug map | configuration, once, finalize_many, reinit, free | finalizers that finalize during the free, fork | nothing freed twice, every finalizer runs |
| texts and packets (`http.c`, `evdns.c`, `evutil.c`, `evutil_time.c`) | - | parsers, formatters, resolv.conf, addresses, clock ratchet | limits, cut-off input, values across packets | readers agree with writers and with the definition of the format |

Interactions: the API functions change the queues under `th_base_lock`; when
the caller is not the loop thread and the loop may be sleeping they write to
the notification descriptor (`evthread_notify_base`), which is itself an
internal event of the base. The maps and the backend translate "inserted"
into the kernel's interest set. Bufferevents, listeners, DNS and HTTP are
clients of the event API and use deferred callbacks to leave their locks
before calling the application.

## 2. Plan

The modules exist; what is left is to prove more of them. A group of components
gets one run wherever one state space can hold its questions, so that the whole
project can be rechecked in about an hour.

1. `EventBase` (with `MCEventBase`) and the proofs `EventBaseProofs`:
   the loop and the event API, on which everything rests.
2. `EvmapEpoll` (with `MCEvmapEpoll`): maps, changelist and epoll backend;
   it implements the abstract specification `Interest`. Proofs:
   `EvmapEpollProofs`.
3. `Timeouts` (with `MCTimeouts`): the heap array and the common timeout
   queues behind the set of timeouts that `EventBase` uses. Proofs:
   `TimeoutsProofs`.
4. `Evbuffer` (with `MCEvbuffer`): the chains, which implement the abstract
   specification `ByteQueue`.
5. `Evdns`, `Getaddrinfo`, `EvdnsServer` (with `MCDns`): the DNS client
   implements the abstract specification `Resolver`, on which `Getaddrinfo` is
   built; the server's ports. Proofs: `DnsProofs` (the last two, and what the
   client's operations do to lists and counts), `EvdnsProofs` (the client).
6. `Bufferevent`, `BevPair`, `BevFilter`, `BevOpenssl`, `BevAsync`, `RateLimit`
   (with `MCBev`). Proofs about sockets, TLS and rate limits: `BuffereventProofs`.
7. `HttpClient`, `HttpServer`, `Evrpc` (with `MCHttp`).
8. `EvSignal`, `Backends`, `Listener`, `ListenerIocp`, `LockDebug`, `BaseLife`
   (with `MCKern`): what carries the loop. Proofs about both kinds of listener and
   about locking: `KernProofs`.
9. `HttpText`, `DnsWire`, `Tagging`, `ResolvConf`, `Evutil` (with `MCCodecs`):
   pure algorithms against reference definitions.

Theorems that would come next, after those of section 5: the chains of an evbuffer
and the reference counts of bufferevents.

## 3. Modules and code

### `EventBase`

| model | code |
|---|---|
| `q.flags`, `q.active`, `q.later`, `q.timeout`, `q.event_count`, `q.event_count_active`, `q.virtual` | `evcb_flags`, `activequeues`, `active_later_queue`, `ev_timeout`, the counters of `struct event_base` |
| operators `event_queue_*`, `event_add_nolock_`, `event_del_nolock_`, `event_callback_*_nolock_` on the record `q` | the functions of the same names; they are functions of the queues so that several can be chained in one critical section and lemmas can be stated about each |
| `pc` | where the loop thread is: `stopped`, `iter` (top of the loop), `later` (`event_queue_make_later_events_active`), `poll`/`polled`/`dispatch` (the backend before, after its wait and in `evmap_io_active_`), `timeouts` (`timeout_process`), `scan`, `run`, `callback` (`event_process_active` and its single-queue function), `drain`, `drained` (inside `evthread_notify_drain_eventfd`) |
| `LockFree` | `th_base_lock` is not held by the loop: exactly while it waits, executes a callback or is outside the loop. An API call is one critical section, therefore one action, enabled when `LockFree`. |
| `thr` | a thread that waits in `EVTHREAD_COND_WAIT` inside `event_del_nolock_` |
| `is_notify_pending`, `notify_fd` | the flag and the eventfd counter (readable or not) |
| `now`, `tv_cache`, `deadline`, `lag` | clock, cached time, the moment `epoll_wait` gives up, staleness of the time it was computed from. Time passes only while the lock is free. |
| `quiet`, `armed`, `finruns` | history variables for the properties |

Events are I/O events (`EV_READ`) or pure timers, with or without
`EV_PERSIST` and `EV_FINALIZE`. `ExitEvents` are the `event_once` objects of
`event_base_loopexit`. The backend is abstracted to: report any subset of the
descriptors that are registered, or time out, or be interrupted, or fail.
`evmap_io_add_` may fail when `AddMayFail` holds.

Not in this module: signal events (`EvSignal`), common timeouts (`Timeouts`),
`event_reinit`, `event_base_once`, `event_base_free` and
`event_callback_finalize_many_` (`BaseLife`), `event_priority_set`,
`max_dispatch_time`, queries. `event_base_loop` is called by one thread only, as
the code demands.

`MCEventBase` gives the instances: `r`, a persistent or one-shot I/O event of
priority 0, `s`, an I/O event of priority 1 on another descriptor, `tm`, a
timer, `x`, a loopexit event, `d1`, `d2`, deferred callbacks of priorities 0
and 1.

### `EvmapEpoll` and `Interest`

| model | code |
|---|---|
| `inserted`, `nev` | the lists and `nread`, `nwrite`, `nclose` of `struct evmap_io` |
| `changes`, `idxplus1` | `struct event_changelist` and `event_changelist_fdinfo` |
| `epoll_op_table`, `Keep` | the 512 entries of `epoll_op_table`, as the rule they follow: the conditions that remain, and ADD, MOD, DEL or nothing |
| `epoll_apply_one_change` | the function, with its retries: MOD of a descriptor the kernel does not know becomes ADD, ADD of one it knows becomes MOD, DEL of one that is gone succeeds |
| `ep`, `fdtab`, `open`, `dup`, `close` | external: the kernel's epoll set, keyed by open file and descriptor number, from which a file disappears when its last descriptor is closed; the process's descriptor table |
| `phase` | the loop thread in a callback (`run`), in `epoll_apply_changes` (`apply`), in `epoll_wait` (`wait`), back but without the lock (`ready`), in the loop over the reports (`report`) |
| `evmap_reinit_` | `event_reinit` in a child: new epoll set, empty changelist, every descriptor registered again |

The application opens, duplicates and closes descriptors and reuses their
numbers at any moment; it deletes the events of a descriptor before it closes
it, which the documentation demands. The kernel does not change between the two
calls of a retry. The wait may return without a report at any time, which
stands for the timeout, the timerfd and `EINTR`.

`Interest` has three variables: what is registered, what the kernel watches,
whether the loop waits. A change is passed on at once or later, and the wait is
entered only when both agree. `KernelSpec` is `Interest!Spec` under the mapping
from lists and epoll set.

### `Timeouts`

| model | code |
|---|---|
| `b.p`, `b.idx` | the array of `struct min_heap` and `min_heap_idx` of the events |
| `min_heap_shift_up_`, `min_heap_shift_down_` (`HolesDown`, `SmallerChild`, `Fill`) | the loops, as the set of holes they fill on the way and the place where they stop; `Fill` writes the elements and their `min_heap_idx` |
| `Expired`, `FireFirst` | the loop of `timeout_process`: how many heap tops it takes, and what it leaves |
| `FirstTimers` | the state after `event_add` of each timer of `Timers` |
| `b.queue`, `duration` | the lists and durations of `common_timeout_queues`; `timeout_event` of queue `k` is the element `k` |
| `[t, q]` | a `struct timeval`: the time, and the queue number hidden in `tv_usec` |
| `Linked` | `min_heap_idx` shares its storage with the links of a common queue: its value is lost when the event is put into one |
| `pc` | `wait`, `timeouts` (`timeout_process`), `run`, `callback`, and `common`: the internal callback of a common queue before it has the lock |

The active queue has one priority here; `EventBase` has the others. The heap
starts with four timers, added in this order; that is a state every program
that adds four timers can be in, and it spares the run the steps to get there.

### `Evbuffer`

| model | code |
|---|---|
| `ch[c]` | a `struct evbuffer_chain`; `mem` says whose block `buffer` points into, `cells` is the block of the chain that owns one |
| `buf[b]` | a `struct evbuffer`; `chains` is the list, `last_with_datap` is `b` for `&buf->first` and `c` for `&c->next`, so that a pointer into a chain that was freed or moved shows |
| `evbuffer_add_(s, b, data)` and the like | the body of the function of the same name, as the state it leaves; the action `evbuffer_add` is the call of the application |
| `evbuffer_reserve_and_commit` | `evbuffer_reserve_space`, the application filling (part of) the extents, `evbuffer_commit_space` |
| `CanAlloc` | `malloc` fails when all chains are in use, which happens to every call that allocates |
| `told` | history: the size of the buffer that each callback was told last |
| `FaultyCalls` | calls with a known fault are made only when it names the fault |

A call runs under the lock of its buffers, so it is one step; a call that
changes nothing is a stuttering step. Bytes that no chain shows are forgotten
(`Forget`): nothing reads them. Lengths are far from `SIZE_MAX`.

`ByteQueue` is what `event2/buffer.h` promises: adding, removing, moving and
copying sequences of bytes. The refinement maps the list of chains to the
bytes they show.

### `Evdns`, `Resolver`, `Getaddrinfo`, `EvdnsServer`

| model | code |
|---|---|
| `base.inflight`, `base.waiting`, `req[x]` | `req_heads`, `req_waiting_head`, `struct request` kept with its handle |
| `base.servers`, their state and probes | the ring of `struct nameserver`, `failed_times`, `timedout`, `probe_request`, `requests_inflight` |
| `hnd[x]` | `struct evdns_request` with its search state |
| `base.deferred` | the replies on their way through `reply_schedule_callback` |
| the network (external) | up to `MaxNet` packets, lost, delayed, reordered; each server answers, errs, truncates or stays silent |

Every function of the API and every handler runs under the base's lock and is one
step; the functions it calls are operators from base to base. A timer is armed or
not and fires at any moment. `Scenarios` of `MCDns` choose what a behaviour has:
how many requests, domains, probes, socket failures and changes of configuration.
The random numbers behind transaction ids are a sequence that a step draws from
(`Draws`), so that a theorem says something of all of them and TLC of a few.
That the result of a probe is handled before the timer of the next one
fires is a guard of `nameserver_prod_callback`: the timer takes seconds,
the result is in the active queue.
`Resolver` has three variables: what is asked, what is settled and not yet told,
and who was told; `Evdns` implements it, `Getaddrinfo` is written over it, so that
the A and AAAA requests of one call are two requests of `Resolver`.
`EvdnsServer` has a port with its reference count, requests that are answered,
dropped or pending because the socket is full, and the close of the port.

### `Bufferevent`, `BevPair`, `BevFilter`, `BevOpenssl`, `BevAsync`, `RateLimit`

Buffers are their lengths; the reasons to suspend a direction are a set per
direction, as in `bev->read_suspended`. In `Bufferevent` a callback of the program is
a state of its own (`running`), in which the program and, with
`BEV_OPT_UNLOCK_CALLBACKS`, other threads make calls; `Return` continues behind
the call. `BevPair` has two ends that share a lock, `BevFilter` a null filter over
a socket, `BevOpenssl` the TLS machine over a socket with an external engine
whose every call may progress, want to read, want to write or fail, `BevAsync` the
overlapped operations and the threads of the completion port. `RateLimit` keeps
the age of a bucket instead of the time, and the sweeps over a group meet any
set of members whose locks are taken (`EVLOCK_TRY_LOCK_`).

### `HttpClient`, `HttpServer`, `Evrpc`

A handler runs to its end in the loop's thread and is one step; what the program
does in the callbacks it runs is part of it, chosen from the calls of the
scenario. Messages are sequences of tokens: first line, end of headers (with how
the body is delimited), pieces of body. The reading of the tokens themselves is in
`HttpText`. `Evrpc` takes an HTTP connection as the queue that `HttpClient` shows.

### `EvSignal`, `Backends`, `Listener`, `ListenerIocp`, `LockDebug`, `BaseLife`

`EvSignal` has the process-wide handlers, the pipe of each base with its capacity,
and the count of calls that `event_signal_closure` makes. `Backends` has one state
per kind of backend (its tables and the kernel object it talks to) and the
operations `add`, `del` and `dispatch` in two halves, before and after the system
call, with other threads between them; an operation yields the set of its
outcomes, failures included. `Listener` has the lock, the reference count and the
two threads that call; `ListenerIocp` the accepting sockets. `LockDebug` takes a
debugging lock in two steps, the real one and the record. `BaseLife` has the queues
of a base with the objects of `event_callback_finalize_many_` and walks them as
`event_base_free` does, running finalizers on the way.

### `HttpText`, `DnsWire`, `Tagging`, `ResolvConf`, `Evutil`

Pure algorithms, as operators on sequences of characters, bytes, words or
readings: a character stands for its class, a word that the code compares as a
whole is one character. `MCCodecs` grows an input piece by piece, so that every
input up to the bound of its part and every prefix of it is looked at, and
compares each reader with a definition of what it should return, and each
writer with its reader. URIs are in `HttpText`; the text side of `getaddrinfo` and
the monotonic clock are in `Evutil`. `HttpText`, `DnsWire` and `Evutil` declare
recursive operators, which only TLC's runs use.

## 4. Runs

| run | question | result |
|---|---|---|
| `base_threads` | two I/O events of different priority, a deferred callback, a loopexit event, virtual events, interrupted and failing waits; a second thread and the callbacks add, delete, activate, schedule, break | `TypeOK`, `QueuesMatchFlags`, `CountsMatchFlags`, `NoLostWakeup`, `DeletedEventsAreQuiet`, `PriorityRespected` hold |
| `base_timers` | persistent event with timeout, persistent timer, intervals of 0 and 1, a backend that may refuse a callback's or a renewing `event_add`, `EVLOOP_ONCE` | `OversleepBounded`, `PersistentTimerStaysScheduled` hold |
| `base_live` | finalizers against callbacks, deletion, activation and reuse of memory, with spurious wakeups; liveness of activation, of `event_del`'s wait and of the backend against deferred callbacks that schedule each other for ever | `FinalizerRunsOnceAndLast`, `ActiveCallbacksGetRun`, `DelWaitersAreSignalled`, `DeferredsYield` hold |
| `epoll` | two descriptors, closed, reused and duplicated, changes batched or direct, fork | `TypeOK`, `LayersAgree` (counters, changelist, kernel, activations), `KernelSpec` hold |
| `timeouts` | a heap of up to six timers, a common queue with a persistent and a one-shot event, late callbacks | `TypeOK`, `HeapAndQueuesAgree` (heap order and indices, lists and flags, intervals), `EarliestIsOnTop` hold |
| `evbuffer` | two buffers, three chains, any four calls, up to three of them about callbacks and freezing | `TypeOK`, `ChainsSound` (valid buffers, exact reference counts), `ViewsAreRight` (readers and reports), `IsByteQueue` hold |
| `dns` | requests, servers and a probe over an unreliable network, searches, cancelling, changes of configuration; getaddrinfo with its timeout; a server port | `Accounting`, `NoRequestIsForgotten`, `DownServersAreProbed`, `LookupsEndOnce`, `PortOutlivesRequests`, `KeepsPromise` hold |
| `bufferevent` | the six kinds of bufferevent code, one per behaviour | `Lifetimes`, `EventsFollowState`, `NothingIsStuck`, `BucketsGovern` hold |
| `http` | client, server and RPC, one per behaviour | `RequestsEnd`, `RequestsProgress`, `NoAssertionFails` hold |
| `kern` | signals, seven ways to run a backend, both listeners, lock debugging, the life of a base, one per behaviour | `NothingLost`, `OutsideFollows`, `OwnershipHolds` hold |
| `codecs` | every input of the parsers up to a bound, piece by piece | `RoundTrips`, `ReadsAsDefined` hold |
| `find_listener_deadlock` | a thread disables a thread-safe listener while its callback runs | `NoLockCycle` is violated: the thread waits in `event_del` with the listener's lock, which the callback needs |

`base_threads` leaves `event_base_loopcontinue` out (`base_live` has it) because
`PriorityRespected` does not survive it: called while only the internal
notification callback has run, it makes `event_process_active_single_queue`
return 0 with the rest of the urgent queue active, and `event_process_active`
goes on to a less urgent one, although `event2/event.h:1684` says that urgent
events are always processed first. Adding `"continue"` to `Ops` shows it.
`PriorityRespected` is about events: a deferred callback scheduled at an urgent
priority does not set `event_continue` and waits until the queue that is being
run is empty.

Bounds. One second thread is enough for every race the properties are about,
since all API calls are atomic under one lock and the only multi-step API
call, `event_del`, waits for the loop thread; the proofs cover any number.
Two events, two priorities and, in `base_live`, two deferred callbacks make
every queue operation happen with a neighbour in the list. `MaxDispatch = 2` and
`LimitAfter = 1` let both the limited and the unlimited branch run.
`MaxTime = 3` with `Delays = {1, 2}` lets a timeout expire, be renewed and
expire again, with a stale cached time in between; `base_timers` has `Delays = {0, 1}`,
since `{0, 0}` is an interval `event_add` takes. `count` is capped at
`MaxDispatch`, above which the code treats all values alike. A thread that
wakes up spuriously may repeat its call only a bounded number of times.

For the maps: two descriptors and two files are what reuse of a number and
`dup` need; three events, two of them on one descriptor with a common
condition, take a counter through 0, 1 and 2 (`MaxPerFd = 2`, the 16-bit limit
of the code), and an array of one entry that grows to two reaches the full
array. `epoll` has events of one triggering only (see below), and duplicates
descriptors only without the changelist, whose documentation forbids it.

For the timers: an erased element is replaced by one from another branch only
in a heap of six, which four timers and two events reach; four API calls
(`MaxCalls`) suffice to create a queue, fill it, and change it once more; three
units of time let a persistent event be late.

For the evbuffer: blocks of 2, 5 and 11 bytes, data of one and two bytes and
four calls fill chains, split data over two of them, leave empty chains behind,
share a block between buffers and exhaust the pool. Both buffers are alike, so
the run uses their symmetry. Calls that meet a fault listed below are made only
when `FaultyCalls` names it.

For the other runs: two requests, two servers and one probe are the fewest for
which requests compete, are moved between servers and are reassigned; a
`Scenarios`, `Setups` or `Cases` constant lists what the program of a behaviour
may call, so that each combination that matters (deferred or direct callbacks,
connecting, timeouts, retries, lingering close) has its own small state space
instead of one that holds them all; the number of calls per behaviour (three to
five) is enough to reach a state, disturb it and look at the result. The pipe of
`EvSignal` holds two signals so that it can be full, the tables of `Backends`
start with one entry so that they grow. `DnsWire` has room for a host name of four
characters (`HostNameMax`, 64 on Linux), so that names do not fit. In `codecs`, `Pieces` bounds each part by
what its grammar needs: an IPv6 text has eight groups, a DNS name of five bytes
can point back into itself, a tag has up to five bytes.

Where the code does not do what a comment, an assertion or the documentation says.
`find_listener_deadlock` is checked as a run. The following were found with the
same models; each says how to see it. The passing runs except exactly these cases.

* `event.c:2893`: `EVTHREAD_COND_WAIT` is called once, not in a loop; after a
  spurious wakeup `event_del` returns while the callback executes, against the
  comment at `event.c:2883`. (`base_threads` with `Spurious = TRUE`:
  `DeletedEventsAreQuiet`.)
* `event.c:2648`: `event_add` with a timeout, on a persistent I/O event whose
  timeout is being delivered, skips `evmap_io_add_` because the event is active;
  it then waits for its timeout only. (`AddedEventsStayRegistered` in `base_timers`.)
* `epoll.c:284`: with the changelist, a level-triggered event that replaces an
  edge-triggered one before the next dispatch is registered edge-triggered.
  (`EvET <- WriterEdgeTriggered` in `epoll`.)
* `buffer.c:1042`: `evbuffer_add_buffer_reference` to an empty buffer that has a
  preallocated chain frees the chain and works on it.
  (`FaultyCalls = {"reference_to_empty_chain"}`, `NoFreedChainUsed`.)
* `buffer.c:1399`: `evbuffer_pullup` writes behind the data of a shared,
  immutable chain, and two buffers change each other's bytes.
  (`FaultyCalls = {"pullup_shared"}`, six calls: `IsByteQueue`.) Also
  `out_of_memory_move`: `evbuffer_remove_buffer` ignores a failing `evbuffer_add`,
  and `evbuffer_add_buffer_reference` counts bytes that it did not add.
* `bufferevent_filter.c:471`: with direct callbacks, input stays in the underlying
  buffer although the filter has room. (`InputIsNotStuckBelow` in `bufferevent`.)
* `http.c:2676`: after the last retry has failed `retry_cnt` stays above 0, and a
  request made on the connection then never connects. (`QueuedRequestsConnect` in
  `http`.)
* `http.c:2686`: when a connection attempt fails before it starts,
  `evhttp_make_request` takes the request off the queue and returns -1, but does not
  free it, against `event2/http.h:781`; the other callers of
  `evhttp_connection_connect_` ignore the -1, and requests then wait on a connection
  that does not connect (`down` in `HttpClient`, excused by `RequestsMove`).
* `evrpc.c:742`: the timer of an RPC is armed before `evhttp_make_request`; when that
  fails the wrapper is freed and the timer is not deleted (`uaf` in `Evrpc`, after
  which nothing is claimed of the RPC).
* `listener.c:574`: when `AcceptEx` succeeds at once the callback is scheduled although
  the port reports the completion too: the callback may free the socket before, or run
  once more without a connection. `start_accepting` then also takes the listener's lock
  under that of the socket, the reverse of the usual order (not modelled).

Smaller ones that the models have as ghosts or exceptions, or that were met on
the way: a persistent event added with `{0, 0}` is not scheduled again
(`event.c:1572`), and one whose `event_add_nolock_` fails in
`event_persist_closure` (`event.c:1610`) is left unregistered (`"refused"`), which
nobody is told; a pair sets its read timeout again after the watermark has suspended
reading (`bufferevent_pair.c:162`); `decode_tag_internal` looks at a sixth byte behind
the five it has pulled up before it refuses; `evtag_marshal_timeval` keeps 32 bits of
the seconds; after `event_del`, `event_add(ev, NULL)` on a persistent event brings its
old timeout back (`event.c:1572`, against `event2/event.h:1423`); a connection that
is reset does not activate an event for `EV_CLOSED` alone (`epoll.c`, against
`event2/event.h:1108`); `event_base_once` keeps the base's lock when `event_add`
fails (`locked`); `event_reinit` keeps `is_notify_pending` (`lostnote`); evport
keeps the index of a descriptor whose last event goes while the loop has no lock
(`stale`); a DNS search that goes on to its next domain at the limit of requests
does not start the one that waits (`SearchStalls`), and may get an id that the pump
in between gives away too (`IdsDiffer`); with `EVDNS_BASE_DISABLE_WHEN_INACTIVE` a
server whose socket was full when its last request ended stays `choked` while its
event is deleted, and the next request it gets is neither sent nor timed
(`evdns.c:2270`; with `DisableWhenInactive = TRUE` TLC finds
`NoRequestIsForgotten` of `dns` violated in five steps, so `dns` has `FALSE`);
cancelling the first request of
an HTTP connection while `retry_ev` is pending runs into
an assertion of `evhttp_request_dispatch` (`stale` in `HttpClient`); `evrpc_request_timeout`
fails the first request of the connection, which need not be the one that timed
out; a pair restarts the write timer of the wrong end (`bufferevent_pair.c`, against
`event2/bufferevent.h:548`); `prefix_suffix_match` never matches a pattern that
ends in `*`; whether a header block near the limit is accepted depends on how it
is cut into packets; a tag of 0x166 is written as `E6 02`, not as the comment in
`event_tagging.c` says; `dnsname_to_labels` writes its last byte without a check of
the room; `bufferevent_rate_limit_group_set_min_share` accepts 0
(`bufferevent_ratelim.c:703`), with which a member may be allowed 0 bytes while its
group is not suspended, so that `bufferevent_readcb` takes the empty read for the
end of the stream; the callback with `EVBUFFER_CB_NODEFER` of a deferred buffer is told
again what the deferred ones have not seen.

Deadlock is checked in the runs of the loop, the maps and the timers, which never
stop. In the others the program makes a bounded number of calls, frees its objects
and may end, so a state without a successor is no fault there; what must still
happen in a state is said by `NoRequestIsForgotten`, `NothingIsStuck`,
`RequestsProgress` and `NothingLost`. `EVLOOP_NONBLOCK` is in the model of the loop,
but no run has it set.

Fairness. `FairSpec` asks weak fairness of `LoopStep`: the loop thread is
scheduled, callbacks return, and a wait in the backend ends when the notification
descriptor is readable (`wait_notified`) or its deadline has passed
(`wait_timeout`). Nothing is assumed of other threads, of the clock, or of other
descriptors: they may stay idle for ever (`wait_ready` is no step of `LoopStep`), so
only a notification ends a wait whose timeout is far. Without "callbacks return" no event loop has
any liveness; libevent's documentation makes the same demand of callbacks.

## 5. Proofs

Every theorem holds for all values of the constants that satisfy the module's
named assumption; what it assumes beyond that is in the table and explained below.

| module | theorem | says | assuming also |
|---|---|---|---|
| `EventBaseProofs` | `TypeCorrect` | `Spec => []TypeOK` | |
| | `QueuesAreConsistent` | `Spec => []QueuesMatchFlags` | |
| | `CountsAreConsistent` | `Spec => []CountsMatchFlags` | |
| | `NoWakeupIsLost` | `Spec => []NoLostWakeup` | |
| | `SleepIsBounded` | `Spec => []OversleepBounded` | |
| | `DeletedEventsStayQuiet` | `Spec => []DeletedEventsAreQuiet` | no spurious wakeups |
| | `FinalizersRunOnceAndLast` | `Spec => []FinalizerRunsOnceAndLast` | |
| | `PersistentTimersStayScheduled` | `Spec => []PersistentTimerStaysScheduled` | |
| | `UrgentEventsGoFirst` | `Spec => PriorityRespected` | no `event_base_loopcontinue` |
| `EvmapEpollProofs` | `MapIsTyped` | `Spec => []TypeOK` | |
| | `LayersAlwaysAgree` | `Spec => []LayersAgree` | `OneTriggerPerFd` |
| | `ImplementsInterest` | `Spec => KernelSpec` | `OneTriggerPerFd`, `Watched` |
| `TimeoutsProofs` | `TimersAreTyped` | `Spec => []TypeOK` | |
| | `HeapAndQueuesAlwaysAgree` | `Spec => []HeapAndQueuesAgree` | |
| | `EarliestIsAlwaysOnTop` | `Spec => []EarliestIsOnTop` | |
| `DnsProofs` | `PortsOutliveRequests` | `SuiteSpec => []PortOutlivesRequests` | finitely many requests |
| | `LookupsAlwaysEndOnce` | `SuiteSpec => []LookupsEndOnce` | families A and AAAA |
| `EvdnsProofs` | `ClientIsSound` | `Spec => []IInv` | |
| | `AccountsAgree` | `Spec => []Accounting` | |
| | `DownServersStayProbed` | `Spec => []DownServersAreProbed` | |
| | `RequestsAreNotForgotten` | `Spec => []NoRequestIsForgotten` | `~DisableWhenInactive` |
| | `ClientKeepsPromise` | `Spec => KeepsPromise` (refines `Resolver`) | |
| `BuffereventProofs` | `EventsAlwaysFollowState` | `SuiteSpec => []EventsFollowState` | |
| | `BucketsAlwaysGovern` | `SuiteSpec => []BucketsGovern` | |
| | `SuspendedAreRemembered` | the clause of `NothingIsStuck` about suspensions | |
| `KernProofs` | `ListenersAreSound` | `FreedInTime`, `ConnectionsKept`, `EnabledListens` of `Listener` | |
| | `IocpListenersAreSound` | `IocpReferences`, `IocpSocketsGo` of `ListenerIocp` | finitely many sockets |
| | `LocksAreSound` | `LocksExclude`, `DebugRecordsHolder` of `LockDebug` | `"glob"` is a lock |
| | `ListenersAndLocksHold` | `NothingLost`, `OutsideFollows`, `OwnershipHolds` in these parts | |

`EventBaseProofs`. The inductive invariant `IInv` is the conjunction of the first
three properties with
`PriorityInRange`, which says that `event_running_priority` is a priority
wherever it indexes the active queues; without it the type of the queues
cannot be kept. The argument goes bottom up: what removal and insertion do to
a list without duplicates; what setting or clearing one flag does to the two
cardinalities; each primitive, then each operation on one callback keeps
`BaseOK` and changes the flags in a stated way; each action; the step lemma.

For the notification protocol neither property is inductive. `WInv` adds two
things: a pending notification
can be read, except between the read and the clearing of `is_notify_pending`
(otherwise `evthread_notify_base` would suppress a write nobody is going to
see), and a loop that has computed its wait (`later`) has, like one that
sleeps (`poll`), nothing to do and no timeout before its deadline. Each API
call either keeps that or has a reason to notify; where the code does not
notify (`event_remove_timer`, `event_deferred_cb_cancel_`, the deletion of a
pure timer) the lemma says why it need not. The proof uses `IInv`: the loop
decides from the counters, the argument is about the lists.

For the callbacks `CInv` is added to `IInv`. `ExecInv` ties `current_event`, the callback
that executes and the position of the loop together; `FinalInv` says of every
callback that one whose finalizer is due is in an active queue and nowhere else,
and that a finalizer which has run has left nothing behind, not even
`current_event`; `TimedInv` says that a persistent event added with a timeout keeps
its interval and is in the heap or active, or was refused by the backend when it was renewed. Over these stand
`QuietInv`, in which a deleted event may still be executing only while the deleting
thread waits for it, and `UrgentInv`, in which `event_continue` is the news of a
more urgent event that the scan of the queues has not seen. `QuietInv` needs
condition variables without spurious wakeups (`event.c:2893`), `UrgentInv` a program
that does not call `event_base_loopcontinue`; section 4 shows that neither is idle.

`EvmapEpollProofs`. `MapInv` has the counters, the lists and the index of the
changelist; it needs no hypothesis. `KernelInv` is about one descriptor at a time
(`FdInv`): what is wanted has been passed to the kernel, or the change that waits
leads there (`Leads`) whatever happened to the descriptor since: the kernel may have
lost it by a close, and a change must then amount to the whole of what is wanted,
which is why every condition in `old` has an entry of its own. With the changelist
this holds only if the events of a descriptor are triggered alike
(`OneTriggerPerFd`; otherwise `epoll.c:284`, section 4). The refinement of
`Interest` follows, with one more hypothesis, `Watched`: with the changelist a file
that `epoll_ctl` refuses with `EPERM` is only refused when the batch is applied,
after `event_add` has succeeded. Each action maps to an action of `Interest` or to
a stutter.

`TimeoutsProofs`. The heap loops are described by the holes they fill; that these
lie on a path, that the path ends where the code stops, that the heap is again a
heap and the back pointers a bijection is shown by induction on the position
(`StrongInduction`, where the property is given as the set of the numbers that have
it), once upwards and once downwards. `TimersInv` adds the lists: a timeout is in
exactly the list it names, queues are sorted. `Served` says of a queue that its
internal event is in the heap not later than its first event, or is active, or is
running. `min_heap_top_` is then the least of all timeouts by another induction
along the parents.

`DnsProofs`. For a server's port: the reference count is one for the user plus one
for each request that is out, and the pending ring holds exactly the requests that
the socket did not take; the loop of `server_port_flush` is a walk over the ring,
by induction. For `evdns_getaddrinfo`: each of the two subrequests is out, settled
or told, once (`SubrequestsOnce`), and the state of the shared data follows from
which of them are (`CallbackState`). Nothing is said once the resolver was shut down
without failing its requests (`dangling`).

`EvdnsProofs`. The client's functions are operators from base to base, and a handler
calls several, so the invariant has holes: `Good(b, V, Z, X)` says that `b` is as it
should be except that the requests of `V` have their result and have not ended yet,
that the servers of `Z` are about to forget their probes, and that the requests of `X`
are about to be sent. Each function has a lemma saying which holes it needs, leaves and
closes; a handler is a chain of these from `Good(b, {}, {}, {})` to itself. `Good` has
these parts. `Core`: the lists, the counts kept beside them (`ninflight`, `nwaiting`,
`good`, `requests_inflight`) and the ids; `RefsOK`: a list of search domains counts
its holders; `Pend`: a handle has one result at most, just when `pending_cb` is set;
`Rest`: a server and its probe name each other; `FedOK`: a request waits only behind
one in flight, or behind a search that went on; `Watched` and `DownOK`: each request in
flight has something that wakes it, each server that is down something that probes it.
`IInv` says that the base is `Good`, or freed and empty (`Gone`), or that a server was
used that is freed already (`dangling`: the result of its probe was still queued when
the servers were cleared, or a request was handed to it while it was being freed), and
there the model stops. Loops of the code (resending, clearing all servers, ending all
requests) are inductions on the number of rounds. `Servers # {}` is assumed because a
base that finds no server adds 127.0.0.1 (`evdns.c:3359`, `evdns.c:3713`).
`RequestsAreNotForgotten` needs `~DisableWhenInactive` because of `evdns.c:2270`
(section 4).

The refinement of `Resolver` asks more of the same lemmas. `Follows(b, c)` says that
from `b` to `c` the queue of results only grows, and that a user's request that is gone
has its result in it. Most steps are of this kind, which is closed under composition;
the others ask, take the first result from the queue, or free the base without telling
anybody (`PromiseStep`). `UserResults`, which leaves out the results of probes, is a
recursive function: that it grows behind what it had when the queue grows, and loses
its head when the queue does, is shown by induction on the position. A step of `Follows`
is then a `Settle` of `Resolver` or a stutter: no request gets two results (`Pend`).

`BuffereventProofs`. For a socket (`BevSound`), what is right about the events
(`Events`), about the watermark and the lookup that suspend reading and writing, and
about the connection attempt (`Core`) is kept by every function, wherever it is called
from; only that ev_write is wanted (`WritesWanted`) fails for a while: from the moment
`bufferevent_writecb` clears `connecting` and reports the connection until the callback
returns, when `AfterConnected` deletes the event. In between no attempt is under way
and the descriptor is there, which the clause about `running` says. `SetFd` is not modelled
in that window, where the deletion would meet the event of the new descriptor. A lookup
and an attempt exclude each other (`Connects`), so `bufferevent_socket_connect` never finds one under way. For TLS (`TlsSound`), a
write that waits for reading has something to write (`TlsCalm`), so an empty buffer is
never announced to the wrong event; each blocked direction of the engine is carried
by lemmas about `do_read` and `do_write`, from which `consider_reading` and
`consider_writing` are composed. `MarksAssumption` says that lengths and watermarks
are natural numbers.

For the rate limits: a bufferevent whose own bucket is empty is suspended and
has its refill event pending; a direction of the group whose bucket is empty is
suspended; a member that is suspended for the group is in a suspended direction or
on the list of a sweep that has not met it yet (`RateOK`). Buckets do not exceed
their burst because `ev_token_bucket_update_` divides before it multiplies. The
assumption `RateAssumption` asks of a configuration what `ev_token_bucket_cfg_new`
checks, and of the minimal share that it is not 0 (section 4).

`KernProofs`. These are the parts of `MCKern` one by one: its constants
are arbitrary, its specification `SuiteSpec` too, and each theorem is about the
behaviours of one part.
A listener (`LnSound`): the lock belongs to the loop's thread exactly while it
accepts and to the other thread exactly while that waits in `event_del`; the
reference count is one for the program until it frees, plus one while a callback runs;
so the last reference goes when neither is left, and what is enabled and not yet freed
is in the loop. A listener on an IOCP port (`LiInv`, `LiEnds`): a socket has one operation, a
scheduled callback or a running one, never two, and none once it is freed
(`SockCalm`), except that after an `AcceptEx` that succeeded at once the completion
and the callback may both be to come; the count is then a sum over the sockets (`LiSafe`), which is where
`SocketsAssumption` is needed. After `evconnlistener_free` every socket that is
left is marked, out of use and has something to come (`Ending`). Both properties say
nothing once a socket was used twice (`twice`): freed by its callback while the
completion of an `AcceptEx` that had succeeded at once was to come, or started
while it was busy, as
`evconnlistener_enable` can do after `evconnlistener_disable` because
`start_accepting` does not look whether the last operation is over
(`listener.c:715`), and `IocpSocketsGo` nothing
when the free met a socket without operation and callback (`idle`), which
`iocp_listener_disable_impl` passes over.
Locks (`LkSound`): `LockSound` looks at one lock with the depths and the positions of all
threads as two functions. Whoever has taken the mutex owns it, with as many levels
as he counts; the record of a debugging lock has the same number, less the step the
thread is in the middle of (`Turn`). A thread that marks, drops or waits changes one
lock and its own two values (`LockStep`); the set-up calls only meet locks that
nobody holds and wrap, replace or create them. `LocksAssumption` says that the global
lock is a lock and that the names for no lock and no thread are not taken.

Only model-checked. The safety properties of the runs about the loop, the maps, the
timers, DNS and buckets and the events of bufferevents are proved, and of the `kern` run
those of the listeners and the locks. Those of evbuffers, the lifetimes and the progress
of bufferevents, HTTP, the signal, backend and
life parts of `kern`, and the codecs are checked by TLC on the instances of section 4
only. The tables of the backends and the chains of an evbuffer grow by loops that
double a number until it is large enough; the walk of `event_base_free` over the
queues runs finalizers that change them. Liveness (`ActiveCallbacksGetRun`,
`DelWaitersAreSignalled`, `DeferredsYield`) is out of reach of TLAPS here. The library's
induction theorems take an operator, which the provers cannot instantiate; the
inductions above give the property as a set instead, which works for numbers
that count steps or positions. What the recursive operators of the codecs compute
cannot be stated that way, and stays with TLC.

## 6. Not modelled

The status of every part is in `PROJECT.json`. Left out of modelled parts: file
segments and `sendfile` of evbuffers, growth of arrays that only fails for want of
memory, getters and setters without a condition, making and binding of sockets,
the deprecated wrappers of a global base. Not modelled at all: `arc4random` and
`evutil_rand` (a stream cipher), logging, memory hooks, `strlcpy`, the hash table
macros, error strings and dates, the Windows registry and the Windows emulation
of condition variables, samples and tests. OpenSSL, the kernels' interfaces, the
network, threads and the C library are external: they do anything the code in
`src/` is prepared for.
