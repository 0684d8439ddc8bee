------------------------------ MODULE Backends ------------------------------
(***************************************************************************)
(* The backends besides epoll: select.c, poll.c, devpoll.c, evport.c,      *)
(* kqueue.c and win32select.c, each between the fd map (which calls add    *)
(* and del with the directions that really change) and its system call.    *)
(* th_base_lock is released during the system call, so that other threads  *)
(* add and delete while the loop waits.  A backend operation is a set of   *)
(* outcomes [r, x, lost]: the result, the backend's new state and whether  *)
(* a failure has made it forget a direction or keep one that is unwanted.  *)
(***************************************************************************)
EXTENDS Integers, Sequences, FiniteSets

CONSTANTS BkFds,      \* file descriptors 0..n
          BkCap,      \* first size of the tables that grow
          BkSteps,    \* bound: calls of add, del and reinit
          BkSetups    \* [kind, threads, fail: may system calls and malloc fail]

VARIABLE bk

Dirs == {"R", "W"}
None == [f \in BkFds |-> {}]
Out(r, x, lost) == [r |-> r, x |-> x, lost |-> lost]
Range(s) == {s[i] : i \in 1..Len(s)}

\* A size that is doubled until it is enough.
Doubled(from, n) == CHOOSE k \in {from, 2 * from, 4 * from, 8 * from} :
                       k >= n /\ \A j \in {from, 2 * from, 4 * from, 8 * from} : j >= n => k <= j

\* What the system call reports of a descriptor: H is a hangup or an error.
Hup(what) == IF "H" \in what THEN Dirs ELSE what \cap Dirs

-----------------------------------------------------------------------------
(* select: bit sets indexed by descriptor; sizes in descriptors.           *)

select_init == [in |-> None, event_fds |-> 0, event_fdsz |-> BkCap, out |-> None, outsz |-> 0,
                resize_out_sets |-> TRUE, nfds |-> 0]

select_resize(x, sz) == [x EXCEPT !.event_fdsz = sz, !.resize_out_sets = TRUE]

select_add(x, fd, old, ev) ==
    LET sz == Doubled(x.event_fdsz, fd + 1)
        grown == IF sz # x.event_fdsz THEN select_resize(x, sz) ELSE x
        y == IF x.event_fds < fd THEN [grown EXCEPT !.event_fds = fd] ELSE x
    IN {Out(0, [y EXCEPT !.in[fd] = @ \cup ev], FALSE)}
       \cup (IF x.event_fds < fd /\ sz # x.event_fdsz THEN {Out(-1, x, FALSE)} ELSE {})

select_del(x, fd, old, ev) ==
    {Out(0, IF x.event_fds < fd THEN x ELSE [x EXCEPT !.in[fd] = @ \ ev], FALSE)}

\* select_dispatch up to the system call.
select_dispatch(x) ==
    {Out(0, [x EXCEPT !.outsz = IF x.resize_out_sets THEN x.event_fdsz ELSE @, !.resize_out_sets = FALSE,
                      !.out = x.in, !.nfds = x.event_fds + 1], FALSE)}
    \cup (IF x.resize_out_sets THEN {Out(-1, x, FALSE)} ELSE {})

SelectResults(x, ready) == [f \in BkFds |-> IF f < x.nfds THEN x.out[f] \cap Hup(ready[f]) ELSE {}]

-----------------------------------------------------------------------------
(* poll: an array of [fd, ev], and for each descriptor its place in it.    *)

poll_init == [set |-> <<>>, event_count |-> 0, idx |-> [f \in BkFds |-> 0], copy |-> <<>>,
              copysz |-> 0, realloc_copy |-> FALSE, ok |-> TRUE]

poll_add(x, fd, old, ev) ==
    LET full == Len(x.set) + 1 >= x.event_count
        y == IF full THEN [x EXCEPT !.event_count = IF @ < BkCap THEN BkCap ELSE 2 * @, !.realloc_copy = TRUE]
             ELSE x
        z == IF y.idx[fd] > 0 THEN y
             ELSE [y EXCEPT !.set = Append(@, [fd |-> fd, ev |-> {}]), !.idx[fd] = Len(x.set) + 1]
    IN {Out(0, [z EXCEPT !.set[z.idx[fd]].ev = @ \cup ev], FALSE)}
       \cup (IF full THEN {Out(-1, x, FALSE)} ELSE {})

\* Mutant: the descriptor that moves keeps its old place.
poll_del_keeps_index(x, fd, old, ev) ==
    LET i == x.idx[fd]
        n == Len(x.set)
        y == [x EXCEPT !.set[i].ev = @ \ ev]
    IN {Out(0, IF y.set[i].ev # {} THEN y
               ELSE [y EXCEPT !.idx[fd] = 0,
                              !.set = SubSeq(IF i = n THEN @ ELSE [@ EXCEPT ![i] = y.set[n]], 1, n - 1)], FALSE)}

\* The last entry is moved into the hole.
poll_del(x, fd, old, ev) ==
    LET i == x.idx[fd]
        n == Len(x.set)
        y == [x EXCEPT !.set[i].ev = @ \ ev]
        gone == [y EXCEPT !.idx[fd] = 0, !.set = SubSeq(@, 1, n - 1)]
    IN IF i = 0 THEN {Out(-1, x, FALSE)}
       ELSE IF y.set[i].ev # {} THEN {Out(0, y, FALSE)}
       ELSE IF i = n THEN {Out(0, gone, FALSE)}
       ELSE {Out(0, [gone EXCEPT !.set[i] = y.set[n], !.idx[y.set[n].fd] = i,
                                 !.ok = @ /\ x.idx[y.set[n].fd] = n], FALSE)}

poll_dispatch(x, threads) ==
    IF ~threads THEN {Out(0, [x EXCEPT !.copy = x.set, !.copysz = x.event_count], FALSE)}
    ELSE {Out(0, [x EXCEPT !.copy = x.set, !.copysz = IF x.realloc_copy THEN x.event_count ELSE @,
                           !.realloc_copy = FALSE], FALSE)}
         \cup (IF x.realloc_copy THEN {Out(-1, x, FALSE)} ELSE {})

PollResults(x, ready) ==
    [f \in BkFds |-> UNION {IF "H" \in ready[f] THEN Dirs ELSE e.ev \cap ready[f] :
                            e \in {c \in Range(x.copy) : c.fd = f}}]

-----------------------------------------------------------------------------
(* /dev/poll: changes are queued and written to the driver, which adds     *)
(* directions to those it has, and forgets all of them on POLLREMOVE.      *)

devpoll_init == [changes |-> <<>>, kernel |-> None]

\* external: the driver.
Written(x) ==
    LET k[i \in 0..Len(x.changes)] ==
            IF i = 0 THEN x.kernel
            ELSE LET c == x.changes[i] IN
                 IF c.ev = {"REMOVE"} THEN [k[i - 1] EXCEPT ![c.fd] = {}]
                 ELSE [k[i - 1] EXCEPT ![c.fd] = @ \cup c.ev]
    IN k[Len(x.changes)]

devpoll_commit(x) == [x EXCEPT !.kernel = Written(x), !.changes = <<>>]

\* The queue, committed first when it is full; a failing commit changes nothing.
devpoll_queue(x, fd, ev) ==
    LET put(y) == [y EXCEPT !.changes = Append(@, [fd |-> fd, ev |-> ev])]
    IN IF Len(x.changes) < BkCap THEN {Out(0, put(x), FALSE)}
       ELSE {Out(0, put(devpoll_commit(x)), FALSE), Out(-1, x, TRUE)}

devpoll_add(x, fd, old, ev) == {[o EXCEPT !.lost = FALSE] : o \in devpoll_queue(x, fd, ev)}

\* Mutant: the other direction is not put back after POLLREMOVE.
devpoll_del_only(x, fd, old, ev) == devpoll_queue(x, fd, {"REMOVE"})

devpoll_del(x, fd, old, ev) ==
    LET other == IF ev = Dirs THEN {} ELSE old \ ev
    IN UNION {IF o.r = -1 \/ other = {} THEN {o}
              ELSE {[q EXCEPT !.r = 0] : q \in devpoll_queue(o.x, fd, other)} :
              o \in devpoll_queue(x, fd, {"REMOVE"})}

\* A failing commit is ignored and left for the next time (outcome 1).
devpoll_dispatch(x) ==
    IF x.changes = <<>> THEN {Out(0, x, FALSE)} ELSE {Out(0, devpoll_commit(x), FALSE), Out(1, x, FALSE)}

DevpollResults(x, ready) ==
    [f \in BkFds |-> IF x.kernel[f] = {} THEN {} ELSE Hup(ready[f]) \cap (x.kernel[f] \cup Hup(ready[f] \cap {"H"}))]

-----------------------------------------------------------------------------
(* Event ports: an association is gone once it has been reported, and      *)
(* comes back at the next dispatch for the descriptors of ed_pending.      *)

evport_init == [what |-> None, pending |-> [f \in BkFds |-> 0], ed_pending |-> <<>>, npending |-> 0,
                maxevents |-> BkCap, assoc |-> None, ok |-> TRUE, stale |-> FALSE]

reassociate(x, fd) ==
    IF x.what[fd] = {} THEN {Out(0, x, FALSE)}
    ELSE {Out(0, [x EXCEPT !.assoc[fd] = x.what[fd]], FALSE), Out(-1, x, TRUE)}

evport_add(x, fd, old, ev) == reassociate([x EXCEPT !.what[fd] = @ \cup ev], fd)

evport_del(x, fd, old, ev) ==
    LET y == [x EXCEPT !.what[fd] = @ \ ev]
        i == x.pending[fd]
    IN IF i = 0
       THEN IF y.what[fd] = {} THEN {Out(0, [y EXCEPT !.assoc[fd] = {}], FALSE)} ELSE reassociate(y, fd)
       ELSE IF y.what[fd] # {} THEN {Out(0, y, FALSE)}
       ELSE {Out(0, [y EXCEPT !.ok = @ /\ x.ed_pending[i] = fd, !.ed_pending[i] = -1, !.pending[fd] = 0], FALSE)}

\* The associations that come back; a failing port_associate is ignored.
Reassociated(x, ok) ==
    LET f[i \in 0..x.npending] ==
            IF i = 0 THEN x
            ELSE LET fd == x.ed_pending[i] IN
                 IF fd = -1 THEN f[i - 1]
                 ELSE IF x.what[fd] = {} THEN [f[i - 1] EXCEPT !.stale = @ \/ x.pending[fd] # 0]
                 ELSE [f[i - 1] EXCEPT !.pending[fd] = 0, !.assoc[fd] = IF ok THEN x.what[fd] ELSE @]
    IN f[x.npending]

\* Mutant: what was reported is not associated again.
evport_dispatch_once(x) == {Out(0, x, FALSE)}

evport_dispatch(x) ==
    {Out(0, Reassociated(x, TRUE), FALSE)}
    \cup (IF Reassociated(x, FALSE).assoc # Reassociated(x, TRUE).assoc THEN {Out(0, Reassociated(x, FALSE), TRUE)} ELSE {})

\* What port_getn may return, at most ed_maxevents descriptors.
Fires(x, ready) == {f \in BkFds : x.assoc[f] # {} /\ (x.assoc[f] \cap ready[f] # {} \/ "H" \in ready[f])}
EvportTaken(x, ready) == IF Cardinality(Fires(x, ready)) <= x.maxevents THEN {Fires(x, ready)}
                         ELSE {S \in SUBSET Fires(x, ready) : Cardinality(S) = x.maxevents}

\* The rest of evport_dispatch: the descriptors got, in some order.
EvportDone(x, got) ==
    LET n == Len(got)
    IN [x EXCEPT !.pending = [f \in BkFds |-> IF f \in Range(got) THEN CHOOSE i \in 1..n : got[i] = f ELSE @[f]],
                 !.ed_pending = got \o SubSeq(@, n + 1, Len(@)), !.npending = n,
                 !.maxevents = IF n = @ THEN 2 * @ ELSE @]

Orders(S) == {s \in [1..Cardinality(S) -> S] : \A i, j \in 1..Cardinality(S) : i # j => s[i] # s[j]}

-----------------------------------------------------------------------------
(* kqueue: the changelist of evmap.c, [old, R, W] for each changed fd.     *)

NoChange == [on |-> FALSE, old |-> {}, R |-> "none", W |-> "none"]
kq_init == [list |-> [f \in BkFds |-> NoChange], kernel |-> None, errors |-> None, stolen |-> FALSE]

Constructed(x, fd, old) == IF x.list[fd].on THEN x.list[fd] ELSE [NoChange EXCEPT !.on = TRUE, !.old = old]

event_changelist_add_(x, fd, old, ev) ==
    LET c == Constructed(x, fd, old)
    IN {Out(0, [x EXCEPT !.list[fd] = [c EXCEPT !.R = IF "R" \in ev THEN "add" ELSE @,
                                                !.W = IF "W" \in ev THEN "add" ELSE @]], FALSE)}

\* A change that was only to be added is dropped.
event_changelist_del_(x, fd, old, ev) ==
    LET c == Constructed(x, fd, old)
        to(d) == IF d \in c.old THEN "del" ELSE "none"
    IN {Out(0, [x EXCEPT !.list[fd] = [c EXCEPT !.R = IF "R" \in ev THEN to("R") ELSE @,
                                                !.W = IF "W" \in ev THEN to("W") ELSE @]], FALSE)}

\* kq_setup_kevent for one filter, and external: the kernel; fail are adds that end in EPIPE.
kq_setup_kevent(k, c, d, fail) ==
    CASE c[d] = "add" -> IF d \in fail THEN k ELSE k \cup {d}
      [] c[d] = "del" -> k \ {d}
      [] OTHER        -> k

\* kq_build_changes_list and the changes made by kevent; errors are reported as EV_READ.
kq_build_changes_list(x, fail) ==
    [x EXCEPT !.kernel = [f \in BkFds |-> kq_setup_kevent(kq_setup_kevent(@[f], x.list[f], "R", fail[f]),
                                                          x.list[f], "W", fail[f])],
              !.errors = [f \in BkFds |-> IF \E d \in fail[f] : x.list[f][d] = "add" THEN {"R"} ELSE {}],
              !.list = [f \in BkFds |-> NoChange]]

\* Mutant: changes stay in the list after a successful call.
kq_dispatch_keeps_list(x) == {Out(0, [kq_build_changes_list(x, None) EXCEPT !.list = x.list, !.stolen = TRUE], FALSE)}

\* The array of changes may not be made larger; a pipe whose reader is gone cannot be added.
kq_dispatch(x) ==
    {Out(0, [kq_build_changes_list(x, None) EXCEPT !.stolen = TRUE], FALSE), Out(-1, x, FALSE)}
    \cup {Out(0, [kq_build_changes_list(x, [None EXCEPT ![f] = Dirs]) EXCEPT !.stolen = TRUE], TRUE) :
          f \in {g \in BkFds : "add" \in {x.list[g].R, x.list[g].W}}}

KqResults(x, ready) == [f \in BkFds |-> x.errors[f] \cup (x.kernel[f] \cap Hup(ready[f]))]

-----------------------------------------------------------------------------
(* Windows select: two arrays of sockets, and the places of each socket.   *)

win32_init == [in |-> [d \in Dirs |-> <<>>], pos |-> [d \in Dirs |-> [f \in BkFds |-> 0]], num |-> BkCap,
               resize |-> FALSE, outsz |-> BkCap, out |-> [d \in Dirs |-> <<>>], dead |-> FALSE]

\* grow_fd_sets loses the set that it cannot make larger.
grow_fd_sets(x) == {[x EXCEPT !.num = 2 * @, !.resize = TRUE], [x EXCEPT !.dead = TRUE]}

do_fd_set(x, fd, d) ==
    LET put(y) == IF y.dead THEN y
                  ELSE [y EXCEPT !.in[d] = Append(@, fd), !.pos[d][fd] = Len(x.in[d]) + 1]
    IN IF x.pos[d][fd] > 0 THEN {x}
       ELSE {put(y) : y \in IF Len(x.in[d]) = x.num THEN grow_fd_sets(x) ELSE {x}}

do_fd_clear(x, fd, d) ==
    LET i == x.pos[d][fd]
        n == Len(x.in[d])
    IN IF i = 0 THEN x
       ELSE IF i = n THEN [x EXCEPT !.pos[d][fd] = 0, !.in[d] = SubSeq(@, 1, n - 1)]
       ELSE [x EXCEPT !.pos[d] = [@ EXCEPT ![fd] = 0, ![x.in[d][n]] = i],
                      !.in[d] = SubSeq([@ EXCEPT ![i] = x.in[d][n]], 1, n - 1)]

win32_add(x, fd, old, ev) ==
    LET r == IF "R" \in ev THEN do_fd_set(x, fd, "R") ELSE {x}
        w == UNION {IF "W" \in ev /\ ~y.dead THEN do_fd_set(y, fd, "W") ELSE {y} : y \in r}
    IN {Out(IF y.dead THEN -1 ELSE 0, y, y.dead) : y \in w}

win32_del(x, fd, old, ev) ==
    LET y == IF "R" \in ev THEN do_fd_clear(x, fd, "R") ELSE x
    IN {Out(0, IF "W" \in ev THEN do_fd_clear(y, fd, "W") ELSE y, FALSE)}

\* Up to the system call; without sockets the thread sleeps and returns.
win32_dispatch(x) ==
    {Out(IF x.in["R"] = <<>> /\ x.in["W"] = <<>> THEN -1 ELSE 0,
         [x EXCEPT !.outsz = IF x.resize THEN x.num ELSE @, !.resize = FALSE, !.out = x.in], FALSE)}
    \cup (IF x.resize THEN {Out(-1, [x EXCEPT !.dead = TRUE], TRUE)} ELSE {})

Win32Results(x, ready) == [f \in BkFds |-> {d \in Dirs : f \in Range(x.out[d]) /\ d \in Hup(ready[f])}]

-----------------------------------------------------------------------------
(* The operations of struct eventop.                                       *)

Opened(kind) ==
    CASE kind = "select" -> select_init  [] kind = "poll" -> poll_init
      [] kind = "devpoll" -> devpoll_init [] kind = "evport" -> evport_init
      [] kind = "kqueue" -> kq_init      [] kind = "win32" -> win32_init

AddOut(kind, x, fd, old, ev) ==
    CASE kind = "select" -> select_add(x, fd, old, ev)   [] kind = "poll" -> poll_add(x, fd, old, ev)
      [] kind = "devpoll" -> devpoll_add(x, fd, old, ev) [] kind = "evport" -> evport_add(x, fd, old, ev)
      [] kind = "kqueue" -> event_changelist_add_(x, fd, old, ev) [] kind = "win32" -> win32_add(x, fd, old, ev)

DelOut(kind, x, fd, old, ev) ==
    CASE kind = "select" -> select_del(x, fd, old, ev)   [] kind = "poll" -> poll_del(x, fd, old, ev)
      [] kind = "devpoll" -> devpoll_del(x, fd, old, ev) [] kind = "evport" -> evport_del(x, fd, old, ev)
      [] kind = "kqueue" -> event_changelist_del_(x, fd, old, ev) [] kind = "win32" -> win32_del(x, fd, old, ev)

DispatchOut(s, x) ==
    CASE s.kind = "select" -> select_dispatch(x)   [] s.kind = "poll" -> poll_dispatch(x, s.threads)
      [] s.kind = "devpoll" -> devpoll_dispatch(x) [] s.kind = "evport" -> evport_dispatch(x)
      [] s.kind = "kqueue" -> kq_dispatch(x)       [] s.kind = "win32" -> win32_dispatch(x)

Results(kind, x, ready) ==
    CASE kind = "select" -> SelectResults(x, ready)   [] kind = "poll" -> PollResults(x, ready)
      [] kind = "devpoll" -> DevpollResults(x, ready) [] kind = "kqueue" -> KqResults(x, ready)
      [] kind = "win32" -> Win32Results(x, ready)
      [] kind = "evport" -> [f \in BkFds |-> Hup(ready[f]) \cap (x.assoc[f] \cup Hup(ready[f] \cap {"H"}))]

\* Back from the system call: copies and results are used up, the changes come back.
Returned(kind, x) ==
    CASE kind = "select" -> [x EXCEPT !.out = None, !.nfds = 0]
      [] kind = "poll"   -> [x EXCEPT !.copy = <<>>]
      [] kind = "kqueue" -> [x EXCEPT !.stolen = FALSE, !.errors = None]
      [] kind = "win32"  -> [x EXCEPT !.out = [d \in Dirs |-> <<>>]]
      [] OTHER           -> x

\* A set is gone, or an assertion has ended the program.
Dead == \/ bk.s.kind = "win32" /\ bk.x.dead
        \/ bk.s.kind = "evport" /\ ~bk.x.ok
Allowed(o) == bk.s.fail \/ (~o.lost /\ o.r = 0)

\* evmap_io_add_ of directions that no event had; on failure the event is not in.
Add ==
    /\ bk.n < BkSteps /\ ~Dead /\ (bk.waiting => bk.s.threads)
    /\ \E fd \in BkFds : \E ev \in SUBSET (Dirs \ bk.want[fd]) :
          /\ ev # {}
          /\ \E o \in {q \in AddOut(bk.s.kind, bk.x, fd, bk.want[fd], ev) : Allowed(q)} :
                bk' = [bk EXCEPT !.n = @ + 1, !.x = o.x, !.lost = @ \/ o.lost,
                                 !.want[fd] = IF o.r = 0 THEN @ \cup ev ELSE @]

\* evmap_io_del_ of directions that no event has any more; failures do not keep the event.
Del ==
    /\ bk.n < BkSteps /\ ~Dead /\ (bk.waiting => bk.s.threads)
    /\ \E fd \in BkFds : \E ev \in SUBSET bk.want[fd] :
          /\ ev # {}
          /\ \E o \in {q \in DelOut(bk.s.kind, bk.x, fd, bk.want[fd], ev) : Allowed(q)} :
                bk' = [bk EXCEPT !.n = @ + 1, !.x = o.x, !.lost = @ \/ o.lost, !.want[fd] = @ \ ev,
                                 !.then[fd] = {}]

\* A descriptor without events is closed and opened again: the kernel forgets it.
Close ==
    /\ bk.s.kind \in {"kqueue", "evport"} /\ bk.n < BkSteps
    /\ \E fd \in BkFds :
          /\ bk.want[fd] = {} /\ (bk.waiting => bk.s.threads)
          /\ bk' = [bk EXCEPT !.n = @ + 1,
                              !.x = IF bk.s.kind = "kqueue" THEN [@ EXCEPT !.kernel[fd] = {}]
                                    ELSE [@ EXCEPT !.assoc[fd] = {}]]

\* dispatch up to the system call; a failure ends it.
Begin ==
    /\ ~bk.waiting /\ ~Dead
    /\ \E o \in {q \in DispatchOut(bk.s, bk.x) : bk.s.fail \/ (~q.lost /\ q.r # 1)} :
          bk' = [bk EXCEPT !.x = o.x, !.lost = @ \/ o.lost, !.waiting = o.r >= 0,
                           !.then = IF o.r = 1 THEN None ELSE bk.want]

\* The system call returns, with what is ready or after a signal: the events of
\* the map that want what is reported are activated.  Between the return of
\* port_getn and the lock other threads still get in.
End ==
    /\ bk.waiting /\ bk.got = <<>>
    /\ LET back == [bk EXCEPT !.waiting = FALSE, !.then = None, !.x = Returned(bk.s.kind, @)] IN
       \/ bk' = back
       \/ \E ready \in [BkFds -> {{}, {"R"}, {"W"}, {"H"}}] :
          LET res == Results(bk.s.kind, bk.x, ready)
              missed(S) == \E f \in S : \E d \in Hup(ready[f]) :
                              d \in bk.then[f] /\ d \in bk.want[f] /\ d \notin res[f]
          IN IF bk.s.kind # "evport" THEN bk' = [back EXCEPT !.missed = @ \/ missed(BkFds)]
             ELSE \E S \in EvportTaken(bk.x, ready) \ {{}} : \E got \in Orders(S) :
                     bk' = [bk EXCEPT !.missed = @ \/ missed(S), !.then = None, !.got = got,
                                      !.x.assoc = [f \in BkFds |-> IF f \in S THEN {} ELSE @[f]]]

Locked ==
    /\ bk.got # <<>>
    /\ bk' = [bk EXCEPT !.waiting = FALSE, !.got = <<>>, !.x = EvportDone(@, bk.got)]

\* event_reinit: the backend is made anew and told of every descriptor by evmap_reinit_.
Reinit ==
    /\ bk.n < BkSteps /\ ~bk.waiting /\ ~bk.s.fail /\ bk.s.kind # "win32"
    /\ LET f[n \in BkFds \cup {-1}] ==
               IF n = -1 THEN Opened(bk.s.kind)
               ELSE IF bk.want[n] = {} THEN f[n - 1]
               ELSE (CHOOSE o \in AddOut(bk.s.kind, f[n - 1], n, {}, bk.want[n]) : o.r = 0).x
       IN bk' = [bk EXCEPT !.n = @ + 1, !.x = f[Cardinality(BkFds) - 1]]

Init == \E s \in BkSetups :
    bk = [s |-> s, x |-> Opened(s.kind), want |-> None, then |-> None, waiting |-> FALSE, missed |-> FALSE,
          lost |-> FALSE, got |-> <<>>, n |-> 0]

Next == Add \/ Del \/ Close \/ Begin \/ End \/ Locked \/ Reinit

-----------------------------------------------------------------------------
\* What the backend will ask the kernel to watch at the next dispatch.
Watched(kind, x) ==
    CASE kind = "select"  -> [f \in BkFds |-> IF f <= x.event_fds THEN x.in[f] ELSE {}]
      [] kind = "poll"    -> [f \in BkFds |-> UNION {x.set[i].ev : i \in {j \in 1..Len(x.set) : x.set[j].fd = f}}]
      [] kind = "devpoll" -> Written(x)
      [] kind = "evport"  -> [f \in BkFds |-> IF x.pending[f] = 0 THEN x.assoc[f]
                                              ELSE IF f \in Range(SubSeq(x.ed_pending, 1, x.npending)) THEN x.what[f]
                                              ELSE x.assoc[f]]
      [] kind = "kqueue"  -> kq_build_changes_list(x, None).kernel
      [] kind = "win32"   -> [f \in BkFds |-> {d \in Dirs : f \in Range(x.in[d])}]

\* The backend watches exactly what the events want, whatever was added, deleted,
\* closed or made anew, also while the loop waited, as long as no system call or
\* allocation has failed half-way.  (An event port may watch more: evport_del does
\* not dissociate a descriptor that waits in ed_pending and was associated by an
\* evport_add meanwhile.)
WatchesWhatIsWanted ==
    \/ bk.lost \/ Dead
    \/ Watched(bk.s.kind, bk.x) = bk.want
    \/ bk.s.kind = "evport" /\ \A f \in BkFds \ Range(bk.got) : bk.want[f] \subseteq Watched(bk.s.kind, bk.x)[f]

\* What was wanted when the loop began to wait, is still wanted and is ready
\* reaches the events (of descriptors of which nothing was deleted meanwhile: a
\* deletion wakes up the loop).
NothingMissed == bk.lost \/ ~bk.missed

\* The tables handed to the system call are as large as the system call takes
\* them to be, and the assertions of the backends hold (that of evport_del only
\* until a descriptor has been reported whose last event another thread deleted
\* during the wait: its place in ed_pending is never taken back).
TablesFit ==
    CASE bk.s.kind = "select" -> bk.x.event_fds < bk.x.event_fdsz /\ (bk.waiting => bk.x.nfds <= bk.x.outsz)
      [] bk.s.kind = "poll"   -> bk.x.ok /\ Len(bk.x.set) <= bk.x.event_count
                                 /\ (bk.waiting => Len(bk.x.copy) <= bk.x.copysz)
                                 /\ \A i \in 1..Len(bk.x.set) : bk.x.idx[bk.x.set[i].fd] = i
      [] bk.s.kind = "evport" -> bk.x.ok \/ bk.x.stale
      [] bk.s.kind = "kqueue" -> bk.x.stolen = bk.waiting
      [] bk.s.kind = "win32"  -> Dead \/ \A d \in Dirs : Len(bk.x.in[d]) <= bk.x.num
                                                          /\ (bk.waiting => Len(bk.x.out[d]) <= bk.x.outsz)
      [] OTHER                -> TRUE
=============================================================================
