------------------------------ MODULE Timeouts ------------------------------
(***************************************************************************)
(* The timers of an event_base: the binary heap of minheap-internal.h and  *)
(* the common timeout queues of event.c, each of which is a list of events *)
(* with one internal event in the heap that stands for its first element.  *)
(* EventBase takes them together as a set from which the earliest timeout  *)
(* can be read; this module is what the set is made of.                    *)
(*                                                                         *)
(* A struct timeval is [t, q]: the time, and the queue number that is      *)
(* hidden in the upper bits of tv_usec, or None.                           *)
(***************************************************************************)
EXTENDS Integers, Sequences, FiniteSets, FiniteSetsExt

CONSTANTS
  Timers,      \* a sequence of one-shot timers that are in the heap at first, in this order
  Events,      \* the other events of the application
  Persist,     \* those with EV_PERSIST
  None,
  Delays,      \* the timeouts passed to event_add()
  Durations,   \* the durations passed to event_base_init_common_timeout()
  MaxCommon,   \* MAX_COMMON_TIMEOUTS
  MaxTime,     \* bound on the clock
  MaxCalls     \* bound on the number of API calls

TimerSet == {Timers[i] : i \in 1 .. Len(Timers)}
User == Events \cup TimerSet
Queues == 0 .. (MaxCommon - 1)
Elements == User \cup Queues     \* timeout_event of queue i is i
Linked == -2                     \* min_heap_idx overwritten by ev_next_with_common_timeout

ASSUME ConstantsAssumption ==
  /\ IsFiniteSet(Events) /\ Events \cap TimerSet = {} /\ Persist \subseteq Events
  /\ Timers \in Seq(TimerSet) /\ \A i, j \in 1 .. Len(Timers) : Timers[i] = Timers[j] => i = j
  /\ User \cap Queues = {} /\ None \notin Queues /\ MaxCommon \in Nat /\ MaxTime \in Nat /\ MaxCalls \in Nat
  /\ Delays \subseteq Nat \ {0} /\ Durations \subseteq Nat \ {0}

VARIABLES
  b,              \* the base's timers: heap, lists, and what the events say of them
  ev_io_timeout,
  duration,       \* common_timeout_queues: the duration of each queue, in order
  pc, cur,        \* where the loop is, and the event whose callback is running
  now, tv_cache,  \* the clock, and the time cached while callbacks run (0: none)
  calls           \* how many API calls were made

vars == <<b, ev_io_timeout, duration, pc, cur, now, tv_cache, calls>>

Tv(t, k) == [t |-> t, q |-> k]
is_common_timeout(tv) == tv.q # None /\ tv.q < Len(duration)
gettime == IF tv_cache # 0 THEN tv_cache ELSE now

------------------------------------------------------------------------------
(* minheap-internal.h                                                      *)

min_heap_size_(h) == Cardinality(DOMAIN h.p)
min_heap_elem_greater(h, x, y) == h.timeout[x].t > h.timeout[y].t
Parent(i) == (i - 1) \div 2

\* p[i] = new[i] for some i, with the back pointers
Place(new, x) == CHOOSE i \in DOMAIN new : new[i] = x
Fill(h, new) ==
  [h EXCEPT !.p = [i \in DOMAIN h.p \cup DOMAIN new |-> IF i \in DOMAIN new THEN new[i] ELSE @[i]],
            !.idx = [x \in Elements |-> IF \E i \in DOMAIN new : new[i] = x THEN Place(new, x)
                                        ELSE @[x]]]

\* the holes from hole upwards that are filled with their parents
HolesUp(h, hole, e) ==
  LET up[i \in 0 .. hole] ==
        IF i # 0 /\ min_heap_elem_greater(h, h.p[Parent(i)], e) THEN {i} \cup up[Parent(i)] ELSE {}
  IN up[hole]

RaiseInto(h, filled, hole, e) ==
  LET dest == IF filled = {} THEN hole ELSE Parent(Min(filled))
  IN Fill(h, [i \in filled \cup {dest} |-> IF i = dest THEN e ELSE h.p[Parent(i)]])

min_heap_shift_up_(h, hole, e) == RaiseInto(h, HolesUp(h, hole, e), hole, e)
min_heap_shift_up_unconditional_(h, hole, e) ==
  RaiseInto(h, {hole} \cup HolesUp(h, Parent(hole), e), hole, e)

\* s->n is n: the last element has been taken off already
SmallerChild(h, n, i) ==
  LET c == 2 * (i + 1) IN
  IF c = n \/ min_heap_elem_greater(h, h.p[c], h.p[c - 1]) THEN c - 1 ELSE c

\* the holes from hole downwards that are filled with the smaller of their children
HolesDown(h, n, hole, e) ==
  LET down[i \in 0 .. n] ==
        IF 2 * (i + 1) =< n /\ min_heap_elem_greater(h, e, h.p[SmallerChild(h, n, i)])
        THEN {i} \cup down[SmallerChild(h, n, i)] ELSE {}
  IN down[hole]

min_heap_shift_down_(h, n, hole, e) ==
  LET filled == HolesDown(h, n, hole, e)
      dest == IF filled = {} THEN hole ELSE SmallerChild(h, n, Max(filled))
  IN Fill(h, [i \in filled \cup {dest} |-> IF i = dest THEN e ELSE h.p[SmallerChild(h, n, i)]])

min_heap_push_(h, e) == min_heap_shift_up_(h, min_heap_size_(h), e)

\* Mutant: the last element is only ever moved down.
erase_shifts_down(h, e) ==
  LET n == min_heap_size_(h) - 1
      r == min_heap_shift_down_(h, n, h.idx[e], h.p[n])
  IN IF h.idx[e] = -1 THEN h
     ELSE [r EXCEPT !.p = [i \in 0 .. (n - 1) |-> @[i]], !.idx[e] = -1]

min_heap_erase_(h, e) ==
  LET n == min_heap_size_(h) - 1
      i == h.idx[e]
      last == h.p[n]
      r == IF i > 0 /\ min_heap_elem_greater(h, h.p[Parent(i)], last)
           THEN min_heap_shift_up_unconditional_(h, i, last)
           ELSE min_heap_shift_down_(h, n, i, last)
  IN IF i = -1 THEN h
     ELSE [r EXCEPT !.p = [j \in 0 .. (n - 1) |-> @[j]], !.idx[e] = -1]

------------------------------------------------------------------------------
(* event.c: the queues and the heap.                                       *)

Contains(s, e) == \E i \in 1 .. Len(s) : s[i] = e
Remove(s, e) ==
  IF Contains(s, e)
  THEN LET i == CHOOSE i \in 1 .. Len(s) : s[i] = e
       IN [j \in 1 .. (Len(s) - 1) |-> IF j < i THEN s[j] ELSE s[j + 1]]
  ELSE s

event_queue_remove_timeout(h, e) ==
  LET h1 == [h EXCEPT !.set = @ \ {e}] IN
  IF is_common_timeout(h.timeout[e])
  THEN [h1 EXCEPT !.queue[h.timeout[e].q] = Remove(@, e)] ELSE min_heap_erase_(h1, e)

\* Mutant: what the comment in the code says would be enough.
insert_common_timeout_last(h, s, e) == Append(s, e)

\* after the last element that is not later than e, else first
insert_common_timeout_inorder(h, s, e) ==
  LET k == Max({0} \cup {i \in 1 .. Len(s) : h.timeout[e].t >= h.timeout[s[i]].t})
  IN SubSeq(s, 1, k) \o <<e>> \o SubSeq(s, k + 1, Len(s))

event_queue_insert_timeout(h, e) ==
  LET h1 == [h EXCEPT !.set = @ \cup {e}] IN
  IF is_common_timeout(h.timeout[e])
  THEN [h1 EXCEPT !.queue[h.timeout[e].q] = insert_common_timeout_inorder(h, @, e),
                  !.idx[e] = Linked]
  ELSE min_heap_push_(h1, e)

\* event_add_nolock_ for an event without I/O: at is the absolute timeout
AddTimeout(h, e, at) ==
  LET h1 == IF e \in h.set THEN event_queue_remove_timeout(h, e) ELSE h
      h2 == IF "TIMEOUT" \in h1.res[e] THEN [h1 EXCEPT !.active = Remove(@, e)] ELSE h1
  IN event_queue_insert_timeout([h2 EXCEPT !.timeout[e] = at], e)

\* common_timeout_schedule, for an event that has become the first of its queue
ScheduleFirst(h, e) ==
  LET k == h.timeout[e].q IN
  IF Head(h.queue[k]) = e THEN AddTimeout(h, k, Tv(h.timeout[e].t, None)) ELSE h

event_add_nolock_(h, e, at) ==
  LET h1 == AddTimeout(h, e, at) IN IF is_common_timeout(at) THEN ScheduleFirst(h1, e) ELSE h1

event_del_nolock_(h, e) ==
  LET h1 == IF e \in h.set THEN event_queue_remove_timeout(h, e) ELSE h
  IN [h1 EXCEPT !.active = Remove(@, e)]

event_active_nolock_(h, e, r) ==
  IF Contains(h.active, e) THEN [h EXCEPT !.res[e] = @ \cup {r}]
  ELSE [h EXCEPT !.res[e] = {r}, !.active = Append(@, e)]

------------------------------------------------------------------------------
(* The application, in callbacks and in other threads.                     *)

\* the lock is free while the loop waits or runs a callback, common_timeout_callback included
LockFree == pc \in {"wait", "callback", "common"}
ApiCall == LockFree /\ calls < MaxCalls /\ calls' = calls + 1

\* Mutant: the number of queues is not limited.
init_common_timeout_unlimited(d) ==
  /\ ApiCall /\ \A k \in 1 .. Len(duration) : duration[k] # d
  /\ duration' = Append(duration, d)
  /\ UNCHANGED <<b, ev_io_timeout, pc, cur, now, tv_cache>>

\* a duration that has a queue already, or one queue too many, changes nothing
event_base_init_common_timeout(d) ==
  /\ ApiCall /\ \A k \in 1 .. Len(duration) : duration[k] # d
  /\ Len(duration) < MaxCommon /\ duration' = Append(duration, d)
  /\ UNCHANGED <<b, ev_io_timeout, pc, cur, now, tv_cache>>

\* Mutant: the number of the queue is not carried over to the absolute time.
add_loses_queue(e, tv) ==
  /\ ApiCall
  /\ b' = event_add_nolock_(b, e, Tv(gettime + tv.t, None))
  /\ ev_io_timeout' = IF e \in Persist THEN [ev_io_timeout EXCEPT ![e] = tv] ELSE ev_io_timeout
  /\ UNCHANGED <<duration, pc, cur, now, tv_cache>>

event_add(e, tv) ==
  /\ ApiCall
  /\ b' = event_add_nolock_(b, e, Tv(gettime + tv.t, IF is_common_timeout(tv) THEN tv.q ELSE None))
  /\ ev_io_timeout' = IF e \in Persist THEN [ev_io_timeout EXCEPT ![e] = tv] ELSE ev_io_timeout
  /\ UNCHANGED <<duration, pc, cur, now, tv_cache>>

event_del(e) ==
  /\ ApiCall /\ b' = event_del_nolock_(b, e)
  /\ UNCHANGED <<ev_io_timeout, duration, pc, cur, now, tv_cache>>

event_remove_timer(e) ==
  /\ ApiCall /\ e \in b.set /\ b' = event_queue_remove_timeout(b, e)
  /\ ev_io_timeout' = [ev_io_timeout EXCEPT ![e] = Tv(0, None)]
  /\ UNCHANGED <<duration, pc, cur, now, tv_cache>>

\* for another reason than its timeout
event_active(e) ==
  /\ ApiCall /\ b' = event_active_nolock_(b, e, "READ")
  /\ UNCHANGED <<ev_io_timeout, duration, pc, cur, now, tv_cache>>

------------------------------------------------------------------------------
(* The loop.                                                               *)

min_heap_top_(h) == h.p[0]
TopIsDue == 0 \in DOMAIN b.p /\ b.timeout[min_heap_top_(b)].t =< gettime

\* the backend returns, because of its timeout or for another reason
wake ==
  /\ pc = "wait" /\ pc' = "timeouts" /\ tv_cache' = now
  /\ UNCHANGED <<b, ev_io_timeout, duration, cur, now, calls>>

\* one turn of the loop in timeout_process
timeout_process ==
  LET e == min_heap_top_(b) IN
  /\ pc = "timeouts"
  /\ IF TopIsDue
     THEN b' = event_active_nolock_(event_del_nolock_(b, e), e, "TIMEOUT") /\ UNCHANGED pc
     ELSE pc' = "run" /\ UNCHANGED b
  /\ UNCHANGED <<ev_io_timeout, duration, cur, now, tv_cache, calls>>

\* event_persist_closure: the time of the next timeout
NextRun(e) ==
  LET k == IF is_common_timeout(b.timeout[e]) THEN ev_io_timeout[e].q ELSE None
      from == IF "TIMEOUT" \in b.res[e] THEN b.timeout[e].t ELSE gettime
      run_at == from + ev_io_timeout[e].t
  IN Tv(IF run_at < gettime THEN gettime + ev_io_timeout[e].t ELSE run_at, k)

\* the loop takes the first active event and, unless it is persistent, deletes it
start_callback ==
  LET e == Head(b.active)
      h == [b EXCEPT !.active = Tail(@)] IN
  /\ pc = "run" /\ b.active # <<>> /\ cur' = e
  /\ b' = IF e \notin Persist THEN event_del_nolock_(b, e)
          ELSE IF ev_io_timeout[e].t # 0 THEN event_add_nolock_(h, e, NextRun(e)) ELSE h
  /\ pc' = IF e \in Queues THEN "common" ELSE "callback"
  /\ UNCHANGED <<ev_io_timeout, duration, now, tv_cache, calls>>

return_callback ==
  /\ pc = "callback" /\ pc' = "run" /\ cur' = None
  /\ UNCHANGED <<b, ev_io_timeout, duration, now, tv_cache, calls>>

\* event_process_active has run as many callbacks as it may
return_limit ==
  /\ pc = "callback" /\ pc' = "wait" /\ cur' = None /\ tv_cache' = 0
  /\ UNCHANGED <<b, ev_io_timeout, duration, now, calls>>

\* or no event is active any more
next_iteration ==
  /\ pc = "run" /\ b.active = <<>> /\ pc' = "wait" /\ tv_cache' = 0
  /\ UNCHANGED <<b, ev_io_timeout, duration, cur, now, calls>>

\* Mutant: only the first event is looked at.
common_callback_once ==
  LET s == b.queue[cur] IN
  /\ pc = "common" /\ pc' = "run" /\ cur' = None
  /\ b' = IF s # <<>> /\ b.timeout[s[1]].t =< gettime
          THEN event_active_nolock_(event_del_nolock_(b, s[1]), s[1], "TIMEOUT") ELSE b
  /\ UNCHANGED <<ev_io_timeout, duration, now, tv_cache, calls>>

\* how many of the first events of a queue have expired
Expired(h, s) ==
  LET late == {i \in 1 .. Len(s) : h.timeout[s[i]].t > gettime}
  IN IF late = {} THEN Len(s) ELSE Min(late) - 1

\* the first n events of a queue are deleted and made active, one after the other
FireFirst(h, s, n) ==
  LET fire[i \in 0 .. n] ==
        IF i = 0 THEN h
        ELSE event_active_nolock_(event_del_nolock_(fire[i - 1], s[i]), s[i], "TIMEOUT")
  IN fire[n]

\* common_timeout_callback, once it has the lock
common_timeout_callback ==
  LET s == b.queue[cur]
      n == Expired(b, s)
      h == FireFirst(b, s, n)
  IN /\ pc = "common" /\ pc' = "run" /\ cur' = None
     /\ b' = IF n = Len(s) THEN h ELSE ScheduleFirst(h, s[n + 1])
     /\ UNCHANGED <<ev_io_timeout, duration, now, tv_cache, calls>>

Tick ==
  /\ LockFree /\ now < MaxTime /\ now' = now + 1
  /\ UNCHANGED <<b, ev_io_timeout, duration, pc, cur, tv_cache, calls>>

------------------------------------------------------------------------------
(* The timers of Timers have been added in order, each not earlier than    *)
(* its parent in the heap, so that min_heap_push_ left it where it was.    *)
FirstHeap == [i \in 0 .. (Len(Timers) - 1) |-> Timers[i + 1]]
FirstTimers(at) ==
  [p |-> FirstHeap,
   idx |-> [x \in Elements |-> IF x \in TimerSet THEN Place(FirstHeap, x) ELSE -1],
   queue |-> [k \in Queues |-> <<>>], set |-> TimerSet,
   timeout |-> [x \in Elements |-> Tv(IF x \in TimerSet THEN at[x] ELSE 0, None)],
   active |-> <<>>, res |-> [x \in Elements |-> {}]]

Init ==
  /\ \E at \in [TimerSet -> 2 .. MaxTime] :
       /\ \A i \in 1 .. (Len(Timers) - 1) : at[FirstHeap[Parent(i)]] =< at[FirstHeap[i]]
       /\ b = FirstTimers(at)
  /\ ev_io_timeout = [e \in User |-> Tv(0, None)] /\ duration = <<>>
  /\ pc = "wait" /\ cur = None /\ now = 1 /\ tv_cache = 0 /\ calls = 0

Next ==
  \/ wake \/ timeout_process \/ start_callback \/ return_callback \/ return_limit
  \/ common_timeout_callback \/ next_iteration \/ Tick
  \/ \E d \in Durations : event_base_init_common_timeout(d)
  \/ \E e \in Events : \/ \E d \in Delays : event_add(e, Tv(d, None))
                       \/ \E k \in 1 .. Len(duration) : event_add(e, Tv(duration[k], k - 1))
                       \/ event_remove_timer(e) \/ event_active(e)
  \/ \E e \in User : event_del(e)

Spec == Init /\ [][Next]_vars

------------------------------------------------------------------------------
(* Properties.                                                             *)

\* Every variable has its type.
TypeOK ==
  /\ \E n \in 0 .. Cardinality(Elements) : b.p \in [0 .. (n - 1) -> Elements]
  /\ b.idx \in [Elements -> Int] /\ b.queue \in [Queues -> Seq(User)]
  /\ b.set \subseteq Elements /\ b.active \in Seq(Elements)
  /\ b.timeout \in [Elements -> [t : Nat, q : Queues \cup {None}]]
  /\ b.res \in [Elements -> SUBSET {"TIMEOUT", "READ"}]
  /\ ev_io_timeout \in [User -> [t : Nat, q : Queues \cup {None}]]
  /\ duration \in Seq(Durations) /\ Len(duration) =< MaxCommon
  /\ pc \in {"wait", "timeouts", "run", "callback", "common"}
  /\ cur \in Elements \cup {None} /\ now \in Nat /\ tv_cache \in Nat
  /\ calls \in 0 .. MaxCalls

\* The heap is ordered, and min_heap_idx of every event in it is its position: erasing an
\* event by its index takes out that event and no other.
HeapOrdered ==
  \A i \in DOMAIN b.p :
    /\ i > 0 => ~min_heap_elem_greater(b, b.p[Parent(i)], b.p[i])
    /\ b.idx[b.p[i]] = i

InQueue(k, e) == \E i \in 1 .. Len(b.queue[k]) : b.queue[k][i] = e

\* What event_base_assert_ok_nolock_ asserts: an event with EVLIST_TIMEOUT is in the heap or
\* in the queue its timeout names, once, and the queues are sorted.
TimeoutsMatchLists ==
  /\ \A e \in Elements :
       /\ (\E i \in DOMAIN b.p : b.p[i] = e) <=> (e \in b.set /\ b.timeout[e].q = None)
       /\ \A k \in Queues : InQueue(k, e) <=> (e \in b.set /\ b.timeout[e].q = k)
  /\ \A k \in Queues : \A i, j \in 1 .. Len(b.queue[k]) : i < j =>
       /\ b.queue[k][i] # b.queue[k][j]
       /\ b.timeout[b.queue[k][i]].t =< b.timeout[b.queue[k][j]].t

\* When the loop computes how long to wait, the top of the heap is not later than any
\* timeout, also of the events that are only in a common queue, unless the queue's internal
\* event is active, which keeps the loop from waiting.
EarliestIsOnTop ==
  pc = "wait" /\ b.active = <<>> => \A e \in b.set :
    0 \in DOMAIN b.p /\ b.timeout[min_heap_top_(b)].t =< b.timeout[e].t

\* The assertion of event_persist_closure: a persistent event with an interval was last
\* scheduled in the queue of that interval.
SameCommonTimeout ==
  \A e \in Persist : ev_io_timeout[e].t # 0 => b.timeout[e].q = ev_io_timeout[e].q

\* Heap, indices, queues, EVLIST_TIMEOUT and the intervals of persistent events describe
\* the same timeouts, whatever was added, erased, fired or scheduled again.
HeapAndQueuesAgree ==
  /\ HeapOrdered
  /\ TimeoutsMatchLists
  /\ SameCommonTimeout

=============================================================================
