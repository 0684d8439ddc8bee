------------------------------- MODULE BevPair -------------------------------
(***************************************************************************)
(* bufferevent_pair.c: two bufferevents, each the other's peer.  Callbacks *)
(* of a pair are always deferred, so a function is one step under the lock *)
(* that both ends share.  Buffers are their lengths.                       *)
(***************************************************************************)
EXTENDS Integers, Sequences

CONSTANTS PairCap,     \* bound: bytes in a buffer
          PairMarks,   \* high watermarks for reading, 0 for none
          PairCalls    \* bound: calls of the program

VARIABLES end,         \* the two bufferevents
          finalizers,  \* the ends whose finalizer is queued, in order
          lock,        \* how often the shared lock was freed
          left         \* calls the program may still make

Ends == 1..2
Partner(e) == 3 - e

\* A step computes a new pair of ends; an end is gone from the other's view
\* once it is unlinked.
be_pair_wants_to_talk(p, src, dst) ==
    /\ p[src].linked /\ p[dst].linked
    /\ "W" \in p[src].enabled /\ "R" \in p[dst].enabled
    /\ ~p[dst].suspended /\ p[src].output > 0

\* bufferevent_trigger_nolock_ with deferred callbacks: one reference for the
\* queue as long as something is in it.
trigger(p, e, what) ==
    IF ~p[e].cbs THEN p
    ELSE [p EXCEPT ![e].pend = @ \cup {what},
                   ![e].refcnt = IF p[e].pend = {} THEN @ + 1 ELSE @]

\* The callback on the input buffer while there is a high mark: reading is
\* suspended (which only stops the timer) or goes on (by the caller).
Suspend(p, e) ==
    IF p[e].high # 0 /\ p[e].input >= p[e].high /\ ~p[e].suspended
    THEN [p EXCEPT ![e].suspended = TRUE, ![e].timer = @ \ {"R"}] ELSE p

Reset(p, e, d) == IF d \in p[e].tmo THEN [p EXCEPT ![e].timer = @ \cup {d}] ELSE p

\* The watermark suspends the reader first, then its timers are set again, for both
\* directions: a reader that is suspended here keeps its read timeout.
be_pair_transfer(p, src, dst, ignore_wm) ==
    LET room == p[dst].high - p[dst].input
        full == p[dst].high # 0 /\ room <= 0
        n == IF p[dst].high = 0 \/ full THEN p[src].output
             ELSE IF room < p[src].output THEN room ELSE p[src].output
        moved == Suspend([p EXCEPT ![src].output = @ - n, ![dst].input = @ + n], dst)
        timed == IF n = 0 /\ (p[dst].high = 0 \/ full) THEN moved
                 ELSE IF p[dst].output > 0 THEN Reset(Reset(moved, dst, "R"), dst, "W")
                 ELSE [Reset(moved, dst, "R") EXCEPT ![dst].timer = @ \ {"W"}]
        told == trigger(timed, dst, "read")
    IN IF full /\ ~ignore_wm THEN p
       ELSE IF told[src].output = 0 THEN trigger(told, src, "write") ELSE told

Talk(p, src, dst) ==
    IF be_pair_wants_to_talk(p, src, dst) THEN be_pair_transfer(p, src, dst, FALSE) ELSE p

be_pair_outbuf_cb(p, e) == Talk(p, e, Partner(e))

be_pair_enable(p, e, D) ==
    LET timed == IF "R" \in D THEN Reset(p, e, "R") ELSE p
        both == IF "W" \in D /\ p[e].output > 0 THEN Reset(timed, e, "W") ELSE timed
        read == IF "R" \in D THEN Talk(both, Partner(e), e) ELSE both
    IN IF "W" \in D THEN Talk(read, e, Partner(e)) ELSE read

be_pair_disable(p, e, D) == [p EXCEPT ![e].timer = @ \ D]

\* Mutant: reading goes on, but nobody looks what the other side has.
inbuf_wm_cb_no_talk(p, e) ==
    IF p[e].high # 0 /\ p[e].input >= p[e].high THEN Suspend(p, e)
    ELSE [p EXCEPT ![e].suspended = FALSE]

\* bufferevent_inbuf_wm_cb and what follows when it lets reading go on.
bufferevent_inbuf_wm_cb(p, e) ==
    IF p[e].high # 0 /\ p[e].input >= p[e].high THEN Suspend(p, e)
    ELSE IF ~p[e].suspended THEN p
    ELSE LET q == [p EXCEPT ![e].suspended = FALSE]
         IN IF "R" \in q[e].enabled THEN be_pair_enable(q, e, {"R"}) ELSE q

bufferevent_inbuf_wm_check(p, e) ==
    IF p[e].high # 0 /\ "R" \in p[e].enabled /\ p[e].input >= p[e].high
    THEN trigger(p, e, "read") ELSE p

be_pair_unlink(p, e) ==
    IF ~p[e].linked THEN p
    ELSE [p EXCEPT ![e].linked = FALSE, ![Partner(e)].linked = FALSE,
                   ![e].unlinked_partner = TRUE]

bufferevent_enable(p, e, D) ==
    be_pair_enable([p EXCEPT ![e].enabled = @ \cup D], e,
                   IF p[e].suspended THEN D \ {"R"} ELSE D)

bufferevent_disable(p, e, D) ==
    be_pair_disable([p EXCEPT ![e].enabled = @ \ D], e, D)

-----------------------------------------------------------------------------
NewEnd(own, tmo) ==
    [enabled |-> {"W"}, suspended |-> FALSE, high |-> 0, input |-> 0, output |-> 0,
     cbs |-> TRUE, pend |-> {}, refcnt |-> 1, linked |-> TRUE, owned |-> TRUE,
     unlinked_partner |-> FALSE, own_lock |-> own, tmo |-> tmo, timer |-> {},
     state |-> "open"]

\* bufferevent_pair_new: the first end owns the lock of both.
Init == /\ \E tmo \in {{}, {"R", "W"}} : end = <<NewEnd(TRUE, tmo), NewEnd(FALSE, tmo)>>
        /\ finalizers = <<>> /\ lock = 0 /\ left = PairCalls

\* The reference counts after a step decide who is finalized.
Settle(p, e) ==
    LET q == [p EXCEPT ![e].refcnt = @ - 1]
    IN IF q[e].refcnt > 0 THEN end' = q /\ UNCHANGED finalizers
       ELSE /\ end' = [be_pair_unlink(q, e) EXCEPT ![e].state = "finalizing",
                                                  ![e].timer = {}]
            /\ finalizers' = Append(finalizers, e)

Calls(e) == end[e].owned /\ left > 0 /\ left' = left - 1 /\ UNCHANGED lock

Write(e) == /\ Calls(e) /\ end[e].output < PairCap
            /\ end' = be_pair_outbuf_cb([end EXCEPT ![e].output = @ + 1], e)
            /\ UNCHANGED finalizers
Read(e) == /\ Calls(e)
           /\ \E n \in 1..end[e].input :
                 end' = bufferevent_inbuf_wm_cb([end EXCEPT ![e].input = @ - n], e)
           /\ UNCHANGED finalizers
Enable(e) == /\ Calls(e)
             /\ \E D \in {{"R"}, {"W"}, {"R", "W"}} : end' = bufferevent_enable(end, e, D)
             /\ UNCHANGED finalizers
Disable(e) == /\ Calls(e)
              /\ \E D \in {{"R"}, {"W"}} : end' = bufferevent_disable(end, e, D)
              /\ UNCHANGED finalizers
SetMark(e) == /\ Calls(e)
              /\ \E m \in PairMarks :
                    end' = bufferevent_inbuf_wm_cb([end EXCEPT ![e].high = m], e)
              /\ UNCHANGED finalizers

\* be_pair_flush; with BEV_FINISHED the partner is told of the end.
Flush(e) ==
    /\ Calls(e) /\ end[e].linked
    /\ \E finished \in BOOLEAN, D \in {{"R"}, {"W"}} :
          LET p == IF "R" \in D THEN be_pair_transfer(end, Partner(e), e, TRUE)
                   ELSE be_pair_transfer(end, e, Partner(e), TRUE)
          IN end' = IF finished THEN trigger(p, Partner(e), "EOF") ELSE p
    /\ UNCHANGED finalizers

Free(e) == /\ Calls(e)
           /\ Settle([end EXCEPT ![e].cbs = FALSE, ![e].owned = FALSE], e)

\* The deferred callback: the program reads what it likes in its read callback.
RunDeferred(e) ==
    /\ end[e].state = "open" /\ end[e].pend # {} /\ UNCHANGED <<lock, left>>
    /\ LET p == [end EXCEPT ![e].pend = {}]
       IN \/ ~p[e].cbs /\ Settle(p, e)
          \/ /\ p[e].cbs
             /\ \E n \in 0..(IF "read" \in end[e].pend THEN p[e].input ELSE 0) :
                   LET q == IF n = 0 THEN p
                            ELSE bufferevent_inbuf_wm_cb([p EXCEPT ![e].input = @ - n], e)
                       r == IF "read" \in end[e].pend THEN bufferevent_inbuf_wm_check(q, e)
                            ELSE q
                   IN Settle(r, e)

\* bufferevent_generic_read_timeout_cb and _write_timeout_cb.
Timeout(e) ==
    /\ end[e].state = "open" /\ UNCHANGED <<lock, left, finalizers>>
    /\ \E d \in end[e].timer :
          end' = trigger(bufferevent_disable(end, e, {d}), e, "TIMEOUT")

\* Mutant: the end that owned the lock frees it.
destruct_keeps_lock(p, e) == p

\* be_pair_destruct: the lock goes to the partner that was left behind.
be_pair_destruct(p, e) ==
    IF p[e].unlinked_partner /\ p[e].own_lock
    THEN [p EXCEPT ![Partner(e)].own_lock = TRUE, ![e].own_lock = FALSE] ELSE p

bufferevent_finalize_cb_ ==
    /\ finalizers # <<>> /\ UNCHANGED left
    /\ LET e == Head(finalizers)
           p == be_pair_destruct(end, e)
       IN /\ finalizers' = Tail(finalizers)
          /\ end' = [p EXCEPT ![e].state = "gone"]
          /\ lock' = IF p[e].own_lock THEN lock + 1 ELSE lock

Next == \/ \E e \in Ends : \/ Write(e) \/ Read(e) \/ Enable(e) \/ Disable(e) \/ SetMark(e)
                           \/ Flush(e) \/ Free(e) \/ RunDeferred(e) \/ Timeout(e)
        \/ bufferevent_finalize_cb_

-----------------------------------------------------------------------------
\* Whatever the order of writing, reading, enabling and moving the marks, no
\* data waits in an output buffer that the other end would take.
PairsTalk == \A e \in Ends : ~be_pair_wants_to_talk(end, e, Partner(e))

\* The lock is freed once, with the second end: each end locks it in its
\* finalizer.  And an end lives as long as its owner or the queue needs it.
SharedLockOutlivesBoth ==
    /\ lock = (IF \A e \in Ends : end[e].state = "gone" THEN 1 ELSE 0)
    /\ \A e \in Ends : /\ end[e].refcnt = (IF end[e].owned THEN 1 ELSE 0)
                                          + (IF end[e].pend # {} THEN 1 ELSE 0)
                       /\ end[e].state = "open" <=> end[e].refcnt > 0
=============================================================================
