------------------------------ MODULE RateLimit ------------------------------
(***************************************************************************)
(* bufferevent_ratelim.c: token buckets for bufferevents and for groups of *)
(* them.  A function runs under the lock of its bufferevent; the lock of   *)
(* the group nests inside, so a sweep over the group only tries the locks  *)
(* of the other members and may fail for any of them.  The clock is        *)
(* reduced to the age of each bucket, the ticks since its last update.     *)
(***************************************************************************)
EXTENDS Integers, FiniteSets

CONSTANTS RateSetups,  \* [bevs, dirs: the directions used, cfgs: configurations
                       \*  [rate, max], own, grouped: BOOLEAN, n: calls]
          MaxAge       \* bound: ticks between two updates

VARIABLE rl   \* [s: the setup, b: bufferevents, g: the group]

NoCfg == [rate |-> 0, max |-> 0]

-----------------------------------------------------------------------------
(* Buckets: [limit: per direction, age].                                   *)

ev_token_bucket_init_(k, cfg, reinit) ==
    IF reinit THEN [k EXCEPT !.limit = [d \in DOMAIN @ |-> IF @[d] > cfg.max THEN cfg.max ELSE @[d]]]
    ELSE [k EXCEPT !.limit = [d \in DOMAIN @ |-> cfg.rate], !.age = 0]

\* Mutant: the burst is not a limit for what an idle bucket collects.
update_without_max(k, cfg) ==
    IF k.age <= 0 THEN k
    ELSE [k EXCEPT !.limit = [d \in DOMAIN @ |-> @[d] + k.age * cfg.rate], !.age = 0]

\* A clock that was set back (age < 0) leaves the bucket as it is.
ev_token_bucket_update_(k, cfg) ==
    IF k.age <= 0 THEN k
    ELSE [k EXCEPT !.limit = [d \in DOMAIN @ |->
                      IF (cfg.max - @[d]) \div k.age < cfg.rate THEN cfg.max
                      ELSE @[d] + k.age * cfg.rate],
                   !.age = 0]

-----------------------------------------------------------------------------
(* A bufferevent: [cfg, k: its bucket, susp: per direction, refill: the    *)
(* event is pending, member, adding].                                      *)

suspend(v, d, why) == [v EXCEPT !.susp[d] = @ \cup {why}]
unsuspend(v, d, why) == [v EXCEPT !.susp[d] = @ \ {why}]
Suspended(v, why) == \E d \in DOMAIN v.susp : why \in v.susp[d]

\* The rest of bufferevent_decrement_*_buckets_ and _limit for the own bucket:
\* suspend and wait for the refill, or go on; the timer serves both directions.
Exhausted(v, d) == [suspend(v, d, "BW") EXCEPT !.refill = TRUE]
GoesOn(v, d) ==
    [unsuspend(v, d, "BW") EXCEPT
        !.refill = @ /\ \E o \in DOMAIN v.susp \ {d} : "BW" \in v.susp[o]]

bufferevent_decrement_buckets_(v, d, n) ==
    LET w == [v EXCEPT !.k.limit[d] = @ - n]
    IN IF v.cfg = NoCfg THEN v
       ELSE IF w.k.limit[d] <= 0 THEN Exhausted(w, d)
       ELSE IF "BW" \in w.susp[d] THEN GoesOn(w, d) ELSE w

bufferevent_decrement_limit(v, d, n) ==
    LET w == [v EXCEPT !.k.limit[d] = @ - n]
    IN IF v.k.limit[d] > 0 /\ w.k.limit[d] <= 0 THEN Exhausted(w, d)
       ELSE IF v.k.limit[d] <= 0 /\ w.k.limit[d] > 0 THEN GoesOn(w, d)
       ELSE w

\* Mutant: a bucket that is still empty after one tick is not waited for.
refill_once(v) ==
    LET w == [v EXCEPT !.k = ev_token_bucket_update_(@, v.cfg), !.refill = FALSE]
        dry == {d \in DOMAIN w.susp : "BW" \in w.susp[d] /\ w.k.limit[d] <= 0}
    IN [w EXCEPT !.susp = [d \in DOMAIN @ |-> IF d \in dry THEN @[d] ELSE @[d] \ {"BW"}]]

bev_refill_callback_(v) ==
    LET w == [v EXCEPT !.k = ev_token_bucket_update_(@, v.cfg), !.refill = FALSE]
        dry == {d \in DOMAIN w.susp : "BW" \in w.susp[d] /\ w.k.limit[d] <= 0}
    IN IF v.cfg = NoCfg THEN [v EXCEPT !.refill = FALSE]
       ELSE [w EXCEPT !.susp = [d \in DOMAIN @ |-> IF d \in dry THEN @[d] ELSE @[d] \ {"BW"}],
                      !.refill = dry # {}]

bufferevent_set_rate_limit(v, cfg) ==
    LET k == ev_token_bucket_init_(v.k, cfg, v.cfg # NoCfg)
        dry == {d \in DOMAIN v.susp : k.limit[d] <= 0}
        none == [v EXCEPT !.cfg = NoCfg, !.refill = FALSE,
                          !.susp = [d \in DOMAIN @ |-> @[d] \ {"BW"}]]
    IN IF cfg = NoCfg THEN none
       ELSE IF cfg = v.cfg THEN v
       ELSE [v EXCEPT !.cfg = cfg, !.k = k, !.refill = dry # {},
                      !.susp = [d \in DOMAIN @ |-> IF d \in dry THEN @[d] \cup {"BW"}
                                                   ELSE @[d] \ {"BW"}]]

-----------------------------------------------------------------------------
(* The group: [cfg, k, susp: directions, pend: directions, share].         *)

Members(r) == {x \in r.s.bevs : r.b[x].member}

\* `locked' are the bufferevents whose locks are held by other threads.
bev_group_suspend_(r, d, locked) ==
    LET g == [r.g EXCEPT !.susp = @ \cup {d}, !.pend = @ \ {d}]
    IN [r EXCEPT !.g = g,
                 !.b = [x \in DOMAIN @ |-> IF r.b[x].member /\ x \notin locked
                                           THEN suspend(@[x], d, "GROUP") ELSE @[x]]]

bev_group_unsuspend_(r, d, locked) ==
    LET g == [r.g EXCEPT !.susp = @ \ {d},
                         !.pend = IF locked \cap Members(r) # {} THEN @ \cup {d} ELSE @ \ {d}]
    IN [r EXCEPT !.g = g,
                 !.b = [x \in DOMAIN @ |-> IF r.b[x].member /\ x \notin locked
                                           THEN unsuspend(@[x], d, "GROUP") ELSE @[x]]]

\* The bytes that x moved are taken from the group's bucket.
DecrementGroup(r, d, n, locked) ==
    LET q == [r EXCEPT !.g.k.limit[d] = @ - n]
    IN IF q.g.k.limit[d] <= 0 THEN bev_group_suspend_(q, d, locked)
       ELSE IF d \in q.g.susp THEN bev_group_unsuspend_(q, d, locked) ELSE q

bufferevent_rate_limit_group_decrement(r, d, n, locked) ==
    LET q == [r EXCEPT !.g.k.limit[d] = @ - n]
    IN IF r.g.k.limit[d] > 0 /\ q.g.k.limit[d] <= 0 THEN bev_group_suspend_(q, d, locked)
       ELSE IF r.g.k.limit[d] <= 0 /\ q.g.k.limit[d] > 0 THEN bev_group_unsuspend_(q, d, locked)
       ELSE q

\* Shares are never larger than what one tick brings.
min_share(share, cfg) == IF share > cfg.rate THEN cfg.rate ELSE share

Woken(v, dirs) ==
    [v EXCEPT !.susp = [d \in DOMAIN @ |-> IF d \in dirs THEN @[d] \ {"GROUP"} ELSE @[d]]]

bev_group_refill_callback_(r, locked) ==
    LET k == ev_token_bucket_update_(r.g.k, r.g.cfg)
        go == {d \in r.s.dirs : \/ d \in r.g.pend
                                \/ d \in r.g.susp /\ k.limit[d] >= r.g.share}
        g == [r.g EXCEPT !.k = k, !.susp = @ \ go,
                         !.pend = (@ \ go) \cup (IF locked \cap Members(r) = {} THEN {} ELSE go)]
    IN [r EXCEPT !.g = g,
                 !.b = [x \in DOMAIN @ |-> IF ~@[x].member \/ x \in locked THEN @[x]
                                           ELSE Woken(@[x], go)]]

\* How much x may move now: 0 only if it is, or has just been, suspended.
bufferevent_get_rlim_max_(r, x, d) ==
    LET q == IF r.b[x].cfg = NoCfg THEN r
             ELSE [r EXCEPT !.b[x].k = ev_token_bucket_update_(@, r.b[x].cfg)]
        own == IF q.b[x].cfg = NoCfg THEN q.s.single ELSE q.b[x].k.limit[d]
        part == q.g.k.limit[d] \div Cardinality(Members(q))
        share == IF d \in q.g.susp THEN 0 ELSE IF part < q.g.share THEN q.g.share ELSE part
        max == IF q.b[x].member /\ share < own THEN share ELSE own
    IN [max |-> IF max < 0 THEN 0 ELSE max,
        r |-> IF q.b[x].member /\ d \in q.g.susp
              THEN [q EXCEPT !.b[x] = suspend(@, d, "GROUP")] ELSE q]

-----------------------------------------------------------------------------
NewBucket(dirs, cfg) == [limit |-> [d \in dirs |-> cfg.rate], age |-> 0]

Init == \E s \in RateSetups :
    rl = [s |-> s, left |-> s.n, zero |-> FALSE,
          b |-> [x \in s.bevs |-> [cfg |-> NoCfg, k |-> NewBucket(s.dirs, NoCfg),
                                   susp |-> [d \in s.dirs |-> {}], refill |-> FALSE,
                                   member |-> FALSE, adding |-> {}]],
          g |-> LET c == CHOOSE c \in s.cfgs : TRUE
                IN [cfg |-> c, k |-> NewBucket(s.dirs, c), susp |-> {}, pend |-> {},
                    share |-> min_share(s.share, c)]]

Free(x) == rl.b[x].adding = {}      \* nobody holds the lock of x across steps
Locked(x) == {l \in SUBSET (rl.s.bevs \ {x}) : \A y \in rl.s.bevs \ {x} : ~Free(y) => y \in l}
Calls == rl.left > 0
Counted == [rl EXCEPT !.left = @ - 1]

\* bufferevent_readcb or bufferevent_writecb: as many bytes as allowed, and a
\* filter's or TLS engine's overhead may make it one more.
Transfer(x, d) ==
    /\ Free(x) /\ rl.b[x].susp[d] = {}
    /\ LET a == bufferevent_get_rlim_max_(rl, x, d)
       IN IF a.r.b[x].susp[d] # {} THEN rl' = a.r
          ELSE \E n \in 1..(IF a.max = 0 THEN 1 ELSE a.max) + rl.s.over, locked \in Locked(x) :
                  LET q == [a.r EXCEPT !.b[x] = bufferevent_decrement_buckets_(@, d, n),
                                       !.zero = a.max = 0]
                  IN rl' = IF q.b[x].member THEN DecrementGroup(q, d, n, locked) ELSE q

SetRateLimit(x) ==
    /\ Calls /\ Free(x) /\ rl.s.own
    /\ \E c \in rl.s.cfgs \cup {NoCfg} :
          rl' = [Counted EXCEPT !.b[x] = bufferevent_set_rate_limit(@, c)]

\* bufferevent_get_read_limit and _write_limit bring the bucket up to date.
GetLimit(x) ==
    /\ Free(x) /\ rl.b[x].cfg # NoCfg
    /\ rl' = [rl EXCEPT !.b[x].k = ev_token_bucket_update_(@, rl.b[x].cfg)]

\* The program takes tokens away or puts some back, up to the burst.
DecrementLimit(x, d) ==
    /\ Calls /\ Free(x) /\ rl.b[x].cfg # NoCfg
    /\ \E n \in {-1, 1} :
          /\ rl.b[x].k.limit[d] - n <= rl.b[x].cfg.max
          /\ rl' = [Counted EXCEPT !.b[x] = bufferevent_decrement_limit(@, d, n)]

Refill(x) ==
    /\ rl.b[x].refill /\ Free(x)
    /\ rl' = [rl EXCEPT !.b[x] = bev_refill_callback_(@)]

GroupRefill ==
    /\ rl.s.grouped
    /\ \E locked \in SUBSET rl.s.bevs :
          /\ \A y \in rl.s.bevs : ~Free(y) => y \in locked
          /\ rl' = bev_group_refill_callback_(rl, locked)

GroupDecrement(d) ==
    /\ Calls /\ rl.s.grouped
    /\ \E n \in {-1, 1}, locked \in SUBSET rl.s.bevs :
          /\ rl.g.k.limit[d] - n <= rl.g.cfg.max
          /\ \A y \in rl.s.bevs : ~Free(y) => y \in locked
          /\ rl' = bufferevent_rate_limit_group_decrement(Counted, d, n, locked)

GroupSetCfg ==
    /\ Calls /\ rl.s.grouped
    /\ \E c \in rl.s.cfgs :
          rl' = [Counted EXCEPT !.g.cfg = c, !.g.share = min_share(rl.s.share, c),
                                !.g.k = ev_token_bucket_init_(@, c, TRUE)]

\* bufferevent_add_to_rate_limit_group reads the state of the group under the
\* group's lock and acts on it behind, still under the lock of the bufferevent.
AddToGroup(x) ==
    /\ Calls /\ rl.s.grouped /\ Free(x) /\ ~rl.b[x].member
    /\ rl' = [Counted EXCEPT !.b[x].member = TRUE, !.b[x].adding = {"on"} \cup rl.g.susp]
AddToGroupEnds(x) ==
    /\ ~Free(x)
    /\ rl' = [rl EXCEPT !.b[x].adding = {},
                 !.b[x].susp = [d \in DOMAIN @ |-> IF d \in rl.b[x].adding
                                                   THEN @[d] \cup {"GROUP"} ELSE @[d]]]

bufferevent_remove_from_rate_limit_group(x) ==
    /\ Calls /\ Free(x) /\ rl.b[x].member
    /\ rl' = [Counted EXCEPT !.b[x].member = FALSE,
                 !.b[x].susp = [d \in DOMAIN @ |-> @[d] \ {"GROUP"}]]

\* Time passes, or the clock is set back.
Older(k, n) == [k EXCEPT !.age = IF @ + n > MaxAge THEN MaxAge ELSE IF @ + n < -1 THEN -1 ELSE @ + n]
Aged(v, n) == [v EXCEPT !.k = Older(@, n)]
Tick == \E n \in {-1, 1} :
    rl' = [rl EXCEPT !.b = [x \in DOMAIN @ |-> IF rl.s.own THEN Aged(@[x], n) ELSE @[x]],
                     !.g.k = IF rl.s.grouped THEN Older(@, n) ELSE @]

Next == \/ \E x \in rl.s.bevs :
              \/ SetRateLimit(x) \/ GetLimit(x) \/ Refill(x)
              \/ AddToGroup(x) \/ AddToGroupEnds(x)
              \/ bufferevent_remove_from_rate_limit_group(x)
              \/ \E d \in rl.s.dirs : Transfer(x, d) \/ DecrementLimit(x, d)
        \/ \E d \in rl.s.dirs : GroupDecrement(d)
        \/ GroupRefill \/ GroupSetCfg \/ Tick

-----------------------------------------------------------------------------
\* Who is suspended for want of bandwidth is woken again: a timer is pending
\* for an own bucket; for the group, the sweep that runs every tick has its
\* direction on the list, and nobody outside the group waits for it.
SuspensionsEnd ==
    \A x \in rl.s.bevs, d \in rl.s.dirs :
        /\ "BW" \in rl.b[x].susp[d] => rl.b[x].refill /\ rl.b[x].cfg # NoCfg
        /\ "GROUP" \in rl.b[x].susp[d] => rl.b[x].member /\ d \in rl.g.susp \cup rl.g.pend

\* An empty bucket stops its owners, and whoever is not stopped gets at least
\* one byte: a read of zero bytes would be taken for the end of the stream.
\* No bucket holds more than its burst.
BucketsGovern ==
    /\ ~rl.zero
    /\ \A d \in rl.s.dirs :
          /\ rl.g.k.limit[d] <= 0 => d \in rl.g.susp
          /\ rl.g.k.limit[d] <= rl.g.cfg.max
          /\ \A x \in rl.s.bevs : rl.b[x].cfg # NoCfg =>
                /\ rl.b[x].k.limit[d] <= 0 => "BW" \in rl.b[x].susp[d]
                /\ rl.b[x].k.limit[d] <= rl.b[x].cfg.max
=============================================================================
