-------------------------- MODULE BuffereventProofs --------------------------
(***************************************************************************)
(* For bufferevents.  The token buckets of RateLimit govern, and nobody    *)
(* stays suspended, for any number of bufferevents and any configuration   *)
(* that the library accepts.  The events of a socket bufferevent and of    *)
(* the TLS bufferevent follow their state, for buffers and watermarks of   *)
(* any size and any number of calls.                                       *)
(***************************************************************************)
EXTENDS MCBev, FiniteSetTheorems, TLAPS

Bucket(D) == [limit : [D -> Int], age : Int]
Config(c) == c \in [rate : Nat \ {0}, max : Nat \ {0}] /\ c.rate <= c.max

------------------------------------------------------------------------------
(* Buckets.                                                                *)

\* A quotient that is not below r stands for at least n * r.
LEMMA Quotient ==
  ASSUME NEW a \in Int, NEW n \in Nat \ {0}, NEW r \in Int, ~(a \div n < r)
  PROVE  n * r <= a
<1> DEFINE q == a \div n
<1>1. q \in Int /\ n * q <= a
  OBVIOUS
<1>2. r <= q
  BY <1>1
<1> HIDE DEF q
<1>3. n * r <= n * q
  BY <1>1, <1>2
<1> QED BY <1>1, <1>3

LEMMA Product ==
  ASSUME NEW n \in Nat \ {0}, NEW r \in Nat \ {0}
  PROVE  n * r \in Int /\ n * r > 0
OBVIOUS

\* Bringing a bucket up to date takes nothing away and keeps to the burst.
LEMMA UpdateBucket ==
  ASSUME NEW D, NEW k \in Bucket(D), NEW c, Config(c), \A d \in D : k.limit[d] <= c.max
  PROVE  /\ R!ev_token_bucket_update_(k, c) \in Bucket(D)
         /\ \A d \in D : /\ R!ev_token_bucket_update_(k, c).limit[d] <= c.max
                         /\ R!ev_token_bucket_update_(k, c).limit[d] >= k.limit[d]
<1>1. CASE k.age <= 0
  BY <1>1 DEF R!ev_token_bucket_update_, Bucket
<1>2. CASE k.age > 0
  <2> DEFINE new(d) == IF (c.max - k.limit[d]) \div k.age < c.rate THEN c.max
                       ELSE k.limit[d] + k.age * c.rate
  <2>1. /\ k.age \in Nat \ {0} /\ c.rate \in Nat \ {0} /\ c.max \in Nat \ {0}
        /\ k.limit \in [D -> Int]
    BY <1>2 DEF Bucket, Config
  <2>2. ASSUME NEW d \in D PROVE new(d) \in Int /\ new(d) <= c.max /\ new(d) >= k.limit[d]
    <3>1. k.limit[d] \in Int /\ k.limit[d] <= c.max
      BY <2>1
    <3>2. k.age * c.rate \in Int /\ k.age * c.rate > 0
      BY <2>1, Product
    <3>3. CASE (c.max - k.limit[d]) \div k.age < c.rate
      BY <3>1, <3>3, <2>1
    <3>4. CASE ~((c.max - k.limit[d]) \div k.age < c.rate)
      <4> HIDE DEF new
      <4>0. c.max - k.limit[d] \in Int /\ c.rate \in Int
        BY <3>1, <2>1
      <4>1. k.age * c.rate <= c.max - k.limit[d]
        BY <3>4, <4>0, <2>1, Quotient, Zenon
      <4>2. new(d) = k.limit[d] + k.age * c.rate
        BY <3>4 DEF new
      <4>3. ASSUME NEW p \in Int, p > 0, NEW l \in Int, NEW x \in Int, p <= x - l
            PROVE  l + p \in Int /\ l + p <= x /\ l + p >= l
        BY <4>3
      <4> QED BY <4>1, <4>2, <4>3, <3>1, <3>2, <2>1
    <3> QED BY <3>3, <3>4
  <2>3. R!ev_token_bucket_update_(k, c) = [k EXCEPT !.limit = [d \in D |-> new(d)], !.age = 0]
    <3>1. DOMAIN k.limit = D /\ ~(k.age <= 0)
      BY <1>2, <2>1
    <3> QED BY <3>1, Zenon DEF R!ev_token_bucket_update_
  <2> HIDE DEF new
  <2>4. DOMAIN k = {"limit", "age"}
    BY DEF Bucket
  <2>5. R!ev_token_bucket_update_(k, c) = [limit |-> [d \in D |-> new(d)], age |-> 0]
    BY <2>3, <2>4
  <2> QED BY <2>2, <2>5 DEF Bucket
<1> QED BY <1>1, <1>2 DEF Bucket

\* ev_token_bucket_init_ keeps to the burst and leaves no bucket emptier than it was,
\* unless it was above the new burst.
LEMMA InitBucket ==
  ASSUME NEW D, NEW k \in Bucket(D), NEW c, c.rate \in Int, c.max \in Int, c.rate <= c.max,
         NEW reinit
  PROVE  /\ R!ev_token_bucket_init_(k, c, reinit) \in Bucket(D)
         /\ \A d \in D :
               /\ R!ev_token_bucket_init_(k, c, reinit).limit[d] <= c.max
               /\ reinit => R!ev_token_bucket_init_(k, c, reinit).limit[d] \in {k.limit[d], c.max}
<1>1. DOMAIN k = {"limit", "age"} /\ DOMAIN k.limit = D /\ k.age \in Int /\ k.limit \in [D -> Int]
  BY DEF Bucket
<1>2. CASE reinit
  <2> DEFINE l == [d \in D |-> IF k.limit[d] > c.max THEN c.max ELSE k.limit[d]]
  <2>1. R!ev_token_bucket_init_(k, c, reinit) = [limit |-> l, age |-> k.age]
    BY <1>1, <1>2 DEF R!ev_token_bucket_init_
  <2>2. l \in [D -> Int] /\ \A d \in D : l[d] <= c.max /\ l[d] \in {k.limit[d], c.max}
    BY <1>1
  <2> HIDE DEF l
  <2> QED BY <1>1, <2>1, <2>2 DEF Bucket
<1>3. CASE ~reinit
  <2> DEFINE l == [d \in D |-> c.rate]
  <2>1. R!ev_token_bucket_init_(k, c, reinit) = [limit |-> l, age |-> 0]
    BY <1>1, <1>3 DEF R!ev_token_bucket_init_
  <2> QED BY <1>3, <2>1 DEF Bucket
<1> QED BY <1>2, <1>3

------------------------------------------------------------------------------
(* One bufferevent and its own bucket.                                     *)

Bev(s) == [cfg : s.cfgs \cup {R!NoCfg}, k : Bucket(s.dirs),
           susp : [s.dirs -> SUBSET {"BW", "GROUP"}], refill : BOOLEAN,
           member : BOOLEAN, adding : SUBSET ({"on"} \cup s.dirs)]

\* A bucket with a configuration keeps to the burst, and stops its owner when it is
\* empty; who was stopped has the refill event pending.
OwnOK(v, s) ==
  /\ v \in Bev(s)
  /\ v.cfg # R!NoCfg => \A d \in s.dirs : /\ v.k.limit[d] <= 0 => "BW" \in v.susp[d]
                                          /\ v.k.limit[d] <= v.cfg.max
  /\ \A d \in s.dirs : "BW" \in v.susp[d] => v.refill /\ v.cfg # R!NoCfg

\* What the group has to do with a bufferevent is the same in v and w.
SameForGroup(v, w, s) ==
  /\ w.member = v.member /\ w.adding = v.adding
  /\ \A d \in s.dirs : "GROUP" \in w.susp[d] <=> "GROUP" \in v.susp[d]

Setup(s) == s \in RateSetups

LEMMA SetupTypes ==
  ASSUME NEW s, Setup(s)
  PROVE  /\ \A c \in s.cfgs : Config(c) /\ c # R!NoCfg
         /\ s.share \in Nat \ {0} /\ s.single \in Nat \ {0} /\ s.over \in Nat /\ s.n \in Nat
         /\ IsFiniteSet(s.bevs) /\ s.cfgs # {} /\ "on" \notin s.dirs
BY RateAssumption DEF Setup, Config, R!NoCfg

\* bufferevent_update_buckets.
LEMMA UpdateOwn ==
  ASSUME NEW s, Setup(s), NEW v, OwnOK(v, s), v.cfg # R!NoCfg
  PROVE  /\ OwnOK([v EXCEPT !.k = R!ev_token_bucket_update_(@, v.cfg)], s)
         /\ SameForGroup(v, [v EXCEPT !.k = R!ev_token_bucket_update_(@, v.cfg)], s)
<1> DEFINE k == R!ev_token_bucket_update_(v.k, v.cfg)
<1>1. Config(v.cfg) /\ v.k \in Bucket(s.dirs) /\ \A d \in s.dirs : v.k.limit[d] <= v.cfg.max
  BY SetupTypes DEF OwnOK, Bev
<1>2. /\ k \in Bucket(s.dirs)
      /\ \A d \in s.dirs : k.limit[d] <= v.cfg.max /\ k.limit[d] >= v.k.limit[d]
  BY <1>1, UpdateBucket
<1> HIDE DEF k
<1>3. \A d \in s.dirs : k.limit[d] \in Int /\ v.k.limit[d] \in Int
  BY <1>1, <1>2 DEF Bucket
<1>4. \A d \in s.dirs : k.limit[d] <= 0 => v.k.limit[d] <= 0
  BY <1>2, <1>3
<1>5. OwnOK([v EXCEPT !.k = k], s) /\ SameForGroup(v, [v EXCEPT !.k = k], s)
  BY <1>2, <1>4 DEF OwnOK, Bev, SameForGroup
<1> QED BY <1>5 DEF k

\* w is v with another number of tokens for the direction d.
Spent(v, w, d, s) ==
  /\ w.k \in Bucket(s.dirs) /\ w = [v EXCEPT !.k = w.k]
  /\ \A e \in s.dirs \ {d} : w.k.limit[e] = v.k.limit[e]
  /\ w.k.limit[d] <= v.cfg.max

LEMMA SpentLimit ==
  ASSUME NEW s, Setup(s), NEW v, OwnOK(v, s), v.cfg # R!NoCfg, NEW d \in s.dirs, NEW n \in Int,
         v.k.limit[d] - n <= v.cfg.max
  PROVE  /\ Spent(v, [v EXCEPT !.k.limit[d] = @ - n], d, s)
         /\ [v EXCEPT !.k.limit[d] = @ - n].k.limit[d] = v.k.limit[d] - n
         /\ v.k.limit[d] \in Int
BY DEF OwnOK, Bev, Bucket, Spent

LEMMA ExhaustedOwn ==
  ASSUME NEW s, Setup(s), NEW v, OwnOK(v, s), v.cfg # R!NoCfg, NEW d \in s.dirs,
         NEW w, Spent(v, w, d, s)
  PROVE  OwnOK(R!Exhausted(w, d), s) /\ SameForGroup(v, R!Exhausted(w, d), s)
<1> DEFINE x == [v EXCEPT !.k = w.k, !.susp = [v.susp EXCEPT ![d] = v.susp[d] \cup {"BW"}], !.refill = TRUE]
<1>1. v \in Bev(s) /\ DOMAIN v.susp = s.dirs
  BY DEF OwnOK, Bev
<1>2. R!Exhausted(w, d) = x
  BY <1>1 DEF R!Exhausted, R!suspend, Spent, Bev
<1>3. x \in Bev(s)
  BY <1>1 DEF Bev, Spent
<1>4. /\ x.cfg = v.cfg /\ x.k = w.k /\ x.refill = TRUE /\ "BW" \in x.susp[d]
      /\ x.member = v.member /\ x.adding = v.adding
      /\ \A e \in s.dirs \ {d} : x.susp[e] = v.susp[e]
      /\ "GROUP" \in x.susp[d] <=> "GROUP" \in v.susp[d]
  BY <1>1 DEF Bev
<1> HIDE DEF x
<1> QED BY <1>2, <1>3, <1>4 DEF OwnOK, SameForGroup, Spent

LEMMA GoesOnOwn ==
  ASSUME NEW s, Setup(s), NEW v, OwnOK(v, s), v.cfg # R!NoCfg, NEW d \in s.dirs,
         NEW w, Spent(v, w, d, s), ~(w.k.limit[d] <= 0)
  PROVE  OwnOK(R!GoesOn(w, d), s) /\ SameForGroup(v, R!GoesOn(w, d), s)
<1> DEFINE ref == v.refill /\ \E o \in s.dirs \ {d} : "BW" \in v.susp[o]
           x == [v EXCEPT !.k = w.k, !.susp = [v.susp EXCEPT ![d] = v.susp[d] \ {"BW"}], !.refill = ref]
<1>1. v \in Bev(s) /\ DOMAIN v.susp = s.dirs
  BY DEF OwnOK, Bev
<1>2. R!GoesOn(w, d) = x
  BY <1>1 DEF R!GoesOn, R!unsuspend, Spent, Bev
<1>3. x \in Bev(s)
  BY <1>1 DEF Bev, Spent
<1>4. /\ x.cfg = v.cfg /\ x.k = w.k /\ "BW" \notin x.susp[d]
      /\ x.member = v.member /\ x.adding = v.adding
      /\ \A e \in s.dirs \ {d} : x.susp[e] = v.susp[e]
      /\ "GROUP" \in x.susp[d] <=> "GROUP" \in v.susp[d]
  BY <1>1 DEF Bev
<1>5. \A e \in s.dirs : "BW" \in x.susp[e] => x.refill
  <2>1. x.refill = ref
    BY <1>1 DEF Bev
  <2>2. \A e \in s.dirs : "BW" \in v.susp[e] => v.refill
    BY DEF OwnOK
  <2> HIDE DEF x
  <2> QED BY <1>4, <2>1, <2>2
<1> HIDE DEF x
<1> QED BY <1>2, <1>3, <1>4, <1>5 DEF OwnOK, SameForGroup, Spent

LEMMA StaysOwn ==
  ASSUME NEW s, Setup(s), NEW v, OwnOK(v, s), v.cfg # R!NoCfg, NEW d \in s.dirs,
         NEW w, Spent(v, w, d, s), w.k.limit[d] <= 0 => "BW" \in v.susp[d]
  PROVE  OwnOK(w, s) /\ SameForGroup(v, w, s)
<1>1. v \in Bev(s)
  BY DEF OwnOK
<1>2. /\ w \in Bev(s) /\ w.cfg = v.cfg /\ w.susp = v.susp /\ w.refill = v.refill
      /\ w.member = v.member /\ w.adding = v.adding
  BY <1>1 DEF Spent, Bev
<1> QED BY <1>2 DEF OwnOK, SameForGroup, Spent

\* bufferevent_decrement_read_buckets_ and _write_buckets_.
LEMMA DecrementOwn ==
  ASSUME NEW s, Setup(s), NEW v, OwnOK(v, s), NEW d \in s.dirs, NEW n \in Nat
  PROVE  /\ OwnOK(R!bufferevent_decrement_buckets_(v, d, n), s)
         /\ SameForGroup(v, R!bufferevent_decrement_buckets_(v, d, n), s)
<1> DEFINE w == [v EXCEPT !.k.limit[d] = @ - n]
<1>1. CASE v.cfg = R!NoCfg
  BY <1>1 DEF R!bufferevent_decrement_buckets_, SameForGroup
<1>2. CASE v.cfg # R!NoCfg
  <2>1. v.k.limit[d] - n <= v.cfg.max /\ w.susp = v.susp /\ n \in Int
    BY <1>2, SetupTypes DEF OwnOK, Bev, Bucket, Config
  <2>2. Spent(v, w, d, s)
    BY <1>2, <2>1, SpentLimit
  <2> HIDE DEF w
  <2>3. R!bufferevent_decrement_buckets_(v, d, n) =
          IF w.k.limit[d] <= 0 THEN R!Exhausted(w, d)
          ELSE IF "BW" \in w.susp[d] THEN R!GoesOn(w, d) ELSE w
    BY <1>2 DEF R!bufferevent_decrement_buckets_, w
  <2>4. CASE w.k.limit[d] <= 0
    BY <1>2, <2>2, <2>3, <2>4, ExhaustedOwn
  <2>5. CASE ~(w.k.limit[d] <= 0)
    BY <1>2, <2>2, <2>3, <2>5, GoesOnOwn, StaysOwn
  <2> QED BY <2>4, <2>5
<1> QED BY <1>1, <1>2

\* bufferevent_decrement_read_limit and _write_limit, which may also put tokens back.
LEMMA DecrementLimitOwn ==
  ASSUME NEW s, Setup(s), NEW v, OwnOK(v, s), v.cfg # R!NoCfg, NEW d \in s.dirs, NEW n \in Int,
         v.k.limit[d] - n <= v.cfg.max
  PROVE  /\ OwnOK(R!bufferevent_decrement_limit(v, d, n), s)
         /\ SameForGroup(v, R!bufferevent_decrement_limit(v, d, n), s)
<1> DEFINE w == [v EXCEPT !.k.limit[d] = @ - n]
<1>1. Spent(v, w, d, s) /\ v.k.limit[d] \in Int /\ w.k.limit[d] \in Int
  BY SpentLimit
<1> HIDE DEF w
<1>2. v.k.limit[d] <= 0 => "BW" \in v.susp[d]
  BY DEF OwnOK
<1>3. R!bufferevent_decrement_limit(v, d, n) =
        IF v.k.limit[d] > 0 /\ w.k.limit[d] <= 0 THEN R!Exhausted(w, d)
        ELSE IF v.k.limit[d] <= 0 /\ w.k.limit[d] > 0 THEN R!GoesOn(w, d) ELSE w
  BY DEF R!bufferevent_decrement_limit, w
<1>4. CASE v.k.limit[d] > 0 /\ w.k.limit[d] <= 0
  BY <1>1, <1>3, <1>4, ExhaustedOwn
<1>5. CASE v.k.limit[d] <= 0 /\ w.k.limit[d] > 0
  <2>1. ~(w.k.limit[d] <= 0) /\ ~(v.k.limit[d] > 0)
    BY <1>1, <1>5
  <2> QED BY <1>1, <1>3, <1>5, <2>1, GoesOnOwn
<1>6. CASE ~(v.k.limit[d] > 0 /\ w.k.limit[d] <= 0) /\ ~(v.k.limit[d] <= 0 /\ w.k.limit[d] > 0)
  <2>1. w.k.limit[d] <= 0 => "BW" \in v.susp[d]
    BY <1>1, <1>2, <1>6
  <2> QED BY <1>1, <1>3, <1>6, <2>1, StaysOwn
<1> QED BY <1>4, <1>5, <1>6

\* bev_refill_callback_: who is still without tokens waits for the next tick.
LEMMA RefillOwn ==
  ASSUME NEW s, Setup(s), NEW v, OwnOK(v, s)
  PROVE  /\ OwnOK(R!bev_refill_callback_(v), s)
         /\ SameForGroup(v, R!bev_refill_callback_(v), s)
<1>1. CASE v.cfg = R!NoCfg
  BY <1>1 DEF R!bev_refill_callback_, OwnOK, Bev, SameForGroup
<1>2. CASE v.cfg # R!NoCfg
  <2> DEFINE k == R!ev_token_bucket_update_(v.k, v.cfg)
             dry == {d \in s.dirs : "BW" \in v.susp[d] /\ k.limit[d] <= 0}
             su == [d \in s.dirs |-> IF d \in dry THEN v.susp[d] ELSE v.susp[d] \ {"BW"}]
             x == [v EXCEPT !.k = k, !.susp = su, !.refill = dry # {}]
  <2>1. v \in Bev(s) /\ DOMAIN v.susp = s.dirs
    BY DEF OwnOK, Bev
  <2>2. R!bev_refill_callback_(v) = x
    BY <1>2, <2>1, ZenonT(40) DEF R!bev_refill_callback_, Bev
  <2>3. /\ k \in Bucket(s.dirs)
        /\ \A d \in s.dirs : k.limit[d] <= v.cfg.max /\ (k.limit[d] <= 0 => "BW" \in v.susp[d])
    <3>1. OwnOK([v EXCEPT !.k = k], s)
      BY <1>2, UpdateOwn
    <3>2. [v EXCEPT !.k = k].k = k /\ [v EXCEPT !.k = k].cfg = v.cfg
          /\ [v EXCEPT !.k = k].susp = v.susp
      BY <2>1 DEF Bev
    <3> QED BY <1>2, <2>1, <3>1, <3>2 DEF OwnOK, Bev
  <2> HIDE DEF k
  <2>4. x \in Bev(s)
    BY <2>1, <2>3 DEF Bev
  <2>5. /\ x.cfg = v.cfg /\ x.k = k /\ x.susp = su /\ (x.refill <=> dry # {})
        /\ x.member = v.member /\ x.adding = v.adding
    BY <2>1 DEF Bev
  <2> HIDE DEF x
  <2>6. \A d \in s.dirs : "BW" \in su[d] <=> d \in dry
    OBVIOUS
  <2>7. \A d \in s.dirs : "GROUP" \in su[d] <=> "GROUP" \in v.susp[d]
    OBVIOUS
  <2>8. \A d \in s.dirs : k.limit[d] <= 0 => d \in dry
    BY <2>3
  <2> HIDE DEF su, dry
  <2> QED BY <1>2, <2>2, <2>3, <2>4, <2>5, <2>6, <2>7, <2>8 DEF OwnOK, SameForGroup
<1> QED BY <1>1, <1>2

\* bufferevent_set_rate_limit.
LEMMA SetOwn ==
  ASSUME NEW s, Setup(s), NEW v, OwnOK(v, s), NEW c \in s.cfgs \cup {R!NoCfg}
  PROVE  /\ OwnOK(R!bufferevent_set_rate_limit(v, c), s)
         /\ SameForGroup(v, R!bufferevent_set_rate_limit(v, c), s)
<1>0. v \in Bev(s) /\ DOMAIN v.susp = s.dirs /\ DOMAIN v.k.limit = s.dirs
  BY DEF OwnOK, Bev, Bucket
<1>1. CASE c = R!NoCfg
  <2> DEFINE su == [d \in s.dirs |-> v.susp[d] \ {"BW"}]
             x == [v EXCEPT !.cfg = R!NoCfg, !.refill = FALSE, !.susp = su]
  <2>1. R!bufferevent_set_rate_limit(v, c) = x
    BY <1>0, <1>1 DEF R!bufferevent_set_rate_limit
  <2>2. /\ x \in Bev(s) /\ x.cfg = R!NoCfg /\ x.susp = su
        /\ x.member = v.member /\ x.adding = v.adding
    BY <1>0 DEF Bev
  <2> HIDE DEF x
  <2> QED BY <2>1, <2>2 DEF OwnOK, SameForGroup
<1>2. CASE c # R!NoCfg /\ c = v.cfg
  BY <1>2 DEF R!bufferevent_set_rate_limit, SameForGroup
<1>3. CASE c # R!NoCfg /\ c # v.cfg
  <2> DEFINE k == R!ev_token_bucket_init_(v.k, c, v.cfg # R!NoCfg)
             dry == {d \in s.dirs : k.limit[d] <= 0}
             su == [d \in s.dirs |-> IF d \in dry THEN v.susp[d] \cup {"BW"} ELSE v.susp[d] \ {"BW"}]
             x == [v EXCEPT !.cfg = c, !.k = k, !.refill = dry # {}, !.susp = su]
  <2>1. R!bufferevent_set_rate_limit(v, c) = x
    BY <1>0, <1>3 DEF R!bufferevent_set_rate_limit
  <2>2. k \in Bucket(s.dirs) /\ \A d \in s.dirs : k.limit[d] <= c.max
    <3>1. c.rate \in Int /\ c.max \in Int /\ c.rate <= c.max
      BY <1>3, SetupTypes DEF Config
    <3>2. v.k \in Bucket(s.dirs)
      BY <1>0 DEF Bev
    <3> QED BY <3>1, <3>2, InitBucket
  <2> HIDE DEF k
  <2>3. /\ x \in Bev(s) /\ x.cfg = c /\ x.k = k /\ x.susp = su /\ (x.refill <=> dry # {})
        /\ x.member = v.member /\ x.adding = v.adding
    BY <1>0, <2>2 DEF Bev
  <2> HIDE DEF x
  <2>4. \A d \in s.dirs : /\ "BW" \in su[d] <=> d \in dry
                          /\ "GROUP" \in su[d] <=> "GROUP" \in v.susp[d]
                          /\ k.limit[d] <= 0 => d \in dry
    OBVIOUS
  <2> HIDE DEF su, dry
  <2> QED BY <1>3, <2>1, <2>2, <2>3, <2>4 DEF OwnOK, SameForGroup
<1> QED BY <1>1, <1>2, <1>3

------------------------------------------------------------------------------
(* The group and its members.                                              *)

GroupType(g, s) == g \in [cfg : s.cfgs, k : Bucket(s.dirs), susp : SUBSET s.dirs,
                          pend : SUBSET s.dirs, share : Nat \ {0}]

\* An empty bucket has its direction suspended, and is not on the list of directions
\* that were let go while the lock of a member was taken.
DirOK(g, d) ==
  /\ g.k.limit[d] <= 0 => d \in g.susp
  /\ g.k.limit[d] <= g.cfg.max
  /\ d \in g.pend => g.k.limit[d] > 0

\* Who waits for the group, or is about to, belongs to it and waits for a direction
\* that the sweep of a later tick will look at.
MemberOK(v, s, g) ==
  /\ v.adding # {} => v.member
  /\ \A d \in s.dirs : d \in v.adding => d \in g.susp \cup g.pend
  /\ \A d \in s.dirs : "GROUP" \in v.susp[d] => v.member /\ d \in g.susp \cup g.pend

BevsOK(b, s, g) ==
  /\ b \in [s.bevs -> Bev(s)]
  /\ \A x \in s.bevs : OwnOK(b[x], s) /\ MemberOK(b[x], s, g)

Record(r) == r = [s |-> r.s, left |-> r.left, zero |-> r.zero, b |-> r.b, g |-> r.g]

\* All but the group's buckets.
Apart(r) == Record(r) /\ Setup(r.s) /\ r.zero = FALSE /\ GroupType(r.g, r.s) /\ BevsOK(r.b, r.s, r.g)

RateOK(r) == Apart(r) /\ \A d \in r.s.dirs : DirOK(r.g, d)

\* Those that hold a lock between two steps of joining the group are in locked.
Covers(locked, r) == \A y \in r.s.bevs : r.b[y].adding # {} => y \in locked

LEMMA Recompose ==
  ASSUME NEW r, Record(r), NEW b, NEW g, NEW q, q = [r EXCEPT !.g = g, !.b = b]
  PROVE  q = [s |-> r.s, left |-> r.left, zero |-> r.zero, b |-> b, g |-> g]
BY DEF Record

LEMMA Recount ==
  ASSUME NEW r, Record(r), r.zero = FALSE, NEW q, q = [r EXCEPT !.left = @ - 1]
  PROVE  q = [s |-> r.s, left |-> r.left - 1, zero |-> FALSE, b |-> r.b, g |-> r.g]
BY DEF Record

LEMMA ReplaceBev ==
  ASSUME NEW s, NEW b, NEW g, BevsOK(b, s, g), NEW x \in s.bevs, NEW w, OwnOK(w, s),
         SameForGroup(b[x], w, s)
  PROVE  BevsOK([b EXCEPT ![x] = w], s, g)
BY DEF BevsOK, OwnOK, SameForGroup, MemberOK

With(v, su, m, a) == [v EXCEPT !.susp = su, !.member = m, !.adding = a]

\* Setting or clearing the group's reason leaves the own bucket's business alone.
LEMMA GroupReason ==
  ASSUME NEW s, NEW v, OwnOK(v, s), NEW su \in [s.dirs -> SUBSET {"BW", "GROUP"}],
         \A d \in s.dirs : "BW" \in su[d] <=> "BW" \in v.susp[d],
         NEW m \in BOOLEAN, NEW a \in SUBSET ({"on"} \cup s.dirs)
  PROVE  /\ OwnOK(With(v, su, m, a), s) /\ With(v, su, m, a) \in Bev(s)
         /\ With(v, su, m, a).susp = su /\ With(v, su, m, a).member = m
         /\ With(v, su, m, a).adding = a
<1> DEFINE w == With(v, su, m, a)
<1>1. v \in Bev(s)
  BY DEF OwnOK
<1>2. /\ w \in Bev(s) /\ w.cfg = v.cfg /\ w.k = v.k /\ w.refill = v.refill /\ w.susp = su
      /\ w.member = m /\ w.adding = a
  BY <1>1 DEF Bev, With
<1> QED BY <1>2 DEF OwnOK

LEMMA SuspendMember ==
  ASSUME NEW s, NEW v, OwnOK(v, s), NEW d \in s.dirs
  PROVE  /\ OwnOK(R!suspend(v, d, "GROUP"), s)
         /\ R!suspend(v, d, "GROUP") \in Bev(s)
         /\ R!suspend(v, d, "GROUP").member = v.member
         /\ R!suspend(v, d, "GROUP").adding = v.adding
         /\ \A e \in s.dirs : "GROUP" \in R!suspend(v, d, "GROUP").susp[e]
                               <=> "GROUP" \in v.susp[e] \/ e = d
<1> DEFINE su == [v.susp EXCEPT ![d] = @ \cup {"GROUP"}]
<1>1. v \in Bev(s)
  BY DEF OwnOK
<1>2. su \in [s.dirs -> SUBSET {"BW", "GROUP"}] /\ v.member \in BOOLEAN
      /\ v.adding \in SUBSET ({"on"} \cup s.dirs)
  BY <1>1 DEF Bev
<1>3. /\ \A e \in s.dirs : "BW" \in su[e] <=> "BW" \in v.susp[e]
      /\ \A e \in s.dirs : "GROUP" \in su[e] <=> "GROUP" \in v.susp[e] \/ e = d
  BY <1>1 DEF Bev
<1> HIDE DEF su
<1>4. R!suspend(v, d, "GROUP") = With(v, su, v.member, v.adding)
  BY <1>1 DEF R!suspend, Bev, su, With
<1> QED BY <1>2, <1>3, <1>4, GroupReason

LEMMA UnsuspendMember ==
  ASSUME NEW s, NEW v, OwnOK(v, s), NEW d \in s.dirs
  PROVE  /\ OwnOK(R!unsuspend(v, d, "GROUP"), s)
         /\ R!unsuspend(v, d, "GROUP") \in Bev(s)
         /\ R!unsuspend(v, d, "GROUP").member = v.member
         /\ R!unsuspend(v, d, "GROUP").adding = v.adding
         /\ \A e \in s.dirs : "GROUP" \in R!unsuspend(v, d, "GROUP").susp[e]
                               <=> "GROUP" \in v.susp[e] /\ e # d
<1> DEFINE su == [v.susp EXCEPT ![d] = @ \ {"GROUP"}]
<1>1. v \in Bev(s)
  BY DEF OwnOK
<1>2. su \in [s.dirs -> SUBSET {"BW", "GROUP"}] /\ v.member \in BOOLEAN
      /\ v.adding \in SUBSET ({"on"} \cup s.dirs)
  BY <1>1 DEF Bev
<1>3. /\ \A e \in s.dirs : "BW" \in su[e] <=> "BW" \in v.susp[e]
      /\ \A e \in s.dirs : "GROUP" \in su[e] <=> "GROUP" \in v.susp[e] /\ e # d
  BY <1>1 DEF Bev
<1> HIDE DEF su
<1>4. R!unsuspend(v, d, "GROUP") = With(v, su, v.member, v.adding)
  BY <1>1 DEF R!unsuspend, Bev, su, With
<1> QED BY <1>2, <1>3, <1>4, GroupReason

\* bev_group_suspend_, when the other directions are in order.
LEMMA SuspendGroup ==
  ASSUME NEW r, Apart(r), NEW d \in r.s.dirs, NEW locked, r.g.k.limit[d] <= r.g.cfg.max,
         \A e \in r.s.dirs \ {d} : DirOK(r.g, e)
  PROVE  RateOK(R!bev_group_suspend_(r, d, locked))
<1> DEFINE b == [x \in r.s.bevs |-> IF r.b[x].member /\ x \notin locked
                                    THEN R!suspend(r.b[x], d, "GROUP") ELSE r.b[x]]
           g == [r.g EXCEPT !.susp = @ \cup {d}, !.pend = @ \ {d}]
           q == [s |-> r.s, left |-> r.left, zero |-> r.zero, b |-> b, g |-> g]
<1>1. /\ Record(r) /\ Setup(r.s) /\ r.zero = FALSE /\ GroupType(r.g, r.s)
      /\ r.b \in [r.s.bevs -> Bev(r.s)]
      /\ \A x \in r.s.bevs : OwnOK(r.b[x], r.s) /\ MemberOK(r.b[x], r.s, r.g)
  BY DEF Apart, BevsOK
<1>2. R!bev_group_suspend_(r, d, locked) = q
  <2>1. DOMAIN r.b = r.s.bevs
    BY <1>1
  <2>2. R!bev_group_suspend_(r, d, locked) = [r EXCEPT !.g = g, !.b = b]
    BY <2>1, Zenon DEF R!bev_group_suspend_
  <2> HIDE DEF g, b
  <2> QED BY <1>1, <2>2 DEF Record
<1>3. /\ GroupType(g, r.s) /\ g.susp = r.g.susp \cup {d} /\ g.pend = r.g.pend \ {d}
      /\ g.k = r.g.k /\ g.cfg = r.g.cfg
  BY <1>1 DEF GroupType
<1> HIDE DEF g
<1>4. \A e \in r.s.dirs : DirOK(g, e)
  BY <1>3 DEF DirOK
<1>5. ASSUME NEW x \in r.s.bevs
      PROVE  OwnOK(b[x], r.s) /\ MemberOK(b[x], r.s, g) /\ b[x] \in Bev(r.s)
  <2>1. CASE r.b[x].member /\ x \notin locked
    <3>1. b[x] = R!suspend(r.b[x], d, "GROUP")
      BY <2>1
    <3> HIDE DEF b
    <3>2. /\ OwnOK(b[x], r.s) /\ b[x] \in Bev(r.s)
          /\ b[x].member = r.b[x].member /\ b[x].adding = r.b[x].adding
          /\ \A e \in r.s.dirs : "GROUP" \in b[x].susp[e] <=> "GROUP" \in r.b[x].susp[e] \/ e = d
      BY <1>1, <3>1, SuspendMember
    <3> QED BY <1>1, <1>3, <2>1, <3>2 DEF MemberOK
  <2>2. CASE ~(r.b[x].member /\ x \notin locked)
    BY <1>1, <1>3, <2>2 DEF MemberOK
  <2> QED BY <2>1, <2>2
<1>6. BevsOK(b, r.s, g)
  BY <1>5 DEF BevsOK
<1> HIDE DEF b
<1> QED BY <1>1, <1>2, <1>3, <1>4, <1>6 DEF RateOK, Apart, Record

\* bev_group_unsuspend_, likewise.
LEMMA UnsuspendGroup ==
  ASSUME NEW r, Apart(r), NEW d \in r.s.dirs, NEW locked, Covers(locked, r),
         r.g.k.limit[d] <= r.g.cfg.max, r.g.k.limit[d] > 0,
         \A e \in r.s.dirs \ {d} : DirOK(r.g, e)
  PROVE  RateOK(R!bev_group_unsuspend_(r, d, locked))
<1> DEFINE b == [x \in r.s.bevs |-> IF r.b[x].member /\ x \notin locked
                                    THEN R!unsuspend(r.b[x], d, "GROUP") ELSE r.b[x]]
           busy == locked \cap R!Members(r) # {}
           g == [r.g EXCEPT !.susp = @ \ {d}, !.pend = IF busy THEN @ \cup {d} ELSE @ \ {d}]
           q == [s |-> r.s, left |-> r.left, zero |-> r.zero, b |-> b, g |-> g]
<1>1. /\ Record(r) /\ Setup(r.s) /\ r.zero = FALSE /\ GroupType(r.g, r.s)
      /\ r.b \in [r.s.bevs -> Bev(r.s)]
      /\ \A x \in r.s.bevs : OwnOK(r.b[x], r.s) /\ MemberOK(r.b[x], r.s, r.g)
  BY DEF Apart, BevsOK
<1>2. R!bev_group_unsuspend_(r, d, locked) = q
  <2>1. DOMAIN r.b = r.s.bevs
    BY <1>1
  <2>2. R!bev_group_unsuspend_(r, d, locked) = [r EXCEPT !.g = g, !.b = b]
    BY <2>1, Zenon DEF R!bev_group_unsuspend_
  <2> HIDE DEF g, b
  <2> QED BY <1>1, <2>2 DEF Record
<1>3. /\ GroupType(g, r.s) /\ g.susp = r.g.susp \ {d}
      /\ g.pend = IF busy THEN r.g.pend \cup {d} ELSE r.g.pend \ {d}
      /\ g.k = r.g.k /\ g.cfg = r.g.cfg
  BY <1>1 DEF GroupType
<1>4. ASSUME NEW x \in r.s.bevs, r.b[x].member, x \in locked PROVE busy
  BY <1>4 DEF R!Members
<1> HIDE DEF g, busy
<1>5. \A e \in r.s.dirs : DirOK(g, e)
  <2>1. r.g.k.limit[d] \in Int
    BY <1>1 DEF GroupType, Bucket
  <2>2. ~(r.g.k.limit[d] <= 0)
    BY <2>1
  <2> QED BY <1>3, <2>2 DEF DirOK
<1>6. ASSUME NEW x \in r.s.bevs
      PROVE  OwnOK(b[x], r.s) /\ MemberOK(b[x], r.s, g) /\ b[x] \in Bev(r.s)
  <2>1. CASE r.b[x].member /\ x \notin locked
    <3>1. r.b[x].adding = {}
      BY <2>1 DEF Covers
    <3>2. b[x] = R!unsuspend(r.b[x], d, "GROUP")
      BY <2>1
    <3> HIDE DEF b
    <3>3. /\ OwnOK(b[x], r.s) /\ b[x] \in Bev(r.s)
          /\ b[x].member = r.b[x].member /\ b[x].adding = r.b[x].adding
          /\ \A e \in r.s.dirs : "GROUP" \in b[x].susp[e] <=> "GROUP" \in r.b[x].susp[e] /\ e # d
      BY <1>1, <3>2, UnsuspendMember
    <3> QED BY <1>1, <1>3, <2>1, <3>1, <3>3 DEF MemberOK
  <2>2. CASE r.b[x].member /\ x \in locked
    <3>1. r.g.susp \cup r.g.pend \subseteq g.susp \cup g.pend
      BY <1>3, <1>4, <2>2
    <3> QED BY <1>1, <2>2, <3>1 DEF MemberOK
  <2>3. CASE ~r.b[x].member
    BY <1>1, <2>3 DEF MemberOK
  <2> QED BY <2>1, <2>2, <2>3
<1>7. BevsOK(b, r.s, g)
  BY <1>6 DEF BevsOK
<1> HIDE DEF b
<1> QED BY <1>1, <1>2, <1>3, <1>5, <1>7 DEF RateOK, Apart, Record

\* Taking tokens from the group's bucket disturbs nothing but its direction.
LEMMA SpentGroup ==
  ASSUME NEW r, RateOK(r), NEW d \in r.s.dirs, NEW n \in Int, r.g.k.limit[d] - n <= r.g.cfg.max,
         NEW q, q = [r EXCEPT !.g.k.limit[d] = @ - n]
  PROVE  /\ Apart(q) /\ q.s = r.s /\ q.b = r.b /\ q.g.susp = r.g.susp /\ q.g.pend = r.g.pend
         /\ q.g.cfg = r.g.cfg /\ q.g.k.limit[d] = r.g.k.limit[d] - n
         /\ r.g.k.limit[d] \in Int
         /\ \A e \in r.s.dirs \ {d} : DirOK(q.g, e)
<1> DEFINE k == [r.g.k EXCEPT !.limit = [r.g.k.limit EXCEPT ![d] = r.g.k.limit[d] - n]]
           g == [r.g EXCEPT !.k = k]
<1>1. Record(r) /\ Setup(r.s) /\ r.zero = FALSE /\ GroupType(r.g, r.s) /\ BevsOK(r.b, r.s, r.g)
  BY DEF RateOK, Apart
<1>2. q = [r EXCEPT !.g = g]
  BY <1>1 DEF Record, GroupType, Bucket
<1>3. /\ k \in Bucket(r.s.dirs) /\ k.limit[d] = r.g.k.limit[d] - n /\ r.g.k.limit[d] \in Int
      /\ \A e \in r.s.dirs \ {d} : k.limit[e] = r.g.k.limit[e]
  BY <1>1 DEF GroupType, Bucket
<1> HIDE DEF k
<1>4. /\ GroupType(g, r.s) /\ g.k = k /\ g.susp = r.g.susp /\ g.pend = r.g.pend
      /\ g.cfg = r.g.cfg
  BY <1>1, <1>3 DEF GroupType
<1> HIDE DEF g
<1>5. q = [s |-> r.s, left |-> r.left, zero |-> r.zero, b |-> r.b, g |-> g]
  BY <1>1, <1>2 DEF Record
<1>6. \A e \in r.s.dirs \ {d} : DirOK(g, e)
  BY <1>3, <1>4 DEF RateOK, DirOK
<1>7. BevsOK(r.b, r.s, g)
  BY <1>1, <1>4 DEF BevsOK, MemberOK
<1> QED BY <1>1, <1>3, <1>4, <1>5, <1>6, <1>7 DEF Apart, Record

\* The group's part of bufferevent_decrement_read_buckets_ and _write_buckets_.
LEMMA DecrementForGroup ==
  ASSUME NEW r, RateOK(r), NEW d \in r.s.dirs, NEW n \in Nat, NEW locked, Covers(locked, r)
  PROVE  RateOK(R!DecrementGroup(r, d, n, locked))
<1> DEFINE q == [r EXCEPT !.g.k.limit[d] = @ - n]
<1>0. r.g.k.limit[d] - n <= r.g.cfg.max /\ n \in Int /\ r.g.cfg.max \in Int
  <2>1. r.g.k.limit[d] \in Int /\ r.g.cfg \in r.s.cfgs
    BY DEF RateOK, Apart, GroupType, Bucket
  <2>2. r.g.cfg.max \in Int
    BY <2>1, SetupTypes DEF RateOK, Apart, Config
  <2>3. r.g.k.limit[d] <= r.g.cfg.max
    BY DEF RateOK, DirOK
  <2> QED BY <2>1, <2>2, <2>3
<1>1. /\ Apart(q) /\ q.s = r.s /\ q.b = r.b /\ q.g.susp = r.g.susp /\ q.g.pend = r.g.pend
      /\ q.g.cfg = r.g.cfg /\ q.g.k.limit[d] = r.g.k.limit[d] - n
      /\ r.g.k.limit[d] \in Int
      /\ \A e \in r.s.dirs \ {d} : DirOK(q.g, e)
  BY <1>0, SpentGroup
<1> HIDE DEF q
<1>2. R!DecrementGroup(r, d, n, locked) =
        IF q.g.k.limit[d] <= 0 THEN R!bev_group_suspend_(q, d, locked)
        ELSE IF d \in q.g.susp THEN R!bev_group_unsuspend_(q, d, locked) ELSE q
  BY DEF R!DecrementGroup, q
<1>3. q.g.k.limit[d] \in Int /\ q.g.k.limit[d] <= q.g.cfg.max
  BY <1>0, <1>1
<1>4. CASE q.g.k.limit[d] <= 0
  BY <1>1, <1>2, <1>3, <1>4, SuspendGroup
<1>5. CASE ~(q.g.k.limit[d] <= 0)
  <2>1. q.g.k.limit[d] > 0 /\ Covers(locked, q)
    BY <1>1, <1>3, <1>5 DEF Covers
  <2>2. CASE d \in q.g.susp
    BY <1>1, <1>2, <1>3, <1>5, <2>1, <2>2, UnsuspendGroup
  <2>3. CASE d \notin q.g.susp
    BY <1>1, <1>2, <1>3, <1>5, <2>1, <2>3 DEF RateOK, DirOK
  <2> QED BY <2>2, <2>3
<1> QED BY <1>4, <1>5

\* bufferevent_rate_limit_group_decrement_read and _write.
LEMMA DecrementGroupLimit ==
  ASSUME NEW r, RateOK(r), NEW d \in r.s.dirs, NEW n \in Int, NEW locked, Covers(locked, r),
         r.g.k.limit[d] - n <= r.g.cfg.max
  PROVE  RateOK(R!bufferevent_rate_limit_group_decrement(r, d, n, locked))
<1> DEFINE q == [r EXCEPT !.g.k.limit[d] = @ - n]
<1>1. /\ Apart(q) /\ q.s = r.s /\ q.b = r.b /\ q.g.susp = r.g.susp /\ q.g.pend = r.g.pend
      /\ q.g.cfg = r.g.cfg /\ q.g.k.limit[d] = r.g.k.limit[d] - n
      /\ r.g.k.limit[d] \in Int
      /\ \A e \in r.s.dirs \ {d} : DirOK(q.g, e)
  BY SpentGroup
<1> HIDE DEF q
<1>2. R!bufferevent_rate_limit_group_decrement(r, d, n, locked) =
        IF r.g.k.limit[d] > 0 /\ q.g.k.limit[d] <= 0 THEN R!bev_group_suspend_(q, d, locked)
        ELSE IF r.g.k.limit[d] <= 0 /\ q.g.k.limit[d] > 0 THEN R!bev_group_unsuspend_(q, d, locked)
        ELSE q
  BY DEF R!bufferevent_rate_limit_group_decrement, q
<1>3. q.g.k.limit[d] \in Int /\ q.g.k.limit[d] <= q.g.cfg.max
  BY <1>1
<1>4. CASE r.g.k.limit[d] > 0 /\ q.g.k.limit[d] <= 0
  BY <1>1, <1>2, <1>3, <1>4, SuspendGroup
<1>5. CASE r.g.k.limit[d] <= 0 /\ q.g.k.limit[d] > 0
  <2>1. ~(r.g.k.limit[d] > 0) /\ Covers(locked, q)
    BY <1>1, <1>5 DEF Covers
  <2> QED BY <1>1, <1>2, <1>3, <1>5, <2>1, UnsuspendGroup
<1>6. CASE ~(r.g.k.limit[d] > 0 /\ q.g.k.limit[d] <= 0) /\ ~(r.g.k.limit[d] <= 0 /\ q.g.k.limit[d] > 0)
  <2>1. DirOK(r.g, d)
    BY DEF RateOK
  <2>2. DirOK(q.g, d)
    <3>1. q.g.k.limit[d] <= 0 => r.g.k.limit[d] <= 0
      BY <1>1, <1>3, <1>6
    <3>2. r.g.k.limit[d] > 0 => q.g.k.limit[d] > 0
      BY <1>1, <1>3, <1>6
    <3> QED BY <1>1, <1>3, <2>1, <3>1, <3>2 DEF DirOK
  <2> QED BY <1>1, <1>2, <1>6, <2>2 DEF RateOK
<1> QED BY <1>4, <1>5, <1>6

\* bev_group_refill_callback_: the sweep of a tick lets go who may go on, and keeps on
\* its list the directions of members whose locks it could not take.
LEMMA RefillGroup ==
  ASSUME NEW r, RateOK(r), NEW locked, Covers(locked, r)
  PROVE  RateOK(R!bev_group_refill_callback_(r, locked))
<1> DEFINE k == R!ev_token_bucket_update_(r.g.k, r.g.cfg)
           go == {d \in r.s.dirs : d \in r.g.pend \/ (d \in r.g.susp /\ k.limit[d] >= r.g.share)}
           busy == ~(locked \cap R!Members(r) = {})
           g == [r.g EXCEPT !.k = k, !.susp = @ \ go,
                            !.pend = (@ \ go) \cup (IF locked \cap R!Members(r) = {} THEN {} ELSE go)]
           b == [x \in r.s.bevs |-> IF ~r.b[x].member \/ x \in locked THEN r.b[x] ELSE R!Woken(r.b[x], go)]
<1>1. /\ Record(r) /\ Setup(r.s) /\ r.zero = FALSE /\ GroupType(r.g, r.s)
      /\ r.b \in [r.s.bevs -> Bev(r.s)]
      /\ \A x \in r.s.bevs : OwnOK(r.b[x], r.s) /\ MemberOK(r.b[x], r.s, r.g)
      /\ \A d \in r.s.dirs : DirOK(r.g, d)
  BY DEF RateOK, Apart, BevsOK
<1>2. R!bev_group_refill_callback_(r, locked) = [r EXCEPT !.g = g, !.b = b]
  <2>1. DOMAIN r.b = r.s.bevs
    BY <1>1
  <2> QED BY <2>1, Zenon DEF R!bev_group_refill_callback_
<1>3. /\ k \in Bucket(r.s.dirs)
      /\ \A d \in r.s.dirs : k.limit[d] <= r.g.cfg.max /\ k.limit[d] >= r.g.k.limit[d]
  <2>1. r.g.k \in Bucket(r.s.dirs) /\ Config(r.g.cfg)
    BY <1>1, SetupTypes DEF GroupType
  <2>2. \A d \in r.s.dirs : r.g.k.limit[d] <= r.g.cfg.max
    BY <1>1 DEF DirOK
  <2> QED BY <2>1, <2>2, UpdateBucket
<1> HIDE DEF k
<1>4. ASSUME NEW x \in r.s.bevs, r.b[x].member, x \in locked PROVE busy
  BY <1>4 DEF R!Members
<1>5. /\ GroupType(g, r.s) /\ g.susp = r.g.susp \ go
      /\ g.pend = (r.g.pend \ go) \cup (IF busy THEN go ELSE {})
      /\ g.k = k /\ g.cfg = r.g.cfg
  <2>1. go \subseteq r.s.dirs
    OBVIOUS
  <2> HIDE DEF go
  <2> QED BY <1>1, <1>3, <2>1 DEF GroupType
<1>6. r.g.pend \subseteq go
  <2>1. r.g.pend \subseteq r.s.dirs
    BY <1>1 DEF GroupType
  <2> QED BY <2>1
<1>7. ASSUME NEW d \in r.s.dirs PROVE DirOK(g, d) /\ (d \in go => ~(k.limit[d] <= 0))
  <2>1. r.g.k.limit[d] \in Int /\ k.limit[d] \in Int /\ r.g.share \in Nat \ {0}
    BY <1>1, <1>3 DEF GroupType, Bucket
  <2>2. d \in go => ~(k.limit[d] <= 0)
    <3>1. CASE d \in r.g.pend
      BY <1>1, <1>3, <2>1, <3>1 DEF DirOK
    <3>2. CASE k.limit[d] >= r.g.share
      BY <2>1, <3>2
    <3> QED BY <3>1, <3>2
  <2> HIDE DEF go, g, busy
  <2>3. d \in go => k.limit[d] > 0
    BY <2>1, <2>2
  <2>4. k.limit[d] <= 0 => d \in r.g.susp
    <3>1. k.limit[d] <= 0 => r.g.k.limit[d] <= 0
      BY <1>3, <2>1
    <3> QED BY <1>1, <3>1 DEF DirOK
  <2>5. d \in g.pend => d \in go
    BY <1>5, <1>6
  <2> QED BY <1>3, <1>5, <2>2, <2>3, <2>4, <2>5 DEF DirOK
<1> HIDE DEF g, busy
<1>8. ASSUME NEW x \in r.s.bevs
      PROVE  OwnOK(b[x], r.s) /\ MemberOK(b[x], r.s, g) /\ b[x] \in Bev(r.s)
  <2>1. CASE r.b[x].member /\ x \notin locked
    <3> DEFINE v == r.b[x]
               su == [d \in r.s.dirs |-> IF d \in go THEN v.susp[d] \ {"GROUP"} ELSE v.susp[d]]
    <3>1. v \in Bev(r.s) /\ DOMAIN v.susp = r.s.dirs /\ v.adding = {}
      BY <1>1, <2>1 DEF Bev, Covers
    <3>2. b[x] = [v EXCEPT !.susp = su]
      <4>1. b[x] = R!Woken(v, go)
        BY <2>1
      <4> HIDE DEF b, go
      <4> QED BY <3>1, <4>1 DEF R!Woken
    <3>3. /\ su \in [r.s.dirs -> SUBSET {"BW", "GROUP"}] /\ v.member \in BOOLEAN
          /\ v.adding \in SUBSET ({"on"} \cup r.s.dirs)
          /\ \A d \in r.s.dirs : "BW" \in su[d] <=> "BW" \in v.susp[d]
          /\ \A d \in r.s.dirs : "GROUP" \in su[d] <=> "GROUP" \in v.susp[d] /\ d \notin go
      BY <3>1 DEF Bev
    <3> HIDE DEF b, su, go
    <3>4. b[x] = With(v, su, v.member, v.adding)
      BY <3>1, <3>2 DEF With, Bev
    <3>5. /\ OwnOK(b[x], r.s) /\ b[x] \in Bev(r.s) /\ b[x].susp = su
          /\ b[x].member = v.member /\ b[x].adding = v.adding
      BY <1>1, <3>3, <3>4, GroupReason
    <3>6. \A d \in r.s.dirs : "GROUP" \in v.susp[d] => v.member /\ d \in r.g.susp \cup r.g.pend
      BY <1>1 DEF MemberOK
    <3> HIDE DEF v
    <3> QED BY <1>5, <1>6, <3>1, <3>3, <3>5, <3>6 DEF MemberOK
  <2>2. CASE r.b[x].member /\ x \in locked
    <3>1. r.g.susp \cup r.g.pend \subseteq g.susp \cup g.pend
      <4> HIDE DEF go
      <4> QED BY <1>4, <1>5, <1>6, <2>2
    <3>2. b[x] = r.b[x]
      BY <2>2
    <3> QED BY <1>1, <2>2, <3>1, <3>2 DEF MemberOK
  <2>3. CASE ~r.b[x].member
    <3>1. b[x] = r.b[x]
      BY <2>3
    <3> QED BY <1>1, <2>3, <3>1 DEF MemberOK
  <2> QED BY <2>1, <2>2, <2>3
<1>9. BevsOK(b, r.s, g)
  <2>1. b = [x \in r.s.bevs |-> b[x]]
    OBVIOUS
  <2> HIDE DEF b
  <2> QED BY <1>8, <2>1 DEF BevsOK
<1> HIDE DEF b
<1>10. R!bev_group_refill_callback_(r, locked) = [s |-> r.s, left |-> r.left, zero |-> r.zero, b |-> b, g |-> g]
  <2> HIDE DEF go
  <2> QED BY <1>1, <1>2, Recompose, ZenonT(40)
<1> HIDE DEF go
<1> QED BY <1>1, <1>5, <1>7, <1>9, <1>10 DEF RateOK, Apart, Record

------------------------------------------------------------------------------
(* The actions.                                                            *)

\* A step that replaces one bufferevent and may count a call.
LEMMA BevStep ==
  ASSUME NEW r, RateOK(r), NEW x \in r.s.bevs, NEW w, OwnOK(w, r.s), SameForGroup(r.b[x], w, r.s),
         NEW l, NEW q, q = [s |-> r.s, left |-> l, zero |-> FALSE, b |-> [r.b EXCEPT ![x] = w], g |-> r.g]
  PROVE  RateOK(q)
<1>1. BevsOK([r.b EXCEPT ![x] = w], r.s, r.g)
  BY ReplaceBev DEF RateOK, Apart
<1> QED BY <1>1 DEF RateOK, Apart, Record

LEMMA SetKeeps ==
  ASSUME RateOK(rl), NEW x \in rl.s.bevs, R!SetRateLimit(x)
  PROVE  RateOK(rl')
<1>1. PICK c \in rl.s.cfgs \cup {R!NoCfg} :
        rl' = [R!Counted EXCEPT !.b[x] = R!bufferevent_set_rate_limit(@, c)]
  BY DEF R!SetRateLimit
<1> DEFINE w == R!bufferevent_set_rate_limit(rl.b[x], c)
<1>2. OwnOK(w, rl.s) /\ SameForGroup(rl.b[x], w, rl.s)
  BY SetOwn DEF RateOK, Apart, BevsOK
<1> HIDE DEF w
<1>3. rl' = [s |-> rl.s, left |-> rl.left - 1, zero |-> FALSE, b |-> [rl.b EXCEPT ![x] = w], g |-> rl.g]
  BY <1>1 DEF R!Counted, RateOK, Apart, Record, w
<1> QED BY <1>2, <1>3, BevStep

LEMMA GetKeeps ==
  ASSUME RateOK(rl), NEW x \in rl.s.bevs, R!GetLimit(x)
  PROVE  RateOK(rl')
<1> DEFINE w == [rl.b[x] EXCEPT !.k = R!ev_token_bucket_update_(@, rl.b[x].cfg)]
<1>1. rl.b[x].cfg # R!NoCfg
  BY DEF R!GetLimit
<1>2. OwnOK(w, rl.s) /\ SameForGroup(rl.b[x], w, rl.s)
  BY <1>1, UpdateOwn DEF RateOK, Apart, BevsOK
<1>3. rl' = [s |-> rl.s, left |-> rl.left, zero |-> FALSE, b |-> [rl.b EXCEPT ![x] = w], g |-> rl.g]
  BY DEF R!GetLimit, RateOK, Apart, Record
<1> HIDE DEF w
<1> QED BY <1>2, <1>3, BevStep

LEMMA RefillKeeps ==
  ASSUME RateOK(rl), NEW x \in rl.s.bevs, R!Refill(x)
  PROVE  RateOK(rl')
<1> DEFINE w == R!bev_refill_callback_(rl.b[x])
<1>1. OwnOK(w, rl.s) /\ SameForGroup(rl.b[x], w, rl.s)
  BY RefillOwn DEF RateOK, Apart, BevsOK
<1> HIDE DEF w
<1>2. rl' = [s |-> rl.s, left |-> rl.left, zero |-> FALSE, b |-> [rl.b EXCEPT ![x] = w], g |-> rl.g]
  BY DEF R!Refill, RateOK, Apart, Record, w
<1> QED BY <1>1, <1>2, BevStep

LEMMA DecrementKeeps ==
  ASSUME RateOK(rl), NEW x \in rl.s.bevs, NEW d \in rl.s.dirs, R!DecrementLimit(x, d)
  PROVE  RateOK(rl')
<1>1. PICK n \in {-1, 1} :
        /\ rl.b[x].k.limit[d] - n <= rl.b[x].cfg.max
        /\ rl' = [R!Counted EXCEPT !.b[x] = R!bufferevent_decrement_limit(@, d, n)]
  BY DEF R!DecrementLimit
<1>2. rl.b[x].cfg # R!NoCfg /\ n \in Int
  BY DEF R!DecrementLimit
<1> DEFINE w == R!bufferevent_decrement_limit(rl.b[x], d, n)
<1>3. OwnOK(w, rl.s) /\ SameForGroup(rl.b[x], w, rl.s)
  BY <1>1, <1>2, DecrementLimitOwn DEF RateOK, Apart, BevsOK
<1> HIDE DEF w
<1>4. rl' = [s |-> rl.s, left |-> rl.left - 1, zero |-> FALSE, b |-> [rl.b EXCEPT ![x] = w], g |-> rl.g]
  BY <1>1 DEF R!Counted, RateOK, Apart, Record, w
<1> QED BY <1>3, <1>4, BevStep

\* A step that replaces what the group has to do with one bufferevent.
LEMMA MemberStep ==
  ASSUME NEW r, RateOK(r), NEW x \in r.s.bevs, NEW su \in [r.s.dirs -> SUBSET {"BW", "GROUP"}],
         \A d \in r.s.dirs : "BW" \in su[d] <=> "BW" \in r.b[x].susp[d],
         NEW m \in BOOLEAN, NEW a \in SUBSET ({"on"} \cup r.s.dirs),
         a # {} => m,
         \A d \in r.s.dirs : d \in a => d \in r.g.susp \cup r.g.pend,
         \A d \in r.s.dirs : "GROUP" \in su[d] => m /\ d \in r.g.susp \cup r.g.pend,
         NEW l, NEW q,
         q = [s |-> r.s, left |-> l, zero |-> FALSE,
              b |-> [r.b EXCEPT ![x] = With(r.b[x], su, m, a)], g |-> r.g]
  PROVE  RateOK(q)
<1> DEFINE w == With(r.b[x], su, m, a)
<1>1. OwnOK(r.b[x], r.s)
  BY DEF RateOK, Apart, BevsOK
<1>2. OwnOK(w, r.s) /\ w \in Bev(r.s) /\ w.susp = su /\ w.member = m /\ w.adding = a
  BY <1>1, GroupReason
<1> HIDE DEF w
<1>3. MemberOK(w, r.s, r.g)
  BY <1>2 DEF MemberOK
<1>4. BevsOK([r.b EXCEPT ![x] = w], r.s, r.g)
  BY <1>2, <1>3 DEF RateOK, Apart, BevsOK
<1> QED BY <1>4 DEF RateOK, Apart, Record, w

LEMMA AddKeeps ==
  ASSUME RateOK(rl), NEW x \in rl.s.bevs, R!AddToGroup(x)
  PROVE  RateOK(rl')
<1> DEFINE a == {"on"} \cup rl.g.susp
           v == rl.b[x]
<1>1. Record(rl) /\ rl.zero = FALSE /\ v \in Bev(rl.s) /\ MemberOK(v, rl.s, rl.g)
      /\ GroupType(rl.g, rl.s) /\ "on" \notin rl.s.dirs /\ rl.b \in [rl.s.bevs -> Bev(rl.s)]
  BY SetupTypes DEF RateOK, Apart, BevsOK
<1>2. rl' = [s |-> rl.s, left |-> rl.left - 1, zero |-> FALSE,
             b |-> [rl.b EXCEPT ![x] = With(v, v.susp, TRUE, a)], g |-> rl.g]
  <2> DEFINE c == [s |-> rl.s, left |-> rl.left - 1, zero |-> FALSE, b |-> rl.b, g |-> rl.g]
  <2>1. R!Counted = c
    BY <1>1, Recount DEF R!Counted
  <2>2. rl' = [c EXCEPT !.b[x].member = TRUE, !.b[x].adding = a]
    BY <2>1 DEF R!AddToGroup
  <2>3. [rl.b EXCEPT ![x].member = TRUE, ![x].adding = a]
        = [rl.b EXCEPT ![x] = With(v, v.susp, TRUE, a)]
    BY <1>1 DEF With, Bev
  <2> HIDE DEF a, v
  <2> QED BY <2>2, <2>3
<1>3. /\ v.susp \in [rl.s.dirs -> SUBSET {"BW", "GROUP"}] /\ a \in SUBSET ({"on"} \cup rl.s.dirs)
      /\ TRUE \in BOOLEAN
      /\ \A d \in rl.s.dirs : d \in a => d \in rl.g.susp \cup rl.g.pend
      /\ \A d \in rl.s.dirs : "GROUP" \in v.susp[d] => TRUE /\ d \in rl.g.susp \cup rl.g.pend
  BY <1>1 DEF Bev, GroupType, MemberOK
<1> HIDE DEF a
<1> QED BY <1>2, <1>3, MemberStep

LEMMA AddEndsKeeps ==
  ASSUME RateOK(rl), NEW x \in rl.s.bevs, R!AddToGroupEnds(x)
  PROVE  RateOK(rl')
<1> DEFINE v == rl.b[x]
           su == [d \in rl.s.dirs |-> IF d \in v.adding THEN v.susp[d] \cup {"GROUP"} ELSE v.susp[d]]
<1>1. Record(rl) /\ rl.zero = FALSE /\ v \in Bev(rl.s) /\ MemberOK(v, rl.s, rl.g)
      /\ rl.b \in [rl.s.bevs -> Bev(rl.s)] /\ v.adding # {} /\ DOMAIN v.susp = rl.s.dirs
  BY DEF RateOK, Apart, BevsOK, R!AddToGroupEnds, R!Free, Bev
<1>2. rl' = [s |-> rl.s, left |-> rl.left, zero |-> FALSE,
             b |-> [rl.b EXCEPT ![x] = With(v, su, v.member, {})], g |-> rl.g]
  <2>1. rl' = [rl EXCEPT !.b[x].adding = {}, !.b[x].susp = su]
    BY <1>1 DEF R!AddToGroupEnds, Record, Bev
  <2> HIDE DEF su
  <2> QED BY <1>1, <2>1, ZenonT(40) DEF Record, With, Bev
<1>3. /\ su \in [rl.s.dirs -> SUBSET {"BW", "GROUP"}] /\ v.member \in BOOLEAN
      /\ \A d \in rl.s.dirs : "BW" \in su[d] <=> "BW" \in v.susp[d]
      /\ \A d \in rl.s.dirs : "GROUP" \in su[d] => v.member /\ d \in rl.g.susp \cup rl.g.pend
  BY <1>1 DEF Bev, MemberOK
<1> HIDE DEF su
<1> QED BY <1>2, <1>3, MemberStep

LEMMA RemoveKeeps ==
  ASSUME RateOK(rl), NEW x \in rl.s.bevs, R!bufferevent_remove_from_rate_limit_group(x)
  PROVE  RateOK(rl')
<1> DEFINE v == rl.b[x]
           su == [d \in rl.s.dirs |-> v.susp[d] \ {"GROUP"}]
<1>1. Record(rl) /\ rl.zero = FALSE /\ v \in Bev(rl.s)
      /\ rl.b \in [rl.s.bevs -> Bev(rl.s)] /\ v.adding = {} /\ DOMAIN v.susp = rl.s.dirs
  BY DEF RateOK, Apart, BevsOK, R!bufferevent_remove_from_rate_limit_group, R!Free, Bev
<1>2. rl' = [s |-> rl.s, left |-> rl.left - 1, zero |-> FALSE,
             b |-> [rl.b EXCEPT ![x] = With(v, su, FALSE, {})], g |-> rl.g]
  <2> DEFINE c == [s |-> rl.s, left |-> rl.left - 1, zero |-> FALSE, b |-> rl.b, g |-> rl.g]
  <2>1. R!Counted = c
    BY <1>1, Recount DEF R!Counted
  <2>2. rl' = [c EXCEPT !.b[x].member = FALSE, !.b[x].susp = su]
    BY <1>1, <2>1 DEF R!bufferevent_remove_from_rate_limit_group, Bev
  <2> HIDE DEF su
  <2>3. [rl.b EXCEPT ![x].member = FALSE, ![x].susp = su]
        = [rl.b EXCEPT ![x] = With(v, su, FALSE, {})]
    BY <1>1 DEF With, Bev
  <2> HIDE DEF v
  <2> QED BY <2>2, <2>3
<1>3. /\ su \in [rl.s.dirs -> SUBSET {"BW", "GROUP"}] /\ FALSE \in BOOLEAN
      /\ \A d \in rl.s.dirs : "BW" \in su[d] <=> "BW" \in v.susp[d]
      /\ \A d \in rl.s.dirs : "GROUP" \notin su[d]
  BY <1>1 DEF Bev
<1> HIDE DEF su
<1> QED BY <1>2, <1>3, MemberStep

LEMMA GroupRefillKeeps ==
  ASSUME RateOK(rl), R!GroupRefill
  PROVE  RateOK(rl')
<1>1. PICK locked \in SUBSET rl.s.bevs :
        /\ \A y \in rl.s.bevs : ~R!Free(y) => y \in locked
        /\ rl' = R!bev_group_refill_callback_(rl, locked)
  BY DEF R!GroupRefill
<1>2. Covers(locked, rl)
  BY <1>1 DEF Covers, R!Free
<1> QED BY <1>1, <1>2, RefillGroup

LEMMA CountedOK ==
  ASSUME RateOK(rl)
  PROVE  /\ RateOK(R!Counted) /\ R!Counted.s = rl.s /\ R!Counted.b = rl.b /\ R!Counted.g = rl.g
         /\ R!Counted = [s |-> rl.s, left |-> rl.left - 1, zero |-> FALSE, b |-> rl.b, g |-> rl.g]
<1>1. R!Counted = [s |-> rl.s, left |-> rl.left - 1, zero |-> FALSE, b |-> rl.b, g |-> rl.g]
  BY Recount DEF R!Counted, RateOK, Apart
<1> QED BY <1>1 DEF RateOK, Apart, Record

LEMMA GroupDecrementKeeps ==
  ASSUME RateOK(rl), NEW d \in rl.s.dirs, R!GroupDecrement(d)
  PROVE  RateOK(rl')
<1>1. PICK n \in {-1, 1}, locked \in SUBSET rl.s.bevs :
        /\ rl.g.k.limit[d] - n <= rl.g.cfg.max
        /\ \A y \in rl.s.bevs : ~R!Free(y) => y \in locked
        /\ rl' = R!bufferevent_rate_limit_group_decrement(R!Counted, d, n, locked)
  BY DEF R!GroupDecrement
<1> DEFINE c == R!Counted
<1>2. RateOK(c) /\ c.s = rl.s /\ c.b = rl.b /\ c.g = rl.g
  BY CountedOK
<1> HIDE DEF c
<1>3. Covers(locked, c) /\ n \in Int /\ d \in c.s.dirs /\ c.g.k.limit[d] - n <= c.g.cfg.max
  BY <1>1, <1>2 DEF Covers, R!Free
<1>4. RateOK(R!bufferevent_rate_limit_group_decrement(c, d, n, locked))
  BY <1>2, <1>3, DecrementGroupLimit
<1> QED BY <1>1, <1>4 DEF c

LEMMA GroupSetKeeps ==
  ASSUME RateOK(rl), R!GroupSetCfg
  PROVE  RateOK(rl')
<1>1. PICK c \in rl.s.cfgs :
        rl' = [R!Counted EXCEPT !.g.cfg = c, !.g.share = R!min_share(rl.s.share, c),
                                !.g.k = R!ev_token_bucket_init_(@, c, TRUE)]
  BY DEF R!GroupSetCfg
<1> DEFINE k == R!ev_token_bucket_init_(rl.g.k, c, TRUE)
           sh == R!min_share(rl.s.share, c)
           g == [rl.g EXCEPT !.cfg = c, !.share = sh, !.k = k]
<1>2. /\ Record(rl) /\ Setup(rl.s) /\ rl.zero = FALSE /\ GroupType(rl.g, rl.s)
      /\ BevsOK(rl.b, rl.s, rl.g)
      /\ \A d \in rl.s.dirs : DirOK(rl.g, d)
  BY DEF RateOK, Apart
<1>3. Config(c) /\ rl.s.share \in Nat \ {0} /\ c.rate \in Int /\ c.max \in Int /\ c.rate <= c.max /\ c.max > 0
  BY <1>2, SetupTypes DEF Config
<1>4. /\ k \in Bucket(rl.s.dirs)
      /\ \A d \in rl.s.dirs : k.limit[d] <= c.max /\ k.limit[d] \in {rl.g.k.limit[d], c.max}
  BY <1>2, <1>3, InitBucket DEF GroupType
<1>5. sh \in Nat \ {0}
  BY <1>3 DEF R!min_share, Config
<1>6. rl' = [s |-> rl.s, left |-> rl.left - 1, zero |-> FALSE, b |-> rl.b, g |-> g]
  <2> DEFINE o == [s |-> rl.s, left |-> rl.left - 1, zero |-> FALSE, b |-> rl.b, g |-> rl.g]
  <2>1. R!Counted = o
    BY CountedOK
  <2>2. rl' = [o EXCEPT !.g.cfg = c, !.g.share = sh, !.g.k = k]
    BY <1>1, <1>2, <2>1 DEF GroupType
  <2> HIDE DEF k, sh
  <2> QED BY <1>2, <2>2 DEF GroupType
<1> HIDE DEF k, sh
<1>7. GroupType(g, rl.s) /\ g.susp = rl.g.susp /\ g.pend = rl.g.pend /\ g.k = k /\ g.cfg = c
  BY <1>2, <1>4, <1>5 DEF GroupType
<1> HIDE DEF g
<1>8. ASSUME NEW d \in rl.s.dirs PROVE DirOK(g, d)
  <2>1. k.limit[d] <= 0 => rl.g.k.limit[d] <= 0
    BY <1>3, <1>4
  <2>2. rl.g.k.limit[d] > 0 => k.limit[d] > 0
    BY <1>3, <1>4
  <2> QED BY <1>2, <1>4, <1>7, <2>1, <2>2 DEF DirOK
<1>9. BevsOK(rl.b, rl.s, g)
  BY <1>2, <1>7 DEF BevsOK, MemberOK
<1> QED BY <1>2, <1>6, <1>7, <1>8, <1>9 DEF RateOK, Apart, Record

LEMMA OlderBucket ==
  ASSUME NEW D, NEW k \in Bucket(D), NEW n \in {-1, 1}
  PROVE  R!Older(k, n) \in Bucket(D) /\ R!Older(k, n).limit = k.limit
<1>1. k.age + n \in Int /\ MaxAge \in Int /\ -1 \in Int
  BY RateAssumption DEF Bucket
<1> QED BY <1>1 DEF R!Older, Bucket

LEMMA TickKeeps ==
  ASSUME RateOK(rl), R!Tick
  PROVE  RateOK(rl')
<1>1. PICK n \in {-1, 1} :
        rl' = [rl EXCEPT !.b = [x \in DOMAIN @ |-> IF rl.s.own THEN R!Aged(@[x], n) ELSE @[x]],
                         !.g.k = IF rl.s.grouped THEN R!Older(@, n) ELSE @]
  BY DEF R!Tick
<1> DEFINE b == [x \in rl.s.bevs |-> IF rl.s.own THEN R!Aged(rl.b[x], n) ELSE rl.b[x]]
           k == IF rl.s.grouped THEN R!Older(rl.g.k, n) ELSE rl.g.k
           g == [rl.g EXCEPT !.k = k]
<1>2. /\ Record(rl) /\ Setup(rl.s) /\ rl.zero = FALSE /\ GroupType(rl.g, rl.s)
      /\ rl.b \in [rl.s.bevs -> Bev(rl.s)]
      /\ \A x \in rl.s.bevs : OwnOK(rl.b[x], rl.s) /\ MemberOK(rl.b[x], rl.s, rl.g)
      /\ \A d \in rl.s.dirs : DirOK(rl.g, d)
  BY DEF RateOK, Apart, BevsOK
<1>3. rl' = [s |-> rl.s, left |-> rl.left, zero |-> FALSE, b |-> b, g |-> g]
  <2>1. DOMAIN rl.b = rl.s.bevs
    BY <1>2
  <2>2. rl' = [rl EXCEPT !.b = b, !.g.k = k]
    BY <1>1, <2>1
  <2> HIDE DEF b, k
  <2> QED BY <1>2, <2>2 DEF Record, GroupType
<1>4. k \in Bucket(rl.s.dirs) /\ k.limit = rl.g.k.limit
  BY <1>2, OlderBucket DEF GroupType
<1> HIDE DEF k
<1>5. /\ GroupType(g, rl.s) /\ g.susp = rl.g.susp /\ g.pend = rl.g.pend /\ g.k = k
      /\ g.cfg = rl.g.cfg
  BY <1>2, <1>4 DEF GroupType
<1> HIDE DEF g
<1>6. \A d \in rl.s.dirs : DirOK(g, d)
  BY <1>2, <1>4, <1>5 DEF DirOK
<1>7. ASSUME NEW x \in rl.s.bevs
      PROVE  OwnOK(b[x], rl.s) /\ MemberOK(b[x], rl.s, g) /\ b[x] \in Bev(rl.s)
  <2>1. CASE rl.s.own
    <3> DEFINE v == rl.b[x]
               o == R!Older(v.k, n)
    <3>1. v \in Bev(rl.s) /\ OwnOK(v, rl.s) /\ MemberOK(v, rl.s, rl.g)
      BY <1>2
    <3>2. o \in Bucket(rl.s.dirs) /\ o.limit = v.k.limit
      BY <3>1, OlderBucket DEF Bev
    <3> HIDE DEF o
    <3>3. b[x] = [v EXCEPT !.k = o]
      BY <2>1 DEF R!Aged, o
    <3> HIDE DEF b, v
    <3>4. /\ b[x] \in Bev(rl.s) /\ b[x].k = o /\ b[x].cfg = v.cfg /\ b[x].susp = v.susp
          /\ b[x].refill = v.refill /\ b[x].member = v.member /\ b[x].adding = v.adding
      BY <3>1, <3>2, <3>3 DEF Bev
    <3> QED BY <1>5, <3>1, <3>2, <3>4 DEF OwnOK, MemberOK
  <2>2. CASE ~rl.s.own
    <3>1. b[x] = rl.b[x]
      BY <2>2
    <3> QED BY <1>2, <1>5, <3>1 DEF MemberOK
  <2> QED BY <2>1, <2>2
<1>8. BevsOK(b, rl.s, g)
  <2>1. b = [x \in rl.s.bevs |-> b[x]]
    OBVIOUS
  <2> HIDE DEF b
  <2> QED BY <1>7, <2>1 DEF BevsOK
<1> HIDE DEF b
<1> QED BY <1>2, <1>3, <1>5, <1>6, <1>8 DEF RateOK, Apart, Record

\* bufferevent_get_rlim_max_: a bufferevent that is not suspended, and is not suspended
\* by this call, may move at least one byte.
LEMMA MaxIsPositive ==
  ASSUME NEW r, RateOK(r), NEW x \in r.s.bevs, NEW d \in r.s.dirs, r.b[x].susp[d] = {},
         NEW a, a = R!bufferevent_get_rlim_max_(r, x, d)
  PROVE  /\ RateOK(a.r) /\ a.r.s = r.s
         /\ \A y \in r.s.bevs : a.r.b[y].adding = r.b[y].adding
         /\ a.r.b[x].susp[d] = {} => a.max \in Nat \ {0}
<1> DEFINE w == IF r.b[x].cfg = R!NoCfg THEN r.b[x]
                ELSE [r.b[x] EXCEPT !.k = R!ev_token_bucket_update_(@, r.b[x].cfg)]
           q == IF r.b[x].cfg = R!NoCfg THEN r
                ELSE [r EXCEPT !.b[x].k = R!ev_token_bucket_update_(@, r.b[x].cfg)]
           own == IF q.b[x].cfg = R!NoCfg THEN q.s.single ELSE q.b[x].k.limit[d]
           size == q.g.k.limit[d] \div R!Cardinality(R!Members(q))
           share == IF d \in q.g.susp THEN 0 ELSE IF size < q.g.share THEN q.g.share ELSE size
           max == IF q.b[x].member /\ share < own THEN share ELSE own
           out == IF q.b[x].member /\ d \in q.g.susp
                  THEN [q EXCEPT !.b[x] = R!suspend(@, d, "GROUP")] ELSE q
<1>1. a = [max |-> IF max < 0 THEN 0 ELSE max, r |-> out]
  BY Zenon DEF R!bufferevent_get_rlim_max_
<1>2. /\ Record(r) /\ Setup(r.s) /\ r.zero = FALSE /\ GroupType(r.g, r.s)
      /\ r.b \in [r.s.bevs -> Bev(r.s)]
      /\ \A y \in r.s.bevs : OwnOK(r.b[y], r.s) /\ MemberOK(r.b[y], r.s, r.g)
      /\ \A e \in r.s.dirs : DirOK(r.g, e)
  BY DEF RateOK, Apart, BevsOK
<1>3. /\ OwnOK(w, r.s) /\ SameForGroup(r.b[x], w, r.s) /\ w.susp = r.b[x].susp
  <2>1. CASE r.b[x].cfg = R!NoCfg
    BY <1>2, <2>1 DEF SameForGroup
  <2>2. CASE r.b[x].cfg # R!NoCfg
    <3>1. w = [r.b[x] EXCEPT !.k = R!ev_token_bucket_update_(@, r.b[x].cfg)]
      BY <2>2
    <3>2. r.b[x] \in Bev(r.s)
      BY <1>2
    <3>3. w.susp = r.b[x].susp
      BY <3>1, <3>2 DEF Bev
    <3> HIDE DEF w
    <3> QED BY <1>2, <2>2, <3>1, <3>3, UpdateOwn
  <2> QED BY <2>1, <2>2
<1>4. q = [s |-> r.s, left |-> r.left, zero |-> FALSE, b |-> [r.b EXCEPT ![x] = w], g |-> r.g]
  <2>1. CASE r.b[x].cfg = R!NoCfg
    BY <1>2, <2>1 DEF Record
  <2>2. CASE r.b[x].cfg # R!NoCfg
    <3>1. PICK o : o = [r EXCEPT !.b[x].k = R!ev_token_bucket_update_(@, r.b[x].cfg)]
      OBVIOUS
    <3>2. o = [s |-> r.s, left |-> r.left, zero |-> FALSE, b |-> [r.b EXCEPT ![x] = w], g |-> r.g]
      BY <1>2, <2>2, <3>1 DEF Record
    <3> QED BY <2>2, <3>1, <3>2
  <2> QED BY <2>1, <2>2
<1> HIDE DEF w, q
<1>5. RateOK(q)
  BY <1>3, <1>4, BevStep
<1>6. q.s = r.s /\ q.g = r.g /\ q.b[x] = w /\ \A y \in r.s.bevs \ {x} : q.b[y] = r.b[y]
  BY <1>2, <1>4
<1>7. RateOK(out) /\ out.s = r.s /\ (\A y \in r.s.bevs : out.b[y].adding = r.b[y].adding)
      /\ (out.b[x].susp[d] = {} => ~(q.b[x].member /\ d \in q.g.susp))
  <2>1. CASE q.b[x].member /\ d \in q.g.susp
    <3> DEFINE z == R!suspend(w, d, "GROUP")
    <3>1. /\ OwnOK(z, r.s) /\ z \in Bev(r.s) /\ z.member = w.member /\ z.adding = w.adding
          /\ \A e \in r.s.dirs : "GROUP" \in z.susp[e] <=> ("GROUP" \in w.susp[e] \/ e = d)
      BY <1>3, SuspendMember
    <3>2. MemberOK(w, r.s, r.g)
      BY <1>2, <1>3 DEF MemberOK, SameForGroup
    <3> HIDE DEF z
    <3>3. MemberOK(z, r.s, r.g)
      BY <1>6, <2>1, <3>1, <3>2 DEF MemberOK
    <3>4. BevsOK([r.b EXCEPT ![x] = z], r.s, r.g)
      BY <1>2, <3>1, <3>3 DEF BevsOK
    <3>5. out = [s |-> r.s, left |-> r.left, zero |-> FALSE, b |-> [r.b EXCEPT ![x] = z], g |-> r.g]
      <4>1. out = [q EXCEPT !.b[x] = R!suspend(@, d, "GROUP")]
        BY <2>1
      <4> HIDE DEF out
      <4> QED BY <1>2, <1>4, <4>1 DEF z
    <3> HIDE DEF out
    <3>6. RateOK(out)
      BY <1>2, <3>4, <3>5 DEF RateOK, Apart, Record
    <3>7. out.b[x] = z /\ (\A y \in r.s.bevs \ {x} : out.b[y] = r.b[y]) /\ out.s = r.s
      BY <1>2, <3>5
    <3>8. z.adding = r.b[x].adding /\ "GROUP" \in z.susp[d]
      BY <1>3, <3>1 DEF SameForGroup
    <3> QED BY <3>6, <3>7, <3>8
  <2>2. CASE ~(q.b[x].member /\ d \in q.g.susp)
    <3>1. out = q
      BY <2>2
    <3>2. w.adding = r.b[x].adding
      BY <1>3 DEF SameForGroup
    <3> HIDE DEF out
    <3> QED BY <1>5, <1>6, <2>2, <3>1, <3>2
  <2> QED BY <2>1, <2>2
<1>8. ASSUME ~(q.b[x].member /\ d \in q.g.susp) PROVE max \in Nat \ {0}
  <2>1. own \in Nat \ {0}
    <3>1. CASE q.b[x].cfg = R!NoCfg
      BY <1>2, <1>6, <3>1, SetupTypes
    <3>2. CASE q.b[x].cfg # R!NoCfg
      <4>1. w.k.limit[d] \in Int
        BY <1>3 DEF OwnOK, Bev, Bucket
      <4>2. ~(w.k.limit[d] <= 0)
        BY <1>3, <1>6, <3>2 DEF OwnOK
      <4> QED BY <1>6, <3>2, <4>1, <4>2
    <3> QED BY <3>1, <3>2
  <2>2. q.b[x].member => share \in Nat \ {0}
    <3> SUFFICES ASSUME q.b[x].member PROVE share \in Nat \ {0}
      OBVIOUS
    <3>1. d \notin q.g.susp
      BY <1>8
    <3>2. q.g.k.limit[d] \in Int /\ q.g.share \in Nat \ {0}
      BY <1>2, <1>6 DEF GroupType, Bucket
    <3>3. R!Cardinality(R!Members(q)) \in Nat \ {0}
      <4>1. R!Members(q) \subseteq r.s.bevs /\ x \in R!Members(q)
        BY <1>6 DEF R!Members
      <4>2. IsFiniteSet(r.s.bevs)
        BY <1>2, SetupTypes
      <4>3. IsFiniteSet(R!Members(q))
        BY <4>1, <4>2, FS_Subset
      <4>4. Cardinality(R!Members(q)) \in Nat /\ Cardinality(R!Members(q)) # 0
        BY <4>1, <4>3, FS_CardinalityType, FS_EmptySet
      <4>5. R!Cardinality(R!Members(q)) = Cardinality(R!Members(q))
        BY DEF R!Cardinality, Cardinality
      <4> QED BY <4>4, <4>5
    <3>4. size \in Int
      BY <3>2, <3>3
    <3> HIDE DEF size
    <3> QED BY <3>1, <3>2, <3>4
  <2> HIDE DEF own, share
  <2> QED BY <2>1, <2>2
<1> HIDE DEF out, max
<1>9. a.r = out /\ a.max = IF max < 0 THEN 0 ELSE max
  BY <1>1
<1>10. ASSUME a.r.b[x].susp[d] = {} PROVE a.max \in Nat \ {0}
  <2>1. max \in Nat \ {0}
    BY <1>7, <1>8, <1>9, <1>10
  <2> QED BY <1>9, <2>1
<1> QED BY <1>7, <1>9, <1>10

LEMMA TransferKeeps ==
  ASSUME RateOK(rl), NEW x \in rl.s.bevs, NEW d \in rl.s.dirs, R!Transfer(x, d)
  PROVE  RateOK(rl')
<1>1. PICK a : a = R!bufferevent_get_rlim_max_(rl, x, d)
  OBVIOUS
<1>2. rl.b[x].susp[d] = {} /\ rl.b[x].adding = {}
  BY DEF R!Transfer, R!Free
<1>3. /\ RateOK(a.r) /\ a.r.s = rl.s
      /\ \A y \in rl.s.bevs : a.r.b[y].adding = rl.b[y].adding
      /\ a.r.b[x].susp[d] = {} => a.max \in Nat \ {0}
  BY <1>1, <1>2, MaxIsPositive
<1>4. CASE a.r.b[x].susp[d] # {}
  <2>1. rl' = a.r
    BY <1>1, <1>4 DEF R!Transfer
  <2> QED BY <1>3, <2>1
<1>5. CASE a.r.b[x].susp[d] = {}
  <2>1. PICK n \in 1 .. ((IF a.max = 0 THEN 1 ELSE a.max) + rl.s.over), locked \in R!Locked(x) :
          LET q == [a.r EXCEPT !.b[x] = R!bufferevent_decrement_buckets_(@, d, n),
                               !.zero = a.max = 0]
          IN rl' = IF q.b[x].member THEN R!DecrementGroup(q, d, n, locked) ELSE q
    BY <1>1, <1>5 DEF R!Transfer
  <2>2. a.max \in Nat \ {0} /\ a.max # 0
    BY <1>3, <1>5
  <2>3. n \in Nat
    <3>1. rl.s.over \in Nat
      BY SetupTypes DEF RateOK, Apart
    <3> QED BY <2>2, <3>1
  <2> DEFINE r == a.r
             w == R!bufferevent_decrement_buckets_(r.b[x], d, n)
  <2>4. PICK q : q = [r EXCEPT !.b[x] = R!bufferevent_decrement_buckets_(@, d, n),
                               !.zero = a.max = 0]
    OBVIOUS
  <2>5. rl' = IF q.b[x].member THEN R!DecrementGroup(q, d, n, locked) ELSE q
    BY <2>1, <2>4
  <2>6. OwnOK(w, r.s) /\ SameForGroup(r.b[x], w, r.s)
    BY <1>3, <2>3, DecrementOwn DEF RateOK, Apart, BevsOK
  <2> HIDE DEF w
  <2>7. q = [s |-> r.s, left |-> r.left, zero |-> FALSE, b |-> [r.b EXCEPT ![x] = w], g |-> r.g]
    <3>1. (a.max = 0) = FALSE
      BY <2>2
    <3>2. q = [r EXCEPT !.b[x] = w, !.zero = FALSE]
      BY <2>4, <3>1 DEF w
    <3>3. Record(r)
      BY <1>3 DEF RateOK, Apart
    <3> HIDE DEF r
    <3> QED BY <3>2, <3>3 DEF Record
  <2>8. RateOK(q)
    BY <1>3, <2>6, <2>7, BevStep
  <2>9. q.s = rl.s /\ Covers(locked, q)
    <3>1. r.b \in [rl.s.bevs -> Bev(rl.s)]
      BY <1>3 DEF RateOK, Apart, BevsOK
    <3>2. /\ q.s = rl.s /\ q.b[x].adding = r.b[x].adding
          /\ \A y \in rl.s.bevs \ {x} : q.b[y].adding = r.b[y].adding
      BY <1>3, <2>6, <2>7, <3>1 DEF SameForGroup
    <3>3. \A y \in rl.s.bevs \ {x} : rl.b[y].adding # {} => y \in locked
      BY DEF R!Locked, R!Free
    <3> QED BY <1>2, <1>3, <3>2, <3>3 DEF Covers
  <2>10. RateOK(R!DecrementGroup(q, d, n, locked))
    BY <2>3, <2>8, <2>9, DecrementForGroup
  <2> QED BY <2>5, <2>8, <2>10
<1> QED BY <1>4, <1>5

LEMMA InitRate ==
  ASSUME R!Init
  PROVE  RateOK(rl)
<1>1. PICK s \in RateSetups :
    rl = [s |-> s, left |-> s.n, zero |-> FALSE,
          b |-> [x \in s.bevs |-> [cfg |-> R!NoCfg, k |-> R!NewBucket(s.dirs, R!NoCfg),
                                   susp |-> [d \in s.dirs |-> {}], refill |-> FALSE,
                                   member |-> FALSE, adding |-> {}]],
          g |-> LET c == CHOOSE c \in s.cfgs : TRUE
                IN [cfg |-> c, k |-> R!NewBucket(s.dirs, c), susp |-> {}, pend |-> {},
                    share |-> R!min_share(s.share, c)]]
  BY DEF R!Init
<1> DEFINE c == CHOOSE c \in s.cfgs : TRUE
           v == [cfg |-> R!NoCfg, k |-> R!NewBucket(s.dirs, R!NoCfg),
                 susp |-> [d \in s.dirs |-> {}], refill |-> FALSE, member |-> FALSE, adding |-> {}]
           g == [cfg |-> c, k |-> R!NewBucket(s.dirs, c), susp |-> {}, pend |-> {},
                 share |-> R!min_share(s.share, c)]
<1>2. Setup(s) /\ s.cfgs # {} /\ s.share \in Nat \ {0}
  BY SetupTypes DEF Setup
<1>3. c \in s.cfgs
  BY <1>2
<1>4. rl = [s |-> s, left |-> s.n, zero |-> FALSE, b |-> [x \in s.bevs |-> v], g |-> g]
  BY <1>1
<1> HIDE DEF c
<1>5. c.rate \in Nat \ {0} /\ c.max \in Nat \ {0} /\ c.rate <= c.max
  BY <1>2, <1>3, SetupTypes DEF Config
<1>6. /\ R!NewBucket(s.dirs, c) \in Bucket(s.dirs) /\ R!NewBucket(s.dirs, R!NoCfg) \in Bucket(s.dirs)
      /\ \A d \in s.dirs : R!NewBucket(s.dirs, c).limit[d] = c.rate
  BY <1>5 DEF R!NewBucket, R!NoCfg, Bucket
<1>7. R!min_share(s.share, c) \in Nat \ {0}
  BY <1>2, <1>5 DEF R!min_share
<1>8. GroupType(g, s) /\ \A d \in s.dirs : DirOK(g, d)
  BY <1>3, <1>5, <1>6, <1>7 DEF GroupType, DirOK
<1>9. OwnOK(v, s) /\ MemberOK(v, s, g) /\ v \in Bev(s)
  BY <1>6 DEF OwnOK, MemberOK, Bev
<1> HIDE DEF v, g
<1>10. BevsOK([x \in s.bevs |-> v], s, g)
  BY <1>9 DEF BevsOK
<1> QED BY <1>2, <1>4, <1>8, <1>10 DEF RateOK, Apart, Record

LEMMA StepRate ==
  ASSUME RateOK(rl), R!Next
  PROVE  RateOK(rl')
<1>1. CASE \E x \in rl.s.bevs : R!SetRateLimit(x)
  BY <1>1, SetKeeps
<1>2. CASE \E x \in rl.s.bevs : R!GetLimit(x)
  BY <1>2, GetKeeps
<1>3. CASE \E x \in rl.s.bevs : R!Refill(x)
  BY <1>3, RefillKeeps
<1>4. CASE \E x \in rl.s.bevs : R!AddToGroup(x)
  BY <1>4, AddKeeps
<1>5. CASE \E x \in rl.s.bevs : R!AddToGroupEnds(x)
  BY <1>5, AddEndsKeeps
<1>6. CASE \E x \in rl.s.bevs : R!bufferevent_remove_from_rate_limit_group(x)
  BY <1>6, RemoveKeeps
<1>7. CASE \E x \in rl.s.bevs, d \in rl.s.dirs : R!Transfer(x, d)
  BY <1>7, TransferKeeps
<1>8. CASE \E x \in rl.s.bevs, d \in rl.s.dirs : R!DecrementLimit(x, d)
  BY <1>8, DecrementKeeps
<1>9. CASE \E d \in rl.s.dirs : R!GroupDecrement(d)
  BY <1>9, GroupDecrementKeeps
<1>10. CASE R!GroupRefill
  BY <1>10, GroupRefillKeeps
<1>11. CASE R!GroupSetCfg
  BY <1>11, GroupSetKeeps
<1>12. CASE R!Tick
  BY <1>12, TickKeeps
<1> QED BY <1>1, <1>2, <1>3, <1>4, <1>5, <1>6, <1>7, <1>8, <1>9, <1>10, <1>11, <1>12 DEF R!Next

RateInv == part = "ratelimit" => RateOK(rl)

LEMMA RateInvariant == SuiteSpec => []RateInv
<1>1. SuiteInit => RateInv
  BY InitRate DEF SuiteInit, RateInv
<1>2. RateInv /\ [SuiteNext]_<<part, bev, pair, fl, rl, tls, async>> => RateInv'
  <2> SUFFICES ASSUME RateInv, [SuiteNext]_<<part, bev, pair, fl, rl, tls, async>>, part' = "ratelimit"
               PROVE  RateOK(rl')
    BY DEF RateInv
  <2>1. CASE UNCHANGED <<part, bev, pair, fl, rl, tls, async>>
    BY <2>1 DEF RateInv
  <2>2. CASE SuiteNext
    <3>1. part = "ratelimit" /\ R!Next
      BY <2>2 DEF SuiteNext
    <3> QED BY <3>1, StepRate DEF RateInv
  <2> QED BY <2>1, <2>2
<1> QED BY <1>1, <1>2, PTL DEF SuiteSpec

\* An empty bucket stops its owners, no bucket exceeds its burst, and a transfer that is
\* allowed moves at least one byte: for any number of bufferevents in a group, whichever
\* locks bev_group_suspend_ and the sweep of a tick fail to take.
THEOREM BucketsAlwaysGovern == SuiteSpec => []BucketsGovern
<1>1. RateInv => BucketsGovern
  <2> SUFFICES ASSUME part = "ratelimit", RateOK(rl) PROVE R!BucketsGovern
    BY DEF RateInv, BucketsGovern
  <2>1. rl.zero = FALSE /\ \A d \in rl.s.dirs : DirOK(rl.g, d)
    BY DEF RateOK, Apart
  <2>2. \A x \in rl.s.bevs : OwnOK(rl.b[x], rl.s)
    BY DEF RateOK, Apart, BevsOK
  <2> QED BY <2>1, <2>2 DEF R!BucketsGovern, DirOK, OwnOK
<1> QED BY <1>1, RateInvariant, PTL

\* Nobody is suspended for want of bandwidth with nothing on its way that lets it go on:
\* the refill event for its own bucket, or for the group a direction that the sweep of
\* bev_group_refill_callback_ has on its list.
THEOREM SuspendedAreRemembered == SuiteSpec => [](part = "ratelimit" => R!SuspensionsEnd)
<1>1. RateInv => (part = "ratelimit" => R!SuspensionsEnd)
  <2> SUFFICES ASSUME part = "ratelimit", RateOK(rl) PROVE R!SuspensionsEnd
    BY DEF RateInv
  <2>1. \A x \in rl.s.bevs : OwnOK(rl.b[x], rl.s) /\ MemberOK(rl.b[x], rl.s, rl.g)
    BY DEF RateOK, Apart, BevsOK
  <2> QED BY <2>1 DEF R!SuspensionsEnd, OwnOK, MemberOK
<1> QED BY <1>1, RateInvariant, PTL

------------------------------------------------------------------------------
(* The socket bufferevent.                                                 *)

BevFields == {"alive", "options", "calls", "n", "refcnt", "owned", "cbs", "fd", "enabled", "rsusp", "wsusp", "ev",
              "tmo", "timer", "input", "output", "low", "high", "connecting", "refused", "deferred", "pend",
              "epend", "dns", "running", "failed", "at_once", "report"}

BevTyped(b) ==
  /\ DOMAIN b = BevFields /\ DOMAIN b.running = {"cb", "k"}
  /\ b.input \in Int /\ b.output \in Int /\ b.high \in Int

\* Only the fields of C differ, and those that do not matter here.
BevOnly(b, c, C) ==
  /\ DOMAIN c = BevFields
  /\ ("alive" \notin C => c.alive = b.alive) /\ ("fd" \notin C => c.fd = b.fd)
  /\ ("enabled" \notin C => c.enabled = b.enabled) /\ ("rsusp" \notin C => c.rsusp = b.rsusp)
  /\ ("wsusp" \notin C => c.wsusp = b.wsusp) /\ ("ev" \notin C => c.ev = b.ev)
  /\ ("tmo" \notin C => c.tmo = b.tmo) /\ ("timer" \notin C => c.timer = b.timer)
  /\ ("input" \notin C => c.input = b.input) /\ ("output" \notin C => c.output = b.output)
  /\ ("high" \notin C => c.high = b.high) /\ ("connecting" \notin C => c.connecting = b.connecting)
  /\ ("dns" \notin C => c.dns = b.dns) /\ ("running" \notin C => c.running = b.running)
  /\ ("failed" \notin C => c.failed = b.failed) /\ ("at_once" \notin C => c.at_once = b.at_once)

Timed(b) == b.timer = b.ev \cap b.tmo
ReadsWanted(b) == "R" \in b.ev => "R" \in b.enabled /\ b.rsusp = {}
Covered(b) ==
  b.fd /\ ~b.failed =>
     /\ "R" \in b.enabled /\ b.rsusp = {} => "R" \in b.ev
     /\ "W" \in b.enabled /\ b.wsusp = {} /\ b.output > 0 => "W" \in b.ev
     /\ b.connecting /\ ~b.at_once => "W" \in b.ev
WritesWanted(b) == "W" \in b.ev => ("W" \in b.enabled /\ b.wsusp = {}) \/ b.connecting

Marked(b) == "WM" \in b.rsusp <=> b.high # 0 /\ b.input >= b.high
Looked(b) == ("LOOKUP" \in b.rsusp <=> b.dns # "no") /\ ("LOOKUP" \in b.wsusp <=> b.dns # "no")
Connects(b) == (b.connecting => b.fd) /\ (b.dns # "no" => ~b.connecting)

\* Whatever the order of calls was; in the middle of the report of a connection
\* ev_write may still be there from the attempt.
Events(b) == Timed(b) /\ ReadsWanted(b) /\ Covered(b)
Core(b) == Events(b) /\ Marked(b) /\ Looked(b) /\ Connects(b)
Fine(b) == BevTyped(b) /\ (Live(b) => Core(b) /\ WritesWanted(b))
Settled(b) == Fine(b) /\ b.running.k # "connected"

BevSound(b) ==
  /\ BevTyped(b)
  /\ Live(b) =>
        /\ Core(b)
        /\ WritesWanted(b) \/ b.running.k = "connected"
        /\ b.running.k = "connected" => b.running.cb = "CONNECTED" /\ ~b.connecting /\ b.fd

LEMMA AddsEvent ==
  ASSUME NEW b, BevTyped(b), NEW d, NEW c, c = bufferevent_add_event_(b, d)
  PROVE  /\ BevOnly(b, c, {"ev", "timer"}) /\ BevTyped(c) /\ c.ev = b.ev \cup {d}
         /\ Timed(b) => Timed(c)
<1>1. BevOnly(b, c, {"ev", "timer"}) /\ c.ev = b.ev \cup {d} /\ c.timer = IF d \in b.tmo THEN b.timer \cup {d} ELSE b.timer
  BY DEF bufferevent_add_event_, BevTyped, BevFields, BevOnly
<1>2. BevTyped(c)
  BY <1>1 DEF BevTyped, BevOnly
<1>3. c.tmo = b.tmo
  BY <1>1 DEF BevOnly
<1> QED BY <1>1, <1>2, <1>3 DEF Timed

LEMMA DelsEvents ==
  ASSUME NEW b, BevTyped(b), NEW D, NEW c, c = event_del(b, D)
  PROVE  /\ BevOnly(b, c, {"ev", "timer"}) /\ BevTyped(c) /\ c.ev = b.ev \ D
         /\ Timed(b) => Timed(c)
<1>1. BevOnly(b, c, {"ev", "timer"}) /\ c.ev = b.ev \ D /\ c.timer = b.timer \ D
  BY DEF event_del, BevTyped, BevFields, BevOnly
<1>2. BevTyped(c)
  BY <1>1 DEF BevTyped, BevOnly
<1>3. c.tmo = b.tmo
  BY <1>1 DEF BevOnly
<1> QED BY <1>1, <1>2, <1>3 DEF Timed

LEMMA SockEnables ==
  ASSUME NEW b, BevTyped(b), NEW D, NEW c, c = be_socket_enable(b, D)
  PROVE  /\ BevOnly(b, c, {"ev", "timer"}) /\ BevTyped(c)
         /\ "R" \in c.ev <=> "R" \in b.ev \/ "R" \in D
         /\ "W" \in c.ev <=> "W" \in b.ev \/ "W" \in D
         /\ Timed(b) => Timed(c)
<1>1. PICK r : r = IF "R" \in D THEN bufferevent_add_event_(b, "R") ELSE b
  OBVIOUS
<1>2. c = IF "W" \in D THEN bufferevent_add_event_(r, "W") ELSE r
  BY <1>1 DEF be_socket_enable
<1>3. /\ BevOnly(b, r, {"ev", "timer"}) /\ BevTyped(r) /\ (Timed(b) => Timed(r))
      /\ r.ev = IF "R" \in D THEN b.ev \cup {"R"} ELSE b.ev
  <2>1. CASE "R" \in D
    BY <1>1, <2>1, AddsEvent
  <2>2. CASE "R" \notin D
    BY <1>1, <2>2 DEF BevOnly, BevTyped
  <2> QED BY <2>1, <2>2
<1>4. /\ BevOnly(r, c, {"ev", "timer"}) /\ BevTyped(c) /\ (Timed(r) => Timed(c))
      /\ c.ev = IF "W" \in D THEN r.ev \cup {"W"} ELSE r.ev
  <2>1. CASE "W" \in D
    BY <1>2, <1>3, <2>1, AddsEvent
  <2>2. CASE "W" \notin D
    BY <1>2, <1>3, <2>2 DEF BevOnly, BevTyped
  <2> QED BY <2>1, <2>2
<1>5. BevOnly(b, c, {"ev", "timer"})
  BY <1>3, <1>4 DEF BevOnly
<1> QED BY <1>3, <1>4, <1>5

LEMMA SockDisables ==
  ASSUME NEW b, BevTyped(b), NEW D, NEW c, c = be_socket_disable(b, D)
  PROVE  /\ BevOnly(b, c, {"ev", "timer"}) /\ BevTyped(c)
         /\ "R" \in c.ev <=> "R" \in b.ev /\ "R" \notin D
         /\ "W" \in c.ev <=> "W" \in b.ev /\ ("W" \notin D \/ b.connecting)
         /\ Timed(b) => Timed(c)
<1>1. PICK X : X = IF b.connecting THEN D \ {"W"} ELSE D
  OBVIOUS
<1>2. c = event_del(b, X)
  BY <1>1 DEF be_socket_disable
<1>3. BevOnly(b, c, {"ev", "timer"}) /\ BevTyped(c) /\ c.ev = b.ev \ X /\ (Timed(b) => Timed(c))
  BY <1>2, DelsEvents
<1>4. ("R" \in X <=> "R" \in D) /\ ("W" \in X <=> "W" \in D /\ ~b.connecting)
  BY <1>1
<1> QED BY <1>3, <1>4

\* Suspending and unsuspending keep what the loop watches right.
LEMMA SuspendsRead ==
  ASSUME NEW b, BevTyped(b), NEW w, NEW c, c = bufferevent_suspend_read_(b, w)
  PROVE  /\ BevOnly(b, c, {"ev", "timer", "rsusp"}) /\ BevTyped(c) /\ c.rsusp = b.rsusp \cup {w}
         /\ Events(b) => Events(c)
         /\ WritesWanted(b) => WritesWanted(c)
<1>1. PICK d : d = IF b.rsusp = {} THEN be_socket_disable(b, {"R"}) ELSE b
  OBVIOUS
<1>2. c = [d EXCEPT !.rsusp = @ \cup {w}]
  BY <1>1 DEF bufferevent_suspend_read_
<1>3. /\ BevOnly(b, d, {"ev", "timer"}) /\ BevTyped(d)
      /\ "R" \in d.ev <=> "R" \in b.ev /\ b.rsusp # {}
      /\ "W" \in d.ev <=> "W" \in b.ev
      /\ Timed(b) => Timed(d)
  <2>1. CASE b.rsusp = {}
    BY <1>1, <2>1, SockDisables
  <2>2. CASE b.rsusp # {}
    BY <1>1, <2>2 DEF BevOnly, BevTyped
  <2> QED BY <2>1, <2>2
<1>4. BevOnly(d, c, {"rsusp"}) /\ c.rsusp = d.rsusp \cup {w}
  BY <1>2, <1>3 DEF BevTyped, BevFields, BevOnly
<1>5. BevOnly(b, c, {"ev", "timer", "rsusp"}) /\ c.rsusp = b.rsusp \cup {w} /\ c.ev = d.ev /\ c.timer = d.timer /\ d.tmo = c.tmo
  BY <1>3, <1>4 DEF BevOnly
<1>6. BevTyped(c)
  BY <1>3, <1>4 DEF BevTyped, BevOnly
<1>7. /\ c.fd = b.fd /\ c.enabled = b.enabled /\ c.wsusp = b.wsusp /\ c.output = b.output
      /\ c.connecting = b.connecting /\ c.failed = b.failed /\ c.at_once = b.at_once
  BY <1>5 DEF BevOnly
<1>8. Events(b) => Timed(c)
  BY <1>3, <1>5 DEF Timed, Events
<1>9. Events(b) => ReadsWanted(c)
  BY <1>3, <1>5 DEF ReadsWanted, Events
<1>10. Events(b) => Covered(c)
  BY <1>3, <1>5, <1>7 DEF Covered, Events
<1>11. WritesWanted(b) => WritesWanted(c)
  BY <1>3, <1>5, <1>7 DEF WritesWanted
<1> QED BY <1>5, <1>6, <1>8, <1>9, <1>10, <1>11 DEF Events

LEMMA UnsuspendsRead ==
  ASSUME NEW b, BevTyped(b), NEW w, NEW c, c = bufferevent_unsuspend_read_(b, w)
  PROVE  /\ BevOnly(b, c, {"ev", "timer", "rsusp"}) /\ BevTyped(c) /\ c.rsusp = b.rsusp \ {w}
         /\ Events(b) => Events(c)
         /\ WritesWanted(b) => WritesWanted(c)
<1>1. PICK d : d = [b EXCEPT !.rsusp = @ \ {w}]
  OBVIOUS
<1>2. c = IF d.rsusp = {} /\ "R" \in d.enabled THEN be_socket_enable(d, {"R"}) ELSE d
  BY <1>1 DEF bufferevent_unsuspend_read_
<1>3. BevOnly(b, d, {"rsusp"}) /\ d.rsusp = b.rsusp \ {w}
  BY <1>1 DEF BevTyped, BevFields, BevOnly
<1>4. BevTyped(d)
  BY <1>3 DEF BevTyped, BevOnly
<1>5. /\ BevOnly(d, c, {"ev", "timer"}) /\ BevTyped(c)
      /\ "R" \in c.ev <=> "R" \in d.ev \/ (d.rsusp = {} /\ "R" \in d.enabled)
      /\ "W" \in c.ev <=> "W" \in d.ev
      /\ Timed(d) => Timed(c)
  <2>1. CASE d.rsusp = {} /\ "R" \in d.enabled
    BY <1>2, <1>4, <2>1, SockEnables
  <2>2. CASE ~(d.rsusp = {} /\ "R" \in d.enabled)
    BY <1>2, <1>4, <2>2 DEF BevOnly, BevTyped
  <2> QED BY <2>1, <2>2
<1>6. BevOnly(b, c, {"ev", "timer", "rsusp"}) /\ c.rsusp = b.rsusp \ {w} /\ d.ev = b.ev /\ d.timer = b.timer /\ d.tmo = b.tmo
  BY <1>3, <1>5 DEF BevOnly
<1>7. /\ c.fd = b.fd /\ c.enabled = b.enabled /\ c.wsusp = b.wsusp /\ c.output = b.output /\ d.enabled = b.enabled
      /\ c.connecting = b.connecting /\ c.failed = b.failed /\ c.at_once = b.at_once /\ c.rsusp = d.rsusp
  BY <1>3, <1>5 DEF BevOnly
<1>8. Events(b) => Timed(c)
  BY <1>5, <1>6 DEF Timed, Events
<1>9. Events(b) => ReadsWanted(c)
  BY <1>5, <1>6, <1>7 DEF ReadsWanted, Events
<1>10. Events(b) => Covered(c)
  BY <1>5, <1>6, <1>7 DEF Covered, Events
<1>11. WritesWanted(b) => WritesWanted(c)
  BY <1>5, <1>6, <1>7 DEF WritesWanted
<1> QED BY <1>5, <1>6, <1>8, <1>9, <1>10, <1>11 DEF Events

LEMMA SuspendsWrite ==
  ASSUME NEW b, BevTyped(b), NEW w, NEW c, c = bufferevent_suspend_write_(b, w)
  PROVE  /\ BevOnly(b, c, {"ev", "timer", "wsusp"}) /\ BevTyped(c) /\ c.wsusp = b.wsusp \cup {w}
         /\ Events(b) => Events(c)
         /\ WritesWanted(b) => WritesWanted(c)
<1>1. PICK d : d = IF b.wsusp = {} THEN be_socket_disable(b, {"W"}) ELSE b
  OBVIOUS
<1>2. c = [d EXCEPT !.wsusp = @ \cup {w}]
  BY <1>1 DEF bufferevent_suspend_write_
<1>3. /\ BevOnly(b, d, {"ev", "timer"}) /\ BevTyped(d)
      /\ "R" \in d.ev <=> "R" \in b.ev
      /\ "W" \in d.ev <=> "W" \in b.ev /\ (b.wsusp # {} \/ b.connecting)
      /\ Timed(b) => Timed(d)
  <2>1. CASE b.wsusp = {}
    BY <1>1, <2>1, SockDisables
  <2>2. CASE b.wsusp # {}
    BY <1>1, <2>2 DEF BevOnly, BevTyped
  <2> QED BY <2>1, <2>2
<1>4. BevOnly(d, c, {"wsusp"}) /\ c.wsusp = d.wsusp \cup {w}
  BY <1>2, <1>3 DEF BevTyped, BevFields, BevOnly
<1>5. BevOnly(b, c, {"ev", "timer", "wsusp"}) /\ c.wsusp = b.wsusp \cup {w} /\ c.ev = d.ev /\ c.timer = d.timer /\ d.tmo = c.tmo
  BY <1>3, <1>4 DEF BevOnly
<1>6. BevTyped(c)
  BY <1>3, <1>4 DEF BevTyped, BevOnly
<1>7. /\ c.fd = b.fd /\ c.enabled = b.enabled /\ c.rsusp = b.rsusp /\ c.output = b.output
      /\ c.connecting = b.connecting /\ c.failed = b.failed /\ c.at_once = b.at_once
  BY <1>5 DEF BevOnly
<1>8. Events(b) => Timed(c)
  BY <1>3, <1>5 DEF Timed, Events
<1>9. Events(b) => ReadsWanted(c)
  BY <1>3, <1>5, <1>7 DEF ReadsWanted, Events
<1>10. Events(b) => Covered(c)
  BY <1>3, <1>5, <1>7 DEF Covered, Events
<1>11. WritesWanted(b) => WritesWanted(c)
  BY <1>3, <1>5, <1>7 DEF WritesWanted
<1> QED BY <1>5, <1>6, <1>8, <1>9, <1>10, <1>11 DEF Events

LEMMA UnsuspendsWrite ==
  ASSUME NEW b, BevTyped(b), NEW w, NEW c, c = bufferevent_unsuspend_write_(b, w)
  PROVE  /\ BevOnly(b, c, {"ev", "timer", "wsusp"}) /\ BevTyped(c) /\ c.wsusp = b.wsusp \ {w}
         /\ Events(b) => Events(c)
         /\ WritesWanted(b) => WritesWanted(c)
<1>1. PICK d : d = [b EXCEPT !.wsusp = @ \ {w}]
  OBVIOUS
<1>2. c = IF d.wsusp = {} /\ "W" \in d.enabled THEN be_socket_enable(d, {"W"}) ELSE d
  BY <1>1 DEF bufferevent_unsuspend_write_
<1>3. BevOnly(b, d, {"wsusp"}) /\ d.wsusp = b.wsusp \ {w}
  BY <1>1 DEF BevTyped, BevFields, BevOnly
<1>4. BevTyped(d)
  BY <1>3 DEF BevTyped, BevOnly
<1>5. /\ BevOnly(d, c, {"ev", "timer"}) /\ BevTyped(c)
      /\ "R" \in c.ev <=> "R" \in d.ev
      /\ "W" \in c.ev <=> "W" \in d.ev \/ (d.wsusp = {} /\ "W" \in d.enabled)
      /\ Timed(d) => Timed(c)
  <2>1. CASE d.wsusp = {} /\ "W" \in d.enabled
    BY <1>2, <1>4, <2>1, SockEnables
  <2>2. CASE ~(d.wsusp = {} /\ "W" \in d.enabled)
    BY <1>2, <1>4, <2>2 DEF BevOnly, BevTyped
  <2> QED BY <2>1, <2>2
<1>6. BevOnly(b, c, {"ev", "timer", "wsusp"}) /\ c.wsusp = b.wsusp \ {w} /\ d.ev = b.ev /\ d.timer = b.timer /\ d.tmo = b.tmo
  BY <1>3, <1>5 DEF BevOnly
<1>7. /\ c.fd = b.fd /\ c.enabled = b.enabled /\ c.rsusp = b.rsusp /\ c.output = b.output /\ d.enabled = b.enabled
      /\ c.connecting = b.connecting /\ c.failed = b.failed /\ c.at_once = b.at_once /\ c.wsusp = d.wsusp
  BY <1>3, <1>5 DEF BevOnly
<1>8. Events(b) => Timed(c)
  BY <1>5, <1>6 DEF Timed, Events
<1>9. Events(b) => ReadsWanted(c)
  BY <1>5, <1>6, <1>7 DEF ReadsWanted, Events
<1>10. Events(b) => Covered(c)
  BY <1>5, <1>6, <1>7 DEF Covered, Events
<1>11. WritesWanted(b) => WritesWanted(c)
  BY <1>5, <1>6, <1>7 DEF WritesWanted
<1> QED BY <1>5, <1>6, <1>8, <1>9, <1>10, <1>11 DEF Events

\* The functions of the program keep what is right, also in the middle of a report.
Keeps(b, c) ==
  BevTyped(c) /\ c.alive = b.alive /\ (Core(b) => Core(c)) /\ (WritesWanted(b) => WritesWanted(c))

LEMMA EventsMakeCore ==
  ASSUME NEW b, NEW c, BevOnly(b, c, {"ev", "timer", "enabled", "running"}), Events(b) => Events(c)
  PROVE  Core(b) => Core(c)
<1>1. (Marked(b) <=> Marked(c)) /\ (Looked(b) <=> Looked(c)) /\ (Connects(b) <=> Connects(c))
  BY DEF BevOnly, Marked, Looked, Connects
<1> QED BY <1>1 DEF Core

LEMMA Unchanged ==
  ASSUME NEW b, BevTyped(b), NEW c, BevOnly(b, c, {})
  PROVE  Keeps(b, c) /\ (Events(b) <=> Events(c))
<1>1. Events(b) <=> Events(c)
  BY DEF BevOnly, Events, Timed, ReadsWanted, Covered
<1>2. WritesWanted(b) <=> WritesWanted(c)
  BY DEF BevOnly, WritesWanted
<1>3. Core(b) => Core(c)
  <2>1. BevOnly(b, c, {"ev", "timer", "enabled", "running"})
    BY DEF BevOnly
  <2> QED BY <1>1, <2>1, EventsMakeCore
<1>4. BevTyped(c)
  BY DEF BevTyped, BevOnly
<1> QED BY <1>1, <1>2, <1>3, <1>4 DEF Keeps, BevOnly

LEMMA MarksInput ==
  ASSUME NEW b, BevTyped(b), b.high = 0 => "WM" \notin b.rsusp, NEW c, c = bufferevent_inbuf_wm_cb(b)
  PROVE  /\ BevOnly(b, c, {"ev", "timer", "rsusp"}) /\ BevTyped(c) /\ Marked(c)
         /\ "LOOKUP" \in c.rsusp <=> "LOOKUP" \in b.rsusp
         /\ Events(b) => Events(c)
         /\ WritesWanted(b) => WritesWanted(c)
<1>1. CASE b.high = 0
  <2>1. c = b
    BY <1>1 DEF bufferevent_inbuf_wm_cb
  <2> QED BY <1>1, <2>1 DEF BevOnly, BevTyped, Marked
<1>2. CASE b.high # 0 /\ b.input >= b.high
  <2>1. c = bufferevent_suspend_read_(b, "WM")
    BY <1>2 DEF bufferevent_inbuf_wm_cb
  <2>2. /\ BevOnly(b, c, {"ev", "timer", "rsusp"}) /\ BevTyped(c) /\ c.rsusp = b.rsusp \cup {"WM"}
        /\ Events(b) => Events(c)
        /\ WritesWanted(b) => WritesWanted(c)
    BY <2>1, SuspendsRead
  <2>3. c.high = b.high /\ c.input = b.input
    BY <2>2 DEF BevOnly
  <2> QED BY <1>2, <2>2, <2>3 DEF Marked
<1>3. CASE b.high # 0 /\ ~(b.input >= b.high)
  <2>1. c = bufferevent_unsuspend_read_(b, "WM")
    BY <1>3 DEF bufferevent_inbuf_wm_cb
  <2>2. /\ BevOnly(b, c, {"ev", "timer", "rsusp"}) /\ BevTyped(c) /\ c.rsusp = b.rsusp \ {"WM"}
        /\ Events(b) => Events(c)
        /\ WritesWanted(b) => WritesWanted(c)
    BY <2>1, UnsuspendsRead
  <2>3. c.high = b.high /\ c.input = b.input
    BY <2>2 DEF BevOnly
  <2> QED BY <1>3, <2>2, <2>3 DEF Marked
<1> QED BY <1>1, <1>2, <1>3

\* Input that comes or goes: d is what the buffer holds when its callback runs.
LEMMA InputMoves ==
  ASSUME NEW b, BevTyped(b), NEW i \in Int, NEW c, c = bufferevent_inbuf_wm_cb([b EXCEPT !.input = i])
  PROVE  /\ Core(b) => BevTyped(c) /\ Core(c)
         /\ Core(b) => (WritesWanted(b) => WritesWanted(c))
         /\ Core(b) => BevOnly(b, c, {"ev", "timer", "rsusp", "input"})
<1> SUFFICES ASSUME Core(b)
             PROVE  /\ BevTyped(c) /\ Core(c)
                    /\ WritesWanted(b) => WritesWanted(c)
                    /\ BevOnly(b, c, {"ev", "timer", "rsusp", "input"})
  OBVIOUS
<1>1. PICK d : d = [b EXCEPT !.input = i]
  OBVIOUS
<1>2. BevOnly(b, d, {"input"}) /\ d.input = i
  BY <1>1 DEF BevTyped, BevFields, BevOnly
<1>3. BevTyped(d)
  BY <1>2 DEF BevTyped, BevOnly
<1>4. d.high = 0 => "WM" \notin d.rsusp
  BY <1>2 DEF BevOnly, Core, Marked
<1>5. c = bufferevent_inbuf_wm_cb(d)
  BY <1>1
<1>6. /\ BevOnly(d, c, {"ev", "timer", "rsusp"}) /\ BevTyped(c) /\ Marked(c)
      /\ "LOOKUP" \in c.rsusp <=> "LOOKUP" \in d.rsusp
      /\ Events(d) => Events(c)
      /\ WritesWanted(d) => WritesWanted(c)
  BY <1>3, <1>4, <1>5, MarksInput
<1>7. Events(d) /\ (WritesWanted(b) => WritesWanted(d))
  BY <1>2 DEF BevOnly, Core, Events, Timed, ReadsWanted, Covered, WritesWanted
<1>8. BevOnly(b, c, {"ev", "timer", "rsusp", "input"}) /\ d.rsusp = b.rsusp
  BY <1>2, <1>6 DEF BevOnly
<1>9. Looked(c)
  BY <1>6, <1>8 DEF Core, Looked, BevOnly
<1>10. Connects(c)
  BY <1>8 DEF Core, Connects, BevOnly
<1> QED BY <1>6, <1>7, <1>8, <1>9, <1>10 DEF Core

LEMMA Enabling ==
  ASSUME NEW b, BevTyped(b), NEW D, NEW c, c = bufferevent_enable(b, D)
  PROVE  /\ BevOnly(b, c, {"ev", "timer", "enabled"}) /\ BevTyped(c) /\ c.enabled = b.enabled \cup D
         /\ "R" \in c.ev <=> "R" \in b.ev \/ ("R" \in D /\ b.rsusp = {})
         /\ "W" \in c.ev <=> "W" \in b.ev \/ ("W" \in D /\ b.wsusp = {})
         /\ Timed(b) => Timed(c)
         /\ Events(b) => Events(c)
         /\ WritesWanted(b) => WritesWanted(c)
<1>1. PICK d : d = [b EXCEPT !.enabled = @ \cup D]
  OBVIOUS
<1>2. PICK X : X = D \ ((IF b.rsusp # {} THEN {"R"} ELSE {}) \cup (IF b.wsusp # {} THEN {"W"} ELSE {}))
  OBVIOUS
<1>3. c = be_socket_enable(d, X)
  BY <1>1, <1>2 DEF bufferevent_enable
<1>4. BevOnly(b, d, {"enabled"}) /\ d.enabled = b.enabled \cup D
  BY <1>1 DEF BevTyped, BevFields, BevOnly
<1>5. BevTyped(d)
  BY <1>4 DEF BevTyped, BevOnly
<1>6. /\ BevOnly(d, c, {"ev", "timer"}) /\ BevTyped(c)
      /\ "R" \in c.ev <=> "R" \in d.ev \/ "R" \in X
      /\ "W" \in c.ev <=> "W" \in d.ev \/ "W" \in X
      /\ Timed(d) => Timed(c)
  BY <1>3, <1>5, SockEnables
<1>7. ("R" \in X <=> "R" \in D /\ b.rsusp = {}) /\ ("W" \in X <=> "W" \in D /\ b.wsusp = {})
  BY <1>2
<1>8. BevOnly(b, c, {"ev", "timer", "enabled"}) /\ c.enabled = b.enabled \cup D /\ d.ev = b.ev
  BY <1>4, <1>6 DEF BevOnly
<1>9. Timed(b) => Timed(c)
  BY <1>4, <1>6 DEF BevOnly, Timed
<1>10. /\ c.fd = b.fd /\ c.wsusp = b.wsusp /\ c.rsusp = b.rsusp /\ c.output = b.output
       /\ c.connecting = b.connecting /\ c.failed = b.failed /\ c.at_once = b.at_once
  BY <1>8 DEF BevOnly
<1>11. Events(b) => ReadsWanted(c)
  BY <1>6, <1>7, <1>8, <1>10 DEF Events, ReadsWanted
<1>12. Events(b) => Covered(c)
  BY <1>6, <1>7, <1>8, <1>10 DEF Events, Covered
<1>13. WritesWanted(b) => WritesWanted(c)
  BY <1>6, <1>7, <1>8, <1>10 DEF WritesWanted
<1> QED BY <1>6, <1>7, <1>8, <1>9, <1>11, <1>12, <1>13 DEF Events

LEMMA Disabling ==
  ASSUME NEW b, BevTyped(b), NEW D, NEW c, c = bufferevent_disable(b, D)
  PROVE  BevOnly(b, c, {"ev", "timer", "enabled"}) /\ Keeps(b, c)
<1>1. PICK d : d = [b EXCEPT !.enabled = @ \ D]
  OBVIOUS
<1>2. c = be_socket_disable(d, D)
  BY <1>1 DEF bufferevent_disable
<1>3. BevOnly(b, d, {"enabled"}) /\ d.enabled = b.enabled \ D
  BY <1>1 DEF BevTyped, BevFields, BevOnly
<1>4. BevTyped(d)
  BY <1>3 DEF BevTyped, BevOnly
<1>5. /\ BevOnly(d, c, {"ev", "timer"}) /\ BevTyped(c)
      /\ "R" \in c.ev <=> "R" \in d.ev /\ "R" \notin D
      /\ "W" \in c.ev <=> "W" \in d.ev /\ ("W" \notin D \/ d.connecting)
      /\ Timed(d) => Timed(c)
  BY <1>2, <1>4, SockDisables
<1>6. BevOnly(b, c, {"ev", "timer", "enabled"}) /\ c.enabled = b.enabled \ D /\ d.ev = b.ev
  BY <1>3, <1>5 DEF BevOnly
<1>7. Timed(b) => Timed(c)
  BY <1>3, <1>5 DEF BevOnly, Timed
<1>8. /\ c.fd = b.fd /\ c.wsusp = b.wsusp /\ c.rsusp = b.rsusp /\ c.output = b.output /\ d.connecting = b.connecting
      /\ c.connecting = b.connecting /\ c.failed = b.failed /\ c.at_once = b.at_once /\ c.alive = b.alive
  BY <1>3, <1>6 DEF BevOnly
<1>9. Events(b) => ReadsWanted(c)
  BY <1>5, <1>6, <1>8 DEF Events, ReadsWanted
<1>10. Events(b) => Covered(c)
  BY <1>5, <1>6, <1>8 DEF Events, Covered
<1>11. WritesWanted(b) => WritesWanted(c)
  BY <1>5, <1>6, <1>8 DEF WritesWanted
<1>12. Core(b) => Core(c)
  <2>1. BevOnly(b, c, {"ev", "timer", "enabled", "running"})
    BY <1>6 DEF BevOnly
  <2>2. Events(b) => Events(c)
    BY <1>7, <1>9, <1>10 DEF Events
  <2> QED BY <2>1, <2>2, EventsMakeCore
<1> QED BY <1>5, <1>6, <1>8, <1>11, <1>12 DEF Keeps

LEMMA DisablingHard ==
  ASSUME NEW b, BevTyped(b), NEW c, c = bufferevent_disable_hard_(b, Dirs)
  PROVE  BevOnly(b, c, {"ev", "timer", "enabled", "connecting"}) /\ Keeps(b, c) /\ c.connecting = FALSE
<1>1. PICK d : d = [b EXCEPT !.enabled = @ \ Dirs, !.connecting = FALSE]
  OBVIOUS
<1>2. c = be_socket_disable(d, Dirs)
  BY <1>1 DEF bufferevent_disable_hard_
<1>3. BevOnly(b, d, {"enabled", "connecting"}) /\ d.enabled = b.enabled \ Dirs /\ d.connecting = FALSE
  BY <1>1 DEF BevTyped, BevFields, BevOnly
<1>4. BevTyped(d)
  BY <1>3 DEF BevTyped, BevOnly
<1>5. /\ BevOnly(d, c, {"ev", "timer"}) /\ BevTyped(c)
      /\ "R" \in c.ev <=> "R" \in d.ev /\ "R" \notin Dirs
      /\ "W" \in c.ev <=> "W" \in d.ev /\ ("W" \notin Dirs \/ d.connecting)
      /\ Timed(d) => Timed(c)
  BY <1>2, <1>4, SockDisables
<1>6. /\ BevOnly(b, c, {"ev", "timer", "enabled", "connecting"}) /\ c.enabled = b.enabled \ Dirs
      /\ c.connecting = FALSE /\ "R" \notin c.ev /\ "W" \notin c.ev
  BY <1>3, <1>5 DEF BevOnly, Dirs
<1>7. Timed(b) => Timed(c)
  BY <1>3, <1>5 DEF BevOnly, Timed
<1>8. ReadsWanted(c) /\ Covered(c) /\ WritesWanted(c)
  BY <1>6 DEF ReadsWanted, Covered, WritesWanted, Dirs
<1>9. (Marked(b) <=> Marked(c)) /\ (Looked(b) <=> Looked(c)) /\ Connects(c) /\ c.alive = b.alive
  BY <1>6 DEF BevOnly, Marked, Looked, Connects
<1> QED BY <1>5, <1>6, <1>7, <1>8, <1>9 DEF Keeps, Core, Events

\* A new descriptor; no attempt is under way.
LEMMA SetsFd ==
  ASSUME NEW b, BevTyped(b), ~b.connecting, NEW fd, NEW c, c = be_socket_setfd(b, fd)
  PROVE  /\ BevOnly(b, c, {"ev", "timer", "enabled", "fd", "failed", "dns"}) /\ BevTyped(c) /\ c.fd = fd
         /\ c.dns = "no" <=> b.dns = "no"
         /\ Core(b) => Core(c)
         /\ WritesWanted(c)
<1>1. PICK e : e = event_del(b, Dirs)
  OBVIOUS
<1>2. PICK d : d = [e EXCEPT !.fd = fd, !.failed = FALSE, !.refused = FALSE]
  OBVIOUS
<1>3. PICK g : g = IF fd THEN bufferevent_enable(d, d.enabled) ELSE d
  OBVIOUS
<1>4. c = [g EXCEPT !.dns = IF @ = "asked" THEN "cancelled" ELSE @]
  BY <1>1, <1>2, <1>3 DEF be_socket_setfd
<1>5. /\ BevOnly(b, e, {"ev", "timer"}) /\ BevTyped(e) /\ e.ev = b.ev \ Dirs
      /\ Timed(b) => Timed(e)
  BY <1>1, DelsEvents
<1>6. BevOnly(e, d, {"fd", "failed"}) /\ d.fd = fd /\ d.failed = FALSE
  BY <1>2, <1>5 DEF BevTyped, BevFields, BevOnly
<1>7. BevTyped(d)
  BY <1>5, <1>6 DEF BevTyped, BevOnly
<1>8. BevOnly(b, d, {"ev", "timer", "fd", "failed"}) /\ d.ev = b.ev \ Dirs /\ (Timed(b) => Timed(d))
  BY <1>5, <1>6 DEF BevOnly, Timed
<1>9. /\ BevOnly(d, g, {"ev", "timer", "enabled"}) /\ BevTyped(g) /\ (Timed(d) => Timed(g))
      /\ "R" \in g.ev <=> fd /\ "R" \in g.enabled /\ d.rsusp = {}
      /\ "W" \in g.ev <=> fd /\ "W" \in g.enabled /\ d.wsusp = {}
  <2>1. "R" \notin d.ev /\ "W" \notin d.ev
    BY <1>8 DEF Dirs
  <2>2. CASE fd
    <3>1. g = bufferevent_enable(d, d.enabled)
      BY <1>3, <2>2
    <3>2. /\ BevOnly(d, g, {"ev", "timer", "enabled"}) /\ BevTyped(g) /\ g.enabled = d.enabled \cup d.enabled
          /\ "R" \in g.ev <=> "R" \in d.ev \/ ("R" \in d.enabled /\ d.rsusp = {})
          /\ "W" \in g.ev <=> "W" \in d.ev \/ ("W" \in d.enabled /\ d.wsusp = {})
          /\ Timed(d) => Timed(g)
      BY <1>7, <3>1, Enabling
    <3> QED BY <2>1, <2>2, <3>2
  <2>3. CASE ~fd
    BY <1>3, <1>7, <2>1, <2>3 DEF BevOnly, BevTyped
  <2> QED BY <2>2, <2>3
<1>10. BevOnly(g, c, {"dns"}) /\ c.dns = IF g.dns = "asked" THEN "cancelled" ELSE g.dns
  BY <1>4, <1>9 DEF BevTyped, BevFields, BevOnly
<1>11. BevTyped(c)
  BY <1>9, <1>10 DEF BevTyped, BevOnly
<1>12. /\ BevOnly(b, c, {"ev", "timer", "enabled", "fd", "failed", "dns"}) /\ c.fd = fd /\ g.dns = b.dns
       /\ c.ev = g.ev /\ c.enabled = g.enabled /\ d.rsusp = c.rsusp /\ d.wsusp = c.wsusp /\ c.connecting = b.connecting
  BY <1>6, <1>8, <1>9, <1>10 DEF BevOnly
<1>13. c.dns = "no" <=> b.dns = "no"
  BY <1>10, <1>12
<1>14. Timed(b) => Timed(c)
  BY <1>8, <1>9, <1>10 DEF BevOnly, Timed
<1>15. ReadsWanted(c) /\ Covered(c) /\ WritesWanted(c)
  BY <1>9, <1>12 DEF ReadsWanted, Covered, WritesWanted
<1>16. (Marked(b) <=> Marked(c)) /\ (Looked(b) <=> Looked(c)) /\ Connects(c)
  BY <1>12, <1>13 DEF BevOnly, Marked, Looked, Connects
<1> QED BY <1>11, <1>12, <1>13, <1>14, <1>15, <1>16 DEF Core, Events

LEMMA DefersQuietly ==
  ASSUME NEW b, BevTyped(b), NEW c,
         c = SCHEDULE_DEFERRED(b) \/ c = bufferevent_incref(b) \/ c = bufferevent_inbuf_wm_check(b)
         \/ (\E p : c = SCHEDULE_DEFERRED([b EXCEPT !.pend = p]))
         \/ (\E p : c = SCHEDULE_DEFERRED([b EXCEPT !.epend = p]))
  PROVE  BevOnly(b, c, {}) /\ BevTyped(c)
<1>1. ASSUME NEW d, BevOnly(b, d, {}), NEW e, e = SCHEDULE_DEFERRED(d)
      PROVE  BevOnly(b, e, {})
  <2>1. CASE d.deferred
    BY <1>1, <2>1 DEF SCHEDULE_DEFERRED
  <2>2. CASE ~d.deferred
    <3>1. PICK g : g = [d EXCEPT !.deferred = TRUE]
      OBVIOUS
    <3>2. BevOnly(b, g, {})
      BY <1>1, <3>1 DEF BevFields, BevOnly
    <3>3. e = [g EXCEPT !.refcnt = @ + 1]
      BY <1>1, <2>2, <3>1 DEF SCHEDULE_DEFERRED, bufferevent_incref
    <3> QED BY <3>2, <3>3 DEF BevFields, BevOnly
  <2> QED BY <2>1, <2>2
<1>2. BevOnly(b, b, {})
  BY DEF BevOnly, BevTyped
<1>3. ASSUME NEW p, NEW d, d = [b EXCEPT !.pend = p] \/ d = [b EXCEPT !.epend = p]
      PROVE  BevOnly(b, d, {})
  BY <1>3 DEF BevTyped, BevFields, BevOnly
<1>4. ASSUME c = bufferevent_inbuf_wm_check(b)
      PROVE  BevOnly(b, c, {})
  <2>1. c = b \/ \E p : c = SCHEDULE_DEFERRED([b EXCEPT !.pend = p])
    BY <1>4 DEF bufferevent_inbuf_wm_check
  <2> QED BY <1>1, <1>2, <1>3, <2>1
<1>5. ASSUME c = bufferevent_incref(b)
      PROVE  BevOnly(b, c, {})
  BY <1>5 DEF bufferevent_incref, BevTyped, BevFields, BevOnly
<1>6. BevOnly(b, c, {})
  BY <1>1, <1>2, <1>3, <1>4, <1>5
<1> QED BY <1>6 DEF BevOnly, BevTyped

\* evutil_socket_connect_ and what follows; no attempt and no lookup is under way.
LEMMA Connecting ==
  ASSUME NEW b, BevTyped(b), ~b.connecting, b.dns = "no",
         NEW r \in {"progress", "connected", "refused", "error"}, NEW c, c = bufferevent_socket_connect(b, r)
  PROVE  /\ Keeps(b, c)
         /\ BevOnly(b, c, {"ev", "timer", "enabled", "fd", "failed", "dns", "connecting", "at_once"})
<1>1. PICK e : e = be_socket_setfd(b, TRUE)
  OBVIOUS
<1>2. /\ BevOnly(b, e, {"ev", "timer", "enabled", "fd", "failed", "dns"}) /\ BevTyped(e) /\ e.fd = TRUE
      /\ e.dns = "no"
      /\ Core(b) => Core(e)
      /\ WritesWanted(e)
  <2>1. PICK fd : fd = TRUE
    OBVIOUS
  <2>2. e = be_socket_setfd(b, fd)
    BY <1>1, <2>1
  <2>3. /\ BevOnly(b, e, {"ev", "timer", "enabled", "fd", "failed", "dns"}) /\ BevTyped(e) /\ e.fd = fd
        /\ e.dns = "no" <=> b.dns = "no"
        /\ Core(b) => Core(e)
        /\ WritesWanted(e)
    BY <2>2, SetsFd
  <2> QED BY <2>1, <2>3
<1>3. CASE r = "progress"
  <2>1. PICK d : d = be_socket_enable(e, {"W"})
    OBVIOUS
  <2>2. c = [d EXCEPT !.connecting = TRUE, !.at_once = FALSE, !.report = "due"]
    BY <1>1, <1>3, <2>1 DEF bufferevent_socket_connect
  <2>3. /\ BevOnly(e, d, {"ev", "timer"}) /\ BevTyped(d)
        /\ "R" \in d.ev <=> "R" \in e.ev
        /\ "W" \in d.ev
        /\ Timed(e) => Timed(d)
    BY <1>2, <2>1, SockEnables
  <2>4. BevOnly(d, c, {"connecting", "at_once"}) /\ c.connecting = TRUE
    BY <2>2, <2>3 DEF BevTyped, BevFields, BevOnly
  <2>5. /\ BevOnly(e, c, {"ev", "timer", "connecting", "at_once"}) /\ c.ev = d.ev
    BY <2>3, <2>4 DEF BevOnly
  <2>6. Timed(e) => Timed(c)
    BY <2>3, <2>4 DEF Timed, BevOnly
  <2>7. ReadsWanted(e) => ReadsWanted(c)
    BY <2>3, <2>5 DEF ReadsWanted, BevOnly
  <2>8. Covered(e) => Covered(c)
    <3>1. /\ c.fd = e.fd /\ c.failed = e.failed /\ c.enabled = e.enabled /\ c.rsusp = e.rsusp
      BY <2>5 DEF BevOnly
    <3> QED BY <2>3, <2>5, <3>1 DEF Covered
  <2>9. WritesWanted(c)
    BY <2>4 DEF WritesWanted
  <2>10. (Marked(e) <=> Marked(c)) /\ (Looked(e) <=> Looked(c)) /\ Connects(c) /\ c.alive = b.alive
    BY <1>2, <2>4, <2>5 DEF BevOnly, Marked, Looked, Connects
  <2>11. BevTyped(c)
    BY <2>3, <2>4 DEF BevTyped, BevOnly
  <2>12. BevOnly(b, c, {"ev", "timer", "enabled", "fd", "failed", "dns", "connecting", "at_once"})
    BY <1>2, <2>5 DEF BevOnly
  <2> QED BY <1>2, <2>6, <2>7, <2>8, <2>9, <2>10, <2>11, <2>12 DEF Keeps, Core, Events
<1>4. CASE r = "connected"
  <2>1. PICK d : d = [e EXCEPT !.connecting = TRUE, !.at_once = TRUE, !.report = "due"]
    OBVIOUS
  <2>2. c = IF d.output = 0 /\ d.cbs
            THEN SCHEDULE_DEFERRED([d EXCEPT !.pend = @ \cup {"write"}]) ELSE d
    BY <1>1, <1>4, <2>1 DEF bufferevent_socket_connect
  <2>3. BevOnly(e, d, {"connecting", "at_once"}) /\ d.connecting = TRUE /\ d.at_once = TRUE
    BY <1>2, <2>1 DEF BevTyped, BevFields, BevOnly
  <2>4. BevTyped(d)
    BY <1>2, <2>3 DEF BevTyped, BevOnly
  <2>5. [d EXCEPT !.pend = @ \cup {"write"}] = [d EXCEPT !.pend = d.pend \cup {"write"}]
    BY <2>4 DEF BevTyped, BevFields
  <2>6. BevOnly(d, c, {}) /\ BevTyped(c)
    <3>1. CASE c = d
      BY <2>4, <3>1 DEF BevOnly, BevTyped
    <3>2. CASE c = SCHEDULE_DEFERRED([d EXCEPT !.pend = d.pend \cup {"write"}])
      <4>1. PICK p : p = d.pend \cup {"write"}
        OBVIOUS
      <4>2. c = SCHEDULE_DEFERRED([d EXCEPT !.pend = p])
        BY <3>2, <4>1
      <4> QED BY <2>4, <4>2, DefersQuietly
    <3> QED BY <2>2, <2>5, <3>1, <3>2
  <2>7. BevOnly(e, c, {"connecting", "at_once"}) /\ c.connecting = TRUE /\ c.at_once = TRUE
    BY <2>3, <2>6 DEF BevOnly
  <2>8. (Timed(e) => Timed(c)) /\ (ReadsWanted(e) => ReadsWanted(c))
    BY <2>7 DEF BevOnly, Timed, ReadsWanted
  <2>9. Covered(e) => Covered(c)
    BY <2>7 DEF BevOnly, Covered
  <2>10. WritesWanted(c)
    BY <2>7 DEF WritesWanted
  <2>11. (Marked(e) <=> Marked(c)) /\ (Looked(e) <=> Looked(c)) /\ Connects(c) /\ c.alive = b.alive
    BY <1>2, <2>7 DEF BevOnly, Marked, Looked, Connects
  <2>12. BevOnly(b, c, {"ev", "timer", "enabled", "fd", "failed", "dns", "connecting", "at_once"})
    BY <1>2, <2>7 DEF BevOnly
  <2> QED BY <1>2, <2>6, <2>8, <2>9, <2>10, <2>11, <2>12 DEF Keeps, Core, Events
<1>5. CASE r = "refused"
  <2>1. PICK d : d = [e EXCEPT !.report = "due"]
    OBVIOUS
  <2>2. PICK g : g = IF d.cbs THEN SCHEDULE_DEFERRED([d EXCEPT !.epend = @ \cup {"ERROR"}]) ELSE d
    OBVIOUS
  <2>3. c = bufferevent_disable(g, Dirs)
    BY <1>1, <1>5, <2>1, <2>2 DEF bufferevent_socket_connect
  <2>4. BevOnly(e, d, {})
    BY <1>2, <2>1 DEF BevTyped, BevFields, BevOnly
  <2>5. BevTyped(d)
    BY <1>2, <2>4 DEF BevTyped, BevOnly
  <2>6. [d EXCEPT !.epend = @ \cup {"ERROR"}] = [d EXCEPT !.epend = d.epend \cup {"ERROR"}]
    BY <2>5 DEF BevTyped, BevFields
  <2>7. BevOnly(d, g, {}) /\ BevTyped(g)
    <3>1. CASE g = d
      BY <2>5, <3>1 DEF BevOnly, BevTyped
    <3>2. CASE g = SCHEDULE_DEFERRED([d EXCEPT !.epend = d.epend \cup {"ERROR"}])
      <4>1. PICK p : p = d.epend \cup {"ERROR"}
        OBVIOUS
      <4>2. g = SCHEDULE_DEFERRED([d EXCEPT !.epend = p])
        BY <3>2, <4>1
      <4> QED BY <2>5, <4>2, DefersQuietly
    <3> QED BY <2>2, <2>6, <3>1, <3>2
  <2>8. BevOnly(e, g, {})
    BY <2>4, <2>7 DEF BevOnly
  <2>9. Keeps(e, g)
    BY <1>2, <2>8, Unchanged
  <2>10. BevOnly(g, c, {"ev", "timer", "enabled"}) /\ Keeps(g, c)
    BY <2>3, <2>7, Disabling
  <2>11. BevOnly(b, c, {"ev", "timer", "enabled", "fd", "failed", "dns", "connecting", "at_once"}) /\ c.alive = b.alive
    BY <1>2, <2>8, <2>10 DEF BevOnly
  <2> QED BY <1>2, <2>9, <2>10, <2>11 DEF Keeps
<1>6. CASE r = "error"
  <2>1. c = b
    BY <1>6 DEF bufferevent_socket_connect
  <2> QED BY <2>1 DEF BevOnly, BevTyped, Keeps
<1> QED BY <1>3, <1>4, <1>5, <1>6

\* Dropping the last reference ends the bufferevent; what is called is over.
LEMMA Drops ==
  ASSUME NEW b, BevTyped(b), NEW c, c = bufferevent_decref_and_unlock_(b)
  PROVE  BevTyped(c) /\ c.running = b.running /\ (Live(c) => BevOnly(b, c, {}))
<1>1. CASE b.refcnt > 1
  <2>1. BevOnly(b, c, {})
    BY <1>1 DEF bufferevent_decref_and_unlock_, BevTyped, BevFields, BevOnly
  <2> QED BY <2>1 DEF BevTyped, BevOnly
<1>2. CASE ~(b.refcnt > 1)
  <2>1. PICK d : d = event_del(b, Dirs)
    OBVIOUS
  <2>2. BevOnly(b, d, {"ev", "timer"}) /\ BevTyped(d)
    BY <2>1, DelsEvents
  <2>3. c = [d EXCEPT !.refcnt = 0, !.alive = "finalizing", !.deferred = FALSE]
    BY <1>2, <2>1 DEF bufferevent_decref_and_unlock_
  <2>4. BevOnly(d, c, {"alive"}) /\ c.alive = "finalizing"
    BY <2>2, <2>3 DEF BevTyped, BevFields, BevOnly
  <2>5. BevTyped(c)
    BY <2>2, <2>4 DEF BevTyped, BevOnly
  <2>6. c.running = b.running
    BY <2>2, <2>4 DEF BevOnly
  <2> QED BY <2>4, <2>5, <2>6 DEF Live
<1> QED BY <1>1, <1>2

\* What is running does not matter for what the loop watches.
LEMMA RunsElse ==
  ASSUME NEW b, Fine(b), NEW c, BevTyped(c), BevOnly(b, c, {"running"})
  PROVE  Fine(c)
<1>1. c.alive = b.alive /\ (Events(b) <=> Events(c)) /\ (WritesWanted(b) <=> WritesWanted(c))
  BY DEF BevOnly, Events, Timed, ReadsWanted, Covered, WritesWanted
<1>2. BevOnly(b, c, {"ev", "timer", "enabled", "running"})
  BY DEF BevOnly
<1>3. Core(b) => Core(c)
  BY <1>1, <1>2, EventsMakeCore
<1> QED BY <1>1, <1>3 DEF Fine, Live

LEMMA StaysFine ==
  ASSUME NEW b, Fine(b), NEW c, BevOnly(b, c, {})
  PROVE  Fine(c)
BY Unchanged DEF Fine, Keeps, Live

LEMMA KeepsFine ==
  ASSUME NEW b, Fine(b), NEW c, Keeps(b, c)
  PROVE  Fine(c)
BY DEF Fine, Keeps, Live

LEMMA Finishes ==
  ASSUME NEW b, Fine(b), NEW c, c = Done(b)
  PROVE  Settled(c)
<1>1. PICK d : d = [b EXCEPT !.running = [cb |-> "no", k |-> "no"]]
  OBVIOUS
<1>2. BevOnly(b, d, {"running"}) /\ d.running = [cb |-> "no", k |-> "no"]
  BY <1>1 DEF Fine, BevTyped, BevFields, BevOnly
<1>3. BevTyped(d)
  BY <1>2 DEF Fine, BevTyped, BevOnly
<1>4. Fine(d)
  BY <1>2, <1>3, RunsElse
<1>5. c = bufferevent_decref_and_unlock_(d)
  BY <1>1 DEF Done
<1>6. BevTyped(c) /\ c.running = d.running /\ (Live(c) => BevOnly(d, c, {}))
  BY <1>3, <1>5, Drops
<1>7. Fine(c)
  BY <1>4, <1>6, StaysFine DEF Fine
<1> QED BY <1>2, <1>6, <1>7 DEF Settled

LEMMA CallsBack ==
  ASSUME NEW b, Fine(b), NEW cb, NEW k, NEW c, c = Call(b, cb, k)
  PROVE  Fine(c) /\ BevOnly(b, c, {"running"}) /\ c.running = [cb |-> cb, k |-> k]
<1>1. BevOnly(b, c, {"running"}) /\ c.running = [cb |-> cb, k |-> k]
  BY DEF Call, Fine, BevTyped, BevFields, BevOnly
<1>2. BevTyped(c)
  BY <1>1 DEF Fine, BevTyped, BevOnly
<1> QED BY <1>1, <1>2, RunsElse

LEMMA RunsCallbacks ==
  ASSUME NEW b, Fine(b), NEW c,
         c \in {bufferevent_run_readcb_(b), bufferevent_run_writecb_(b), TriggerRead(b), TriggerWrite(b)}
  PROVE  Settled(c)
<1>1. ASSUME NEW d, BevOnly(b, d, {}), c = Done(SCHEDULE_DEFERRED(d))
      PROVE  Settled(c)
  <2>1. Fine(d)
    BY <1>1, StaysFine
  <2>2. PICK e : e = SCHEDULE_DEFERRED(d)
    OBVIOUS
  <2>3. BevOnly(d, e, {})
    BY <2>1, <2>2, DefersQuietly DEF Fine
  <2>4. Fine(e)
    BY <2>1, <2>3, StaysFine
  <2> QED BY <1>1, <2>2, <2>4, Finishes
<1>2. ASSUME NEW x \in {"read", "write"}, c = Done(SCHEDULE_DEFERRED([b EXCEPT !.pend = @ \cup {x}]))
      PROVE  Settled(c)
  <2>1. PICK d : d = [b EXCEPT !.pend = @ \cup {x}]
    OBVIOUS
  <2>2. BevOnly(b, d, {})
    BY <2>1 DEF Fine, BevTyped, BevFields, BevOnly
  <2> QED BY <1>1, <1>2, <2>1, <2>2
<1>3. CASE c = Done(b)
  BY <1>3, Finishes
<1>4. ASSUME NEW x, NEW k \in {"checked", "done"}, c = Call(b, x, k)
      PROVE  Settled(c)
  <2>1. Fine(c) /\ c.running = [cb |-> x, k |-> k]
    BY <1>4, CallsBack
  <2> QED BY <2>1 DEF Settled
<1>5. \/ c = Done(b)
      \/ \E x \in {"read", "write"} : c = Done(SCHEDULE_DEFERRED([b EXCEPT !.pend = @ \cup {x}]))
      \/ c = Call(b, "read", "checked")
      \/ c = Call(b, "write", "done")
  BY DEF bufferevent_run_readcb_, bufferevent_run_writecb_, TriggerRead, TriggerWrite
<1> QED BY <1>2, <1>3, <1>4, <1>5

LEMMA RunsEvent ==
  ASSUME NEW b, BevTyped(b), NEW what, NEW k, NEW c, c = bufferevent_run_eventcb_(b, what, k)
  PROVE  /\ BevOnly(b, c, {"running"}) /\ BevTyped(c) /\ c.running.k = k /\ c.running.cb \in {"no", what}
<1>1. CASE c = [b EXCEPT !.running = [cb |-> "no", k |-> k]]
  <2>1. BevOnly(b, c, {"running"}) /\ c.running = [cb |-> "no", k |-> k]
    BY <1>1 DEF BevTyped, BevFields, BevOnly
  <2> QED BY <2>1 DEF BevTyped, BevOnly
<1>2. CASE c = SCHEDULE_DEFERRED([b EXCEPT !.epend = @ \cup {what}, !.running = [cb |-> "no", k |-> k]])
  <2>1. PICK d : d = [b EXCEPT !.epend = @ \cup {what}, !.running = [cb |-> "no", k |-> k]]
    OBVIOUS
  <2>2. BevOnly(b, d, {"running"}) /\ d.running = [cb |-> "no", k |-> k]
    BY <2>1 DEF BevTyped, BevFields, BevOnly
  <2>3. BevTyped(d)
    BY <2>2 DEF BevTyped, BevOnly
  <2>4. BevOnly(d, c, {}) /\ BevTyped(c)
    BY <1>2, <2>1, <2>3, DefersQuietly
  <2> QED BY <2>2, <2>4 DEF BevOnly
<1>3. CASE c = Call(b, what, k)
  <2>1. BevOnly(b, c, {"running"}) /\ c.running = [cb |-> what, k |-> k]
    BY <1>3 DEF Call, BevTyped, BevFields, BevOnly
  <2> QED BY <2>1 DEF BevTyped, BevOnly
<1> QED BY <1>1, <1>2, <1>3 DEF bufferevent_run_eventcb_

\* An error, the end of file or a timeout is told, and the handler is over.
LEMMA Tells ==
  ASSUME NEW b, Fine(b), NEW what, NEW c, c = Settle(bufferevent_run_eventcb_(b, what, "done"), "done")
  PROVE  Settled(c)
<1>1. PICK k : k = "done"
  OBVIOUS
<1>2. PICK d : d = bufferevent_run_eventcb_(b, what, k)
  OBVIOUS
<1>3. BevOnly(b, d, {"running"}) /\ BevTyped(d) /\ d.running.k = k
  BY <1>2, RunsEvent DEF Fine
<1>4. Fine(d)
  BY <1>3, RunsElse
<1>5. c = Done(d) \/ c = d
  BY <1>1, <1>2 DEF Settle
<1> QED BY <1>1, <1>3, <1>4, <1>5, Finishes DEF Settled

LEMMA Stops ==
  ASSUME NEW b, Fine(b), NEW d, NEW what, NEW c, c = Stop(b, d, what)
  PROVE  Settled(c)
<1>1. PICK e : e = bufferevent_disable(b, {d})
  OBVIOUS
<1>2. Keeps(b, e)
  BY <1>1, Disabling DEF Fine
<1>3. Fine(e)
  BY <1>2, KeepsFine
<1> QED BY <1>1, <1>3, Tells DEF Stop

LEMMA RunsDeferred ==
  ASSUME NEW b, Fine(b), NEW from, NEW c, c = RunDeferred(b, from)
  PROVE  Settled(c)
<1>1. ASSUME NEW d, BevOnly(b, d, {}), NEW cb, NEW k \in {"deferred2", "deferred3", "deferred4", "done"},
             c = Call(d, cb, k)
      PROVE  Settled(c)
  <2>1. Fine(d)
    BY <1>1, StaysFine
  <2>2. Fine(c) /\ c.running = [cb |-> cb, k |-> k]
    BY <1>1, <2>1, CallsBack
  <2> QED BY <2>2 DEF Settled
<1>2. ASSUME NEW d, NEW x, d = [b EXCEPT !.epend = @ \ {x}] \/ d = [b EXCEPT !.pend = @ \ {x}] \/ d = [b EXCEPT !.epend = {}]
      PROVE  BevOnly(b, d, {})
  BY <1>2 DEF Fine, BevTyped, BevFields, BevOnly
<1>3. \/ c = Done(b)
      \/ c = Call([b EXCEPT !.epend = @ \ {"CONNECTED"}], "CONNECTED", "deferred2")
      \/ c = Call([b EXCEPT !.pend = @ \ {"read"}], "read", "deferred3")
      \/ c = Call([b EXCEPT !.pend = @ \ {"write"}], "write", "deferred4")
      \/ \E cb : c = Call([b EXCEPT !.epend = {}], cb, "done")
  BY DEF RunDeferred
<1> QED BY <1>1, <1>2, <1>3, Finishes

LEMMA WritesOut ==
  ASSUME NEW b, Fine(b), Live(b) => ~b.connecting, NEW on, NEW c \in WriteOut(b, on)
  PROVE  Settled(c)
<1>1. CASE c = Done(b)
  BY <1>1, Finishes
<1>2. ASSUME NEW what, c = Stop(b, "W", what)
      PROVE  Settled(c)
  BY <1>2, Stops
<1>3. ASSUME NEW n \in IF b.output = 0 THEN {0} ELSE 1..b.output, NEW d, NEW e,
             d = [b EXCEPT !.output = @ - n], e = IF d.output = 0 THEN event_del(d, {"W"}) ELSE d,
             c = TriggerWrite(e) \/ c = Done(e)
      PROVE  Settled(c)
  <2>1. BevOnly(b, d, {"output"}) /\ d.output = b.output - n
    BY <1>3 DEF Fine, BevTyped, BevFields, BevOnly
  <2>2. b.output \in Int /\ d.output \in Int /\ (d.output > 0 => b.output > 0)
    BY <2>1 DEF Fine, BevTyped
  <2>3. BevTyped(d)
    BY <2>1, <2>2 DEF Fine, BevTyped, BevOnly
  <2>4. /\ BevOnly(d, e, {"ev", "timer"}) /\ BevTyped(e) /\ (Timed(d) => Timed(e))
        /\ "R" \in e.ev <=> "R" \in d.ev
        /\ "W" \in e.ev <=> "W" \in d.ev /\ d.output # 0
    <3>1. CASE d.output = 0
      <4>1. e = event_del(d, {"W"})
        BY <1>3, <3>1
      <4>2. BevOnly(d, e, {"ev", "timer"}) /\ BevTyped(e) /\ (Timed(d) => Timed(e)) /\ e.ev = d.ev \ {"W"}
        BY <2>3, <4>1, DelsEvents
      <4> QED BY <3>1, <4>2
    <3>2. CASE d.output # 0
      BY <1>3, <2>3, <3>2 DEF BevOnly, BevTyped
    <3> QED BY <3>1, <3>2
  <2>5. BevOnly(b, e, {"ev", "timer", "output"}) /\ e.output = d.output /\ d.ev = b.ev
    BY <2>1, <2>4 DEF BevOnly
  <2>6. SUFFICES Fine(e)
    BY <1>3, Finishes, RunsCallbacks
  <2>7. SUFFICES ASSUME Live(e)
                 PROVE  Core(e) /\ WritesWanted(e)
    BY <2>4 DEF Fine
  <2>8. Core(b) /\ WritesWanted(b) /\ ~b.connecting
    BY <2>5, <2>7 DEF BevOnly, Live, Fine
  <2>9. /\ e.fd = b.fd /\ e.wsusp = b.wsusp /\ e.rsusp = b.rsusp /\ e.enabled = b.enabled
        /\ e.connecting = b.connecting /\ e.failed = b.failed /\ e.at_once = b.at_once
    BY <2>5 DEF BevOnly
  <2>10. Timed(e)
    BY <2>1, <2>4, <2>8 DEF Core, Events, BevOnly, Timed
  <2>11. ReadsWanted(e) /\ WritesWanted(e)
    BY <2>4, <2>5, <2>8, <2>9 DEF Core, Events, ReadsWanted, WritesWanted
  <2>12. Covered(e)
    <3>1. e.output > 0 => b.output > 0 /\ d.output # 0
      BY <2>2, <2>5
    <3> QED BY <2>4, <2>5, <2>8, <2>9, <3>1 DEF Core, Events, Covered
  <2>13. Marked(e) /\ Looked(e) /\ Connects(e)
    BY <2>5, <2>8 DEF BevOnly, Core, Marked, Looked, Connects
  <2> QED BY <2>10, <2>11, <2>12, <2>13 DEF Core, Events
<1>4. \/ c = Done(b)
      \/ \E what : c = Stop(b, "W", what)
      \/ \E n \in IF b.output = 0 THEN {0} ELSE 1..b.output : \E d : \E e :
            /\ d = [b EXCEPT !.output = @ - n] /\ e = IF d.output = 0 THEN event_del(d, {"W"}) ELSE d
            /\ c = TriggerWrite(e) \/ c = Done(e)
  BY DEF WriteOut
<1> QED BY <1>1, <1>2, <1>3, <1>4

LEMMA AfterConnecting ==
  ASSUME NEW b, BevTyped(b), Live(b) => Core(b) /\ ~b.connecting, NEW c \in AfterConnected(b)
  PROVE  Settled(c)
<1>1. CASE "W" \notin b.enabled \/ b.wsusp # {}
  <2>1. PICK d : d = event_del(b, {"W"})
    OBVIOUS
  <2>2. /\ BevOnly(b, d, {"ev", "timer"}) /\ BevTyped(d) /\ (Timed(b) => Timed(d)) /\ d.ev = b.ev \ {"W"}
    BY <2>1, DelsEvents
  <2>3. Live(d) => Core(d) /\ WritesWanted(d)
    <3>1. SUFFICES ASSUME Live(d)
                   PROVE  Core(d) /\ WritesWanted(d)
      OBVIOUS
    <3>2. Core(b) /\ ~b.connecting
      BY <2>2, <3>1 DEF BevOnly, Live
    <3>3. /\ d.fd = b.fd /\ d.wsusp = b.wsusp /\ d.rsusp = b.rsusp /\ d.enabled = b.enabled /\ d.output = b.output
          /\ d.connecting = b.connecting /\ d.failed = b.failed /\ d.at_once = b.at_once
      BY <2>2 DEF BevOnly
    <3>4. ReadsWanted(d) /\ Covered(d) /\ WritesWanted(d)
      BY <1>1, <2>2, <3>2, <3>3 DEF Core, Events, ReadsWanted, Covered, WritesWanted
    <3>5. BevOnly(b, d, {"ev", "timer", "enabled", "running"})
      BY <2>2 DEF BevOnly
    <3> QED BY <2>2, <3>2, <3>4, <3>5, EventsMakeCore DEF Events, Core
  <2>4. Fine(d)
    BY <2>2, <2>3 DEF Fine
  <2>5. c = Done(d)
    BY <1>1, <2>1 DEF AfterConnected
  <2> QED BY <2>4, <2>5, Finishes
<1>2. CASE ~("W" \notin b.enabled \/ b.wsusp # {})
  <2>1. Fine(b)
    BY <1>2 DEF Fine, WritesWanted
  <2>2. PICK on : on = TRUE
    OBVIOUS
  <2>3. c \in WriteOut(b, on)
    BY <1>2, <2>2 DEF AfterConnected
  <2> QED BY <2>1, <2>3, WritesOut
<1> QED BY <1>1, <1>2

LEMMA Fails ==
  ASSUME NEW b, Fine(b), NEW c, c = Failed(b)
  PROVE  Settled(c)
<1>1. PICK d : d = [b EXCEPT !.connecting = FALSE, !.refused = FALSE, !.failed = TRUE]
  OBVIOUS
<1>2. PICK e : e = event_del(d, Dirs)
  OBVIOUS
<1>3. BevOnly(b, d, {"connecting", "failed"}) /\ d.connecting = FALSE /\ d.failed = TRUE
  BY <1>1 DEF Fine, BevTyped, BevFields, BevOnly
<1>4. BevTyped(d)
  BY <1>3 DEF Fine, BevTyped, BevOnly
<1>5. BevOnly(d, e, {"ev", "timer"}) /\ BevTyped(e) /\ (Timed(d) => Timed(e)) /\ e.ev = d.ev \ Dirs
  BY <1>2, <1>4, DelsEvents
<1>6. BevOnly(b, e, {"ev", "timer", "connecting", "failed"}) /\ e.connecting = FALSE /\ e.failed = TRUE
  BY <1>3, <1>5 DEF BevOnly
<1>7. Timed(b) => Timed(e)
  BY <1>3, <1>5 DEF BevOnly, Timed
<1>8. ReadsWanted(e) /\ Covered(e) /\ WritesWanted(e)
  BY <1>5, <1>6 DEF ReadsWanted, Covered, WritesWanted, Dirs
<1>9. Live(e) => Live(b) /\ (Marked(b) => Marked(e)) /\ (Looked(b) => Looked(e)) /\ Connects(e)
  BY <1>6 DEF BevOnly, Live, Marked, Looked, Connects
<1>10. Fine(e)
  BY <1>5, <1>7, <1>8, <1>9 DEF Fine, Core, Events
<1>11. c = Settle(bufferevent_run_eventcb_(e, "ERROR", "done"), "done")
  BY <1>1, <1>2 DEF Failed
<1> QED BY <1>10, <1>11, Tells

LEMMA SettledIsSound ==
  ASSUME NEW b, Settled(b)
  PROVE  BevSound(b)
BY DEF Settled, Fine, BevSound

LEMMA SoundIsFine ==
  ASSUME NEW b, BevSound(b), b.running.k # "connected" \/ b.running.cb = "no"
  PROVE  Fine(b)
BY DEF Fine, BevSound

LEMMA StaysSound ==
  ASSUME NEW b, BevSound(b), NEW c, BevOnly(b, c, {})
  PROVE  BevSound(c) /\ BevTyped(c) /\ (Live(b) <=> Live(c))
<1>1. Keeps(b, c)
  BY Unchanged DEF BevSound
<1>2. c.running = b.running /\ c.connecting = b.connecting /\ c.fd = b.fd /\ c.alive = b.alive
  BY DEF BevOnly
<1> QED BY <1>1, <1>2 DEF BevSound, Keeps, Live

\* A function of the program, from wherever it is called.
LEMMA CallsKeep ==
  ASSUME NEW b, BevSound(b), Live(b), NEW c, Keeps(b, c), c.running = b.running,
         b.running.k = "connected" => ~c.connecting /\ c.fd
  PROVE  BevSound(c)
BY DEF BevSound, Keeps

LEMMA ProgramSteps ==
  ASSUME \A m \in Marks : m[2] \in Nat, Cap \in Nat, BevSound(bev),
         \/ Enable \/ Disable \/ DisableHard \/ SetWatermark \/ SetTimeouts
         \/ Write \/ Read \/ SetFd \/ Connect \/ ConnectHostname \/ Free \/ Trigger
  PROVE  BevSound(bev')
<1>1. PICK b : b = Counted
  OBVIOUS
<1>2. BevOnly(bev, b, {})
  BY <1>1 DEF Counted, BevSound, BevTyped, BevFields, BevOnly
<1>3. BevSound(b) /\ BevTyped(b) /\ (Live(bev) <=> Live(b))
  BY <1>2, StaysSound
<1>4. Live(b)
  BY <1>3 DEF Calls, Enable, Disable, DisableHard, SetWatermark, SetTimeouts, Write, Read, SetFd,
              Connect, ConnectHostname, Free, Trigger
<1>5. /\ Core(b) /\ (b.running.k = "connected" => ~b.connecting /\ b.fd)
      /\ b.fd = bev.fd /\ b.dns = bev.dns /\ b.connecting = bev.connecting /\ b.running = bev.running
      /\ b.input = bev.input /\ b.output = bev.output /\ b.output \in Int /\ b.input \in Int
  BY <1>2, <1>3, <1>4 DEF BevSound, BevOnly, BevTyped
<1>6. ASSUME NEW c, Keeps(b, c), BevOnly(b, c, {"enabled", "ev", "timer", "rsusp", "wsusp", "tmo", "input", "output", "high", "dns"})
      PROVE  BevSound(c)
  <2>1. c.running = b.running /\ c.connecting = b.connecting /\ c.fd = b.fd
    BY <1>6 DEF BevOnly
  <2> QED BY <1>3, <1>4, <1>5, <1>6, <2>1, CallsKeep
<1>7. CASE Enable
  <2>1. PICK D : bev' = bufferevent_enable(b, D)
    BY <1>1, <1>7 DEF Enable
  <2>2. /\ BevOnly(b, bev', {"ev", "timer", "enabled"}) /\ BevTyped(bev')
        /\ Events(b) => Events(bev')
        /\ WritesWanted(b) => WritesWanted(bev')
    BY <1>3, <2>1, Enabling
  <2>3. BevOnly(b, bev', {"ev", "timer", "enabled", "running"})
    BY <2>2 DEF BevOnly
  <2>4. Keeps(b, bev')
    BY <2>2, <2>3, EventsMakeCore DEF Keeps, BevOnly
  <2> QED BY <1>6, <2>2, <2>4 DEF BevOnly
<1>8. CASE Disable
  <2>1. PICK D : bev' = bufferevent_disable(b, D)
    BY <1>1, <1>8 DEF Disable
  <2>2. BevOnly(b, bev', {"ev", "timer", "enabled"}) /\ Keeps(b, bev')
    BY <1>3, <2>1, Disabling
  <2> QED BY <1>6, <2>2 DEF BevOnly
<1>9. CASE DisableHard
  <2>1. bev' = bufferevent_disable_hard_(b, Dirs)
    BY <1>1, <1>9 DEF DisableHard
  <2>2. BevOnly(b, bev', {"ev", "timer", "enabled", "connecting"}) /\ Keeps(b, bev') /\ bev'.connecting = FALSE
    BY <1>3, <2>1, DisablingHard
  <2>3. bev'.running = b.running /\ bev'.fd = b.fd
    BY <2>2 DEF BevOnly
  <2> QED BY <1>3, <1>4, <1>5, <2>2, <2>3, CallsKeep
<1>10. CASE SetWatermark
  <2>1. PICK m \in Marks : bev' = bufferevent_setwatermark(b, m)
    BY <1>1, <1>10 DEF SetWatermark
  <2>2. PICK d : d = [b EXCEPT !.low = m[1], !.high = m[2]]
    OBVIOUS
  <2>3. bev' = IF d.high # 0 THEN bufferevent_inbuf_wm_cb(d) ELSE bufferevent_unsuspend_read_(d, "WM")
    BY <2>1, <2>2 DEF bufferevent_setwatermark
  <2>4. BevOnly(b, d, {"high"}) /\ d.high = m[2]
    BY <1>3, <2>2 DEF BevTyped, BevFields, BevOnly
  <2>5. BevTyped(d)
    <3>1. d.high \in Int
      BY <2>4
    <3> QED BY <1>3, <2>4, <3>1 DEF BevTyped, BevOnly
  <2>6. /\ BevOnly(d, bev', {"ev", "timer", "rsusp"}) /\ BevTyped(bev') /\ Marked(bev')
        /\ "LOOKUP" \in bev'.rsusp <=> "LOOKUP" \in d.rsusp
        /\ Events(d) => Events(bev')
        /\ WritesWanted(d) => WritesWanted(bev')
    <3>1. CASE d.high # 0
      <4>1. bev' = bufferevent_inbuf_wm_cb(d)
        BY <2>3, <3>1
      <4> QED BY <2>5, <3>1, <4>1, MarksInput
    <3>2. CASE d.high = 0
      <4>1. bev' = bufferevent_unsuspend_read_(d, "WM")
        BY <2>3, <3>2
      <4>2. /\ BevOnly(d, bev', {"ev", "timer", "rsusp"}) /\ BevTyped(bev') /\ bev'.rsusp = d.rsusp \ {"WM"}
            /\ Events(d) => Events(bev')
            /\ WritesWanted(d) => WritesWanted(bev')
        BY <2>5, <4>1, UnsuspendsRead
      <4>3. bev'.high = 0
        BY <3>2, <4>2 DEF BevOnly
      <4> QED BY <4>2, <4>3 DEF Marked
    <3> QED BY <3>1, <3>2
  <2>7. Events(d) /\ (WritesWanted(b) => WritesWanted(d))
    BY <1>5, <2>4 DEF BevOnly, Core, Events, Timed, ReadsWanted, Covered, WritesWanted
  <2>8. BevOnly(b, bev', {"ev", "timer", "rsusp", "high"}) /\ d.rsusp = b.rsusp
    BY <2>4, <2>6 DEF BevOnly
  <2>9. Looked(bev') /\ Connects(bev')
    BY <1>5, <2>6, <2>8 DEF Core, Looked, Connects, BevOnly
  <2>10. Keeps(b, bev')
    BY <2>6, <2>7, <2>8, <2>9 DEF Keeps, Core, BevOnly
  <2> QED BY <1>6, <2>8, <2>10 DEF BevOnly
<1>11. CASE SetTimeouts
  <2>1. PICK D : bev' = [b EXCEPT !.tmo = D, !.timer = b.ev \cap D]
    BY <1>1, <1>11 DEF SetTimeouts, bufferevent_set_timeouts
  <2>2. BevOnly(b, bev', {"tmo", "timer"}) /\ bev'.tmo = D /\ bev'.timer = b.ev \cap D
    BY <1>3, <2>1 DEF BevTyped, BevFields, BevOnly
  <2>3. Timed(bev')
    BY <2>2 DEF Timed, BevOnly
  <2>4. BevTyped(bev') /\ bev'.alive = b.alive
    BY <1>3, <2>2 DEF BevTyped, BevOnly
  <2>5. ReadsWanted(bev') /\ Covered(bev') /\ (WritesWanted(b) => WritesWanted(bev'))
    BY <1>5, <2>2 DEF BevOnly, Core, Events, ReadsWanted, Covered, WritesWanted
  <2>6. Marked(bev') /\ Looked(bev') /\ Connects(bev')
    BY <1>5, <2>2 DEF BevOnly, Core, Marked, Looked, Connects
  <2>7. Keeps(b, bev')
    BY <2>3, <2>4, <2>5, <2>6 DEF Keeps, Core, Events
  <2> QED BY <1>6, <2>2, <2>7 DEF BevOnly
<1>12. CASE Write
  <2>1. PICK n \in 1..Cap - bev.output : bev' = bufferevent_write(b, n)
    BY <1>1, <1>12 DEF Write
  <2>2. n \in Int /\ n > 0
    BY <1>5, <2>1
  <2>3. PICK d : d = [b EXCEPT !.output = @ + n]
    OBVIOUS
  <2>4. bev' = IF "W" \in d.enabled /\ "W" \notin d.ev /\ d.wsusp = {} THEN bufferevent_add_event_(d, "W") ELSE d
    BY <2>1, <2>2, <2>3 DEF bufferevent_write, bufferevent_socket_outbuf_cb
  <2>5. BevOnly(b, d, {"output"}) /\ d.output = b.output + n
    BY <1>3, <2>3 DEF BevTyped, BevFields, BevOnly
  <2>6. BevTyped(d)
    <3>1. d.output \in Int
      BY <1>5, <2>2, <2>5
    <3> QED BY <1>3, <2>5, <3>1 DEF BevTyped, BevOnly
  <2>7. /\ BevOnly(d, bev', {"ev", "timer"}) /\ BevTyped(bev') /\ (Timed(d) => Timed(bev'))
        /\ bev'.ev = IF "W" \in d.enabled /\ d.wsusp = {} THEN d.ev \cup {"W"} ELSE d.ev
    <3>1. CASE "W" \in d.enabled /\ "W" \notin d.ev /\ d.wsusp = {}
      <4>1. bev' = bufferevent_add_event_(d, "W")
        BY <2>4, <3>1
      <4> QED BY <2>6, <3>1, <4>1, AddsEvent
    <3>2. CASE ~("W" \in d.enabled /\ "W" \notin d.ev /\ d.wsusp = {})
      <4>1. bev' = d
        BY <2>4, <3>2
      <4> QED BY <2>6, <3>2, <4>1 DEF BevOnly, BevTyped
    <3> QED BY <3>1, <3>2
  <2>8. /\ BevOnly(b, bev', {"ev", "timer", "output"}) /\ d.ev = b.ev /\ d.enabled = b.enabled /\ d.wsusp = b.wsusp
        /\ bev'.fd = b.fd /\ bev'.failed = b.failed /\ bev'.enabled = b.enabled /\ bev'.rsusp = b.rsusp
        /\ bev'.wsusp = b.wsusp /\ bev'.connecting = b.connecting /\ bev'.at_once = b.at_once /\ bev'.alive = b.alive
    BY <2>5, <2>7 DEF BevOnly
  <2>9. Timed(bev')
    BY <1>5, <2>5, <2>7 DEF BevOnly, Core, Events, Timed
  <2>10. ReadsWanted(bev') /\ Covered(bev') /\ (WritesWanted(b) => WritesWanted(bev'))
    BY <1>5, <2>7, <2>8 DEF Core, Events, ReadsWanted, Covered, WritesWanted
  <2>11. Marked(bev') /\ Looked(bev') /\ Connects(bev')
    BY <1>5, <2>8 DEF BevOnly, Core, Marked, Looked, Connects
  <2>12. Keeps(b, bev')
    BY <2>7, <2>8, <2>9, <2>10, <2>11 DEF Keeps, Core, Events
  <2> QED BY <1>6, <2>8, <2>12 DEF BevOnly
<1>13. CASE Read
  <2>1. PICK n \in 1..bev.input : bev' = bufferevent_read(b, n)
    BY <1>1, <1>13 DEF Read
  <2>2. PICK i : i = b.input - n
    OBVIOUS
  <2>3. i \in Int
    BY <1>5, <2>1, <2>2
  <2>4. [b EXCEPT !.input = @ - n] = [b EXCEPT !.input = i]
    BY <1>3, <2>2 DEF BevTyped, BevFields
  <2>5. bev' = bufferevent_inbuf_wm_cb([b EXCEPT !.input = i])
    BY <2>1, <2>4 DEF bufferevent_read
  <2>6. /\ BevTyped(bev') /\ Core(bev') /\ (WritesWanted(b) => WritesWanted(bev'))
        /\ BevOnly(b, bev', {"ev", "timer", "rsusp", "input"})
    BY <1>3, <1>5, <2>3, <2>5, InputMoves
  <2> QED BY <1>6, <2>6 DEF Keeps, BevOnly
<1>14. CASE SetFd
  <2>1. PICK fd : bev' = be_socket_setfd(b, fd)
    BY <1>1, <1>14 DEF SetFd
  <2>2. ~b.connecting /\ b.running.k # "connected"
    BY <1>5, <1>14 DEF SetFd
  <2>3. /\ BevOnly(b, bev', {"ev", "timer", "enabled", "fd", "failed", "dns"}) /\ BevTyped(bev')
        /\ Core(b) => Core(bev')
        /\ WritesWanted(bev')
    BY <1>3, <2>1, <2>2, SetsFd
  <2>4. Keeps(b, bev') /\ bev'.running = b.running
    BY <2>3 DEF Keeps, BevOnly
  <2> QED BY <1>3, <1>4, <2>2, <2>4, CallsKeep
<1>15. CASE Connect
  <2>1. PICK r \in {"progress", "connected", "refused", "error"} : bev' = bufferevent_socket_connect(b, r)
    BY <1>1, <1>15 DEF Connect
  <2>2. b.dns = "no" /\ ~b.fd
    BY <1>5, <1>15 DEF Connect
  <2>3. ~b.connecting
    BY <1>5, <2>2 DEF Core, Connects
  <2>4. /\ Keeps(b, bev')
        /\ BevOnly(b, bev', {"ev", "timer", "enabled", "fd", "failed", "dns", "connecting", "at_once"})
    BY <1>3, <2>1, <2>2, <2>3, Connecting
  <2>5. bev'.running = b.running /\ b.running.k # "connected"
    BY <1>5, <2>2, <2>4 DEF BevOnly
  <2> QED BY <1>3, <1>4, <2>4, <2>5, CallsKeep
<1>16. CASE ConnectHostname
  <2>1. PICK d : d = bufferevent_suspend_write_(b, "LOOKUP")
    OBVIOUS
  <2>2. PICK e : e = bufferevent_suspend_read_(d, "LOOKUP")
    OBVIOUS
  <2>3. PICK g : g = [e EXCEPT !.dns = "asked"]
    OBVIOUS
  <2>4. bev' = bufferevent_incref(g)
    BY <1>1, <1>16, <2>1, <2>2, <2>3 DEF ConnectHostname, bufferevent_socket_connect_hostname
  <2>5. /\ BevOnly(b, d, {"ev", "timer", "wsusp"}) /\ BevTyped(d) /\ d.wsusp = b.wsusp \cup {"LOOKUP"}
        /\ (Events(b) => Events(d)) /\ (WritesWanted(b) => WritesWanted(d))
    BY <1>3, <2>1, SuspendsWrite
  <2>6. /\ BevOnly(d, e, {"ev", "timer", "rsusp"}) /\ BevTyped(e) /\ e.rsusp = d.rsusp \cup {"LOOKUP"}
        /\ (Events(d) => Events(e)) /\ (WritesWanted(d) => WritesWanted(e))
    BY <2>2, <2>5, SuspendsRead
  <2>7. BevOnly(e, g, {"dns"}) /\ g.dns = "asked"
    BY <2>3, <2>6 DEF BevTyped, BevFields, BevOnly
  <2>8. BevTyped(g)
    BY <2>6, <2>7 DEF BevTyped, BevOnly
  <2>9. BevOnly(g, bev', {}) /\ BevTyped(bev')
    BY <2>4, <2>8, DefersQuietly
  <2>10. BevOnly(e, bev', {"dns"}) /\ bev'.dns = "asked"
    BY <2>7, <2>9 DEF BevOnly
  <2>11. /\ BevOnly(b, bev', {"ev", "timer", "rsusp", "wsusp", "dns"})
         /\ bev'.rsusp = b.rsusp \cup {"LOOKUP"} /\ bev'.wsusp = b.wsusp \cup {"LOOKUP"}
    BY <2>5, <2>6, <2>10 DEF BevOnly
  <2>12. (Events(e) => Events(bev')) /\ (WritesWanted(e) => WritesWanted(bev'))
    BY <2>10 DEF BevOnly, Events, Timed, ReadsWanted, Covered, WritesWanted
  <2>13. Looked(bev')
    BY <2>10, <2>11 DEF Looked
  <2>14. Marked(bev')
    BY <1>5, <2>11 DEF Core, Marked, BevOnly
  <2>15. Connects(bev')
    BY <1>5, <1>16, <2>11 DEF Core, Connects, BevOnly, ConnectHostname
  <2>16. Keeps(b, bev')
    BY <1>5, <2>5, <2>6, <2>9, <2>11, <2>12, <2>13, <2>14, <2>15 DEF Keeps, Core, BevOnly
  <2> QED BY <1>6, <2>11, <2>16 DEF BevOnly
<1>17. CASE Free
  <2>1. PICK d : d = [b EXCEPT !.cbs = FALSE, !.owned = FALSE]
    OBVIOUS
  <2>2. BevOnly(b, d, {})
    BY <1>3, <2>1 DEF BevTyped, BevFields, BevOnly
  <2>3. BevSound(d) /\ BevTyped(d)
    BY <1>3, <2>2, StaysSound
  <2>4. bev' = bufferevent_decref_and_unlock_(d)
    BY <1>1, <1>17, <2>1 DEF Free, bufferevent_free
  <2>5. BevTyped(bev') /\ (Live(bev') => BevOnly(d, bev', {}))
    BY <2>3, <2>4, Drops
  <2>6. CASE Live(bev')
    BY <2>3, <2>5, <2>6, StaysSound
  <2> QED BY <2>5, <2>6 DEF BevSound
<1>18. CASE Trigger
  <2>1. PICK d : d = bufferevent_incref(b)
    OBVIOUS
  <2>2. BevOnly(b, d, {})
    BY <1>3, <2>1, DefersQuietly
  <2>3. Fine(b)
    BY <1>3, <1>5, <1>18, SoundIsFine DEF Trigger, Idle
  <2>4. Fine(d)
    BY <2>2, <2>3, StaysFine
  <2>5. bev' = TriggerRead(d)
    BY <1>1, <1>18, <2>1 DEF Trigger
  <2>6. bev' \in {bufferevent_run_readcb_(d), bufferevent_run_writecb_(d), TriggerRead(d), TriggerWrite(d)}
    BY <2>5
  <2> QED BY <2>4, <2>6, RunsCallbacks, SettledIsSound
<1> QED BY <1>7, <1>8, <1>9, <1>10, <1>11, <1>12, <1>13, <1>14, <1>15, <1>16, <1>17, <1>18

LEMMA LoopSteps ==
  ASSUME Cap \in Nat, BevSound(bev),
         \/ bufferevent_readcb \/ bufferevent_writecb \/ bufferevent_run_deferred_callbacks
         \/ Return \/ bufferevent_connect_getaddrinfo_cb \/ bufferevent_finalize_cb_
  PROVE  BevSound(bev')
<1>1. BevTyped(bev)
  BY DEF BevSound
<1>2. PICK b : b = bufferevent_incref(bev)
  OBVIOUS
<1>3. BevOnly(bev, b, {}) /\ BevTyped(b)
  BY <1>1, <1>2, DefersQuietly
<1>4. /\ b.fd = bev.fd /\ b.running = bev.running /\ b.connecting = bev.connecting /\ (Live(bev) <=> Live(b))
      /\ b.input \in Int /\ b.high \in Int
  BY <1>3 DEF BevOnly, Live, BevTyped
<1>5. ASSUME Live(bev), Idle
      PROVE  Fine(bev) /\ Fine(b) /\ Core(b) /\ Live(b)
  <2>1. Fine(bev)
    BY <1>5, SoundIsFine DEF Idle
  <2>2. Fine(b)
    BY <1>3, <2>1, StaysFine
  <2> QED BY <1>4, <1>5, <2>1, <2>2 DEF Fine
<1>6. CASE bufferevent_readcb
  <2>1. Fine(b) /\ Core(b) /\ Live(b)
    BY <1>5, <1>6 DEF bufferevent_readcb
  <2>2. PICK room : room = IF b.high = 0 THEN Cap - b.input ELSE b.high - b.input
    OBVIOUS
  <2>3. \/ \E what : bev' = Stop(b, "R", what)
        \/ b.high # 0 /\ room <= 0 /\ bev' = Done(bufferevent_suspend_read_(b, "WM"))
        \/ \E n \in 1..(IF room < Cap - b.input THEN room ELSE Cap - b.input) :
              bev' = TriggerRead(bufferevent_inbuf_wm_cb([b EXCEPT !.input = @ + n]))
        \/ bev' = Done([b EXCEPT !.refused = TRUE])
    BY <1>2, <1>6, <2>2 DEF bufferevent_readcb
  <2>4. ASSUME NEW what, bev' = Stop(b, "R", what)
        PROVE  Settled(bev')
    BY <2>1, <2>4, Stops
  <2>5. CASE b.high # 0 /\ room <= 0 /\ bev' = Done(bufferevent_suspend_read_(b, "WM"))
    <3>1. PICK d : d = bufferevent_suspend_read_(b, "WM")
      OBVIOUS
    <3>2. /\ BevOnly(b, d, {"ev", "timer", "rsusp"}) /\ BevTyped(d) /\ d.rsusp = b.rsusp \cup {"WM"}
          /\ (Events(b) => Events(d)) /\ (WritesWanted(b) => WritesWanted(d))
      BY <1>3, <3>1, SuspendsRead
    <3>3. b.high # 0 /\ b.input >= b.high
      BY <1>4, <2>2, <2>5
    <3>4. Marked(d)
      BY <3>2, <3>3 DEF Marked, BevOnly
    <3>5. Looked(d) /\ Connects(d)
      BY <2>1, <3>2 DEF Core, Looked, Connects, BevOnly
    <3>6. Fine(d)
      BY <2>1, <3>2, <3>4, <3>5 DEF Fine, Core
    <3>7. bev' = Done(d)
      BY <2>5, <3>1
    <3> QED BY <3>6, <3>7, Finishes, SettledIsSound
  <2>6. ASSUME NEW n \in 1..(IF room < Cap - b.input THEN room ELSE Cap - b.input),
               bev' = TriggerRead(bufferevent_inbuf_wm_cb([b EXCEPT !.input = @ + n]))
        PROVE  Settled(bev')
    <3>1. PICK i : i = b.input + n
      OBVIOUS
    <3>2. i \in Int
      BY <1>4, <2>2, <2>6, <3>1
    <3>3. [b EXCEPT !.input = @ + n] = [b EXCEPT !.input = i]
      BY <1>3, <3>1 DEF BevTyped, BevFields
    <3>4. PICK d : d = bufferevent_inbuf_wm_cb([b EXCEPT !.input = i])
      OBVIOUS
    <3>5. /\ BevTyped(d) /\ Core(d) /\ (WritesWanted(b) => WritesWanted(d))
      BY <1>3, <2>1, <3>2, <3>4, InputMoves
    <3>6. Fine(d)
      BY <2>1, <3>5 DEF Fine
    <3>7. bev' \in {bufferevent_run_readcb_(d), bufferevent_run_writecb_(d), TriggerRead(d), TriggerWrite(d)}
      BY <2>6, <3>3, <3>4
    <3> QED BY <3>6, <3>7, RunsCallbacks
  <2>7. CASE bev' = Done([b EXCEPT !.refused = TRUE])
    <3>1. PICK d : d = [b EXCEPT !.refused = TRUE]
      OBVIOUS
    <3>2. BevOnly(b, d, {})
      BY <1>3, <3>1 DEF BevTyped, BevFields, BevOnly
    <3>3. Fine(d)
      BY <2>1, <3>2, StaysFine
    <3>4. bev' = Done(d)
      BY <2>7, <3>1
    <3> QED BY <3>3, <3>4, Finishes, SettledIsSound
  <2> QED BY <2>3, <2>4, <2>5, <2>6, <2>7, SettledIsSound
<1>7. CASE bufferevent_writecb
  <2>1. Fine(b) /\ Core(b) /\ Live(b) /\ b.fd
    BY <1>4, <1>5, <1>7 DEF bufferevent_writecb
  <2>2. PICK d : d = [b EXCEPT !.connecting = FALSE]
    OBVIOUS
  <2>3. PICK what, k : what = "CONNECTED" /\ k = "connected"
    OBVIOUS
  <2>4. PICK c : c = bufferevent_run_eventcb_(d, what, k)
    OBVIOUS
  <2>5. \/ bev' = Stop(b, "W", "TIMEOUT")
        \/ bev' = Done(b)
        \/ bev' = Failed(b)
        \/ IF c.running.cb = "no" THEN bev' \in AfterConnected(c) ELSE bev' = c
        \/ ~b.connecting /\ bev' \in WriteOut(b, FALSE)
    BY <1>2, <1>7, <2>2, <2>3, <2>4 DEF bufferevent_writecb
  <2>6. BevOnly(b, d, {"connecting"}) /\ d.connecting = FALSE
    BY <1>3, <2>2 DEF BevTyped, BevFields, BevOnly
  <2>7. BevTyped(d)
    BY <1>3, <2>6 DEF BevTyped, BevOnly
  <2>8. Core(d)
    <3>1. Events(d)
      BY <2>1, <2>6 DEF BevOnly, Core, Events, Timed, ReadsWanted, Covered
    <3>2. Marked(d) /\ Looked(d) /\ Connects(d)
      BY <2>1, <2>6 DEF BevOnly, Core, Marked, Looked, Connects
    <3> QED BY <3>1, <3>2 DEF Core
  <2>9. BevOnly(d, c, {"running"}) /\ BevTyped(c) /\ c.running.k = k /\ c.running.cb \in {"no", what}
    BY <2>4, <2>7, RunsEvent
  <2>10. Core(c)
    <3>1. Events(d) <=> Events(c)
      BY <2>9 DEF BevOnly, Events, Timed, ReadsWanted, Covered
    <3>2. BevOnly(d, c, {"ev", "timer", "enabled", "running"})
      BY <2>9 DEF BevOnly
    <3> QED BY <2>8, <3>1, <3>2, EventsMakeCore
  <2>11. ~c.connecting /\ c.fd
    BY <2>1, <2>6, <2>9 DEF BevOnly
  <2>12. CASE IF c.running.cb = "no" THEN bev' \in AfterConnected(c) ELSE bev' = c
    <3>1. CASE bev' \in AfterConnected(c)
      BY <2>9, <2>10, <2>11, <3>1, AfterConnecting, SettledIsSound
    <3>2. CASE c.running.cb # "no" /\ bev' = c
      BY <2>3, <2>9, <2>10, <2>11, <3>2 DEF BevSound
    <3> QED BY <2>12, <3>1, <3>2
  <2>13. CASE ~b.connecting /\ bev' \in WriteOut(b, FALSE)
    <3>1. PICK on : on = FALSE
      OBVIOUS
    <3>2. bev' \in WriteOut(b, on)
      BY <2>13, <3>1
    <3> QED BY <2>1, <2>13, <3>2, WritesOut, SettledIsSound
  <2> QED BY <2>1, <2>5, <2>12, <2>13, Stops, Finishes, Fails, SettledIsSound
<1>8. CASE bufferevent_run_deferred_callbacks
  <2>1. PICK d : d = [bev EXCEPT !.deferred = FALSE]
    OBVIOUS
  <2>2. BevOnly(bev, d, {})
    BY <1>1, <2>1 DEF BevTyped, BevFields, BevOnly
  <2>3. Fine(d)
    BY <1>5, <1>8, <2>2, StaysFine DEF bufferevent_run_deferred_callbacks
  <2>4. bev' = RunDeferred(d, 1)
    BY <1>8, <2>1 DEF bufferevent_run_deferred_callbacks
  <2> QED BY <2>3, <2>4, RunsDeferred, SettledIsSound
<1>9. CASE Return
  <2>1. PICK d : d = [bev EXCEPT !.running.cb = "no"]
    OBVIOUS
  <2>2. PICK e : e = Reports(d, bev.running.cb)
    OBVIOUS
  <2>3. PICK g : g = bufferevent_inbuf_wm_check(e)
    OBVIOUS
  <2>4. \/ bev.running.k # "connected" /\ bev' = Done(e)
        \/ bev.running.k # "connected" /\ bev' = Done(g)
        \/ bev.running.k = "connected" /\ bev' \in AfterConnected(e)
        \/ bev.running.k # "connected" /\ \E n : bev' = RunDeferred(e, n) \/ bev' = RunDeferred(g, n)
    BY <1>9, <2>1, <2>2, <2>3 DEF Return
  <2>5. BevOnly(bev, d, {"running"}) /\ DOMAIN d.running = {"cb", "k"}
    BY <1>1, <2>1 DEF BevTyped, BevFields, BevOnly
  <2>6. BevOnly(d, e, {})
    BY <2>2, <2>5 DEF Reports, BevFields, BevOnly
  <2>7. BevOnly(bev, e, {"running"}) /\ BevTyped(e)
    BY <1>1, <2>5, <2>6 DEF BevTyped, BevOnly
  <2>8. CASE bev.running.k # "connected"
    <3>1. Fine(bev)
      BY <2>8, SoundIsFine
    <3>2. Fine(e)
      BY <2>7, <3>1, RunsElse
    <3>3. BevOnly(e, g, {})
      BY <2>3, <2>7, DefersQuietly
    <3>4. Fine(g)
      BY <3>2, <3>3, StaysFine
    <3> QED BY <2>4, <2>8, <3>2, <3>4, Finishes, RunsDeferred, SettledIsSound
  <2>9. CASE bev.running.k = "connected"
    <3>1. bev' \in AfterConnected(e)
      BY <2>4, <2>9
    <3>2. Live(e) => Core(e) /\ ~e.connecting
      <4>1. SUFFICES ASSUME Live(e)
                     PROVE  Core(e) /\ ~e.connecting
        OBVIOUS
      <4>2. Core(bev) /\ ~bev.connecting
        BY <2>7, <2>9, <4>1 DEF BevOnly, Live, BevSound
      <4>3. Events(bev) <=> Events(e)
        BY <2>7 DEF BevOnly, Events, Timed, ReadsWanted, Covered
      <4>4. BevOnly(bev, e, {"ev", "timer", "enabled", "running"})
        BY <2>7 DEF BevOnly
      <4> QED BY <2>7, <4>2, <4>3, <4>4, EventsMakeCore DEF BevOnly
    <3> QED BY <2>7, <3>1, <3>2, AfterConnecting, SettledIsSound
  <2> QED BY <2>8, <2>9
<1>10. CASE bufferevent_connect_getaddrinfo_cb
  <2>1. PICK d : d = bufferevent_unsuspend_write_(bev, "LOOKUP")
    OBVIOUS
  <2>2. PICK e : e = bufferevent_unsuspend_read_(d, "LOOKUP")
    OBVIOUS
  <2>3. PICK g : g = [e EXCEPT !.dns = "no"]
    OBVIOUS
  <2>4. \/ bev' = Done(g)
        \/ bev' = Settle(bufferevent_run_eventcb_(g, "ERROR", "done"), "done")
        \/ \E r \in {"progress", "connected", "refused"} : bev' = Done(bufferevent_socket_connect(g, r))
    BY <1>10, <2>1, <2>2, <2>3 DEF bufferevent_connect_getaddrinfo_cb
  <2>5. Fine(bev) /\ Live(bev) /\ bev.dns # "no"
    BY <1>5, <1>10 DEF bufferevent_connect_getaddrinfo_cb
  <2>6. /\ BevOnly(bev, d, {"ev", "timer", "wsusp"}) /\ BevTyped(d) /\ d.wsusp = bev.wsusp \ {"LOOKUP"}
        /\ (Events(bev) => Events(d)) /\ (WritesWanted(bev) => WritesWanted(d))
    BY <1>1, <2>1, UnsuspendsWrite
  <2>7. /\ BevOnly(d, e, {"ev", "timer", "rsusp"}) /\ BevTyped(e) /\ e.rsusp = d.rsusp \ {"LOOKUP"}
        /\ (Events(d) => Events(e)) /\ (WritesWanted(d) => WritesWanted(e))
    BY <2>2, <2>6, UnsuspendsRead
  <2>8. BevOnly(e, g, {"dns"}) /\ g.dns = "no"
    BY <2>3, <2>7 DEF BevTyped, BevFields, BevOnly
  <2>9. BevTyped(g)
    BY <2>7, <2>8 DEF BevTyped, BevOnly
  <2>10. /\ BevOnly(bev, g, {"ev", "timer", "rsusp", "wsusp", "dns"})
         /\ g.rsusp = bev.rsusp \ {"LOOKUP"} /\ g.wsusp = bev.wsusp \ {"LOOKUP"}
    BY <2>6, <2>7, <2>8 DEF BevOnly
  <2>11. (Events(e) => Events(g)) /\ (WritesWanted(e) => WritesWanted(g))
    BY <2>8 DEF BevOnly, Events, Timed, ReadsWanted, Covered, WritesWanted
  <2>12. Core(bev) /\ WritesWanted(bev) /\ ~bev.connecting
    BY <2>5 DEF Fine, Core, Connects
  <2>13. Looked(g) /\ ~g.connecting
    BY <2>8, <2>10, <2>12 DEF Looked, BevOnly
  <2>14. Marked(g) /\ Connects(g)
    BY <2>10, <2>12, <2>13 DEF Core, Marked, Connects, BevOnly
  <2>15. Fine(g)
    BY <2>6, <2>7, <2>9, <2>11, <2>12, <2>13, <2>14 DEF Fine, Core
  <2>16. ASSUME NEW r \in {"progress", "connected", "refused"}, bev' = Done(bufferevent_socket_connect(g, r))
         PROVE  Settled(bev')
    <3>1. PICK h : h = bufferevent_socket_connect(g, r)
      OBVIOUS
    <3>2. r \in {"progress", "connected", "refused", "error"}
      OBVIOUS
    <3>3. Keeps(g, h)
      BY <2>8, <2>9, <2>13, <3>1, <3>2, Connecting
    <3>4. Fine(h)
      BY <2>15, <3>3, KeepsFine
    <3> QED BY <2>16, <3>1, <3>4, Finishes
  <2> QED BY <2>4, <2>15, <2>16, Finishes, Tells, SettledIsSound
<1>11. CASE bufferevent_finalize_cb_
  <2>1. bev' = [bev EXCEPT !.alive = "gone"]
    BY <1>11 DEF bufferevent_finalize_cb_
  <2>2. BevOnly(bev, bev', {"alive"}) /\ bev'.alive = "gone"
    BY <1>1, <2>1 DEF BevTyped, BevFields, BevOnly
  <2>3. BevTyped(bev')
    BY <1>1, <2>2 DEF BevTyped, BevOnly
  <2> QED BY <2>2, <2>3 DEF BevSound, Live
<1> QED BY <1>6, <1>7, <1>8, <1>9, <1>10, <1>11

LEMMA BevStarts ==
  ASSUME Init
  PROVE  BevSound(bev)
<1>1. PICK sc \in Scenarios :
    bev = [alive |-> "open", options |-> sc.options, calls |-> sc.calls, n |-> sc.n,
           refcnt |-> 1, owned |-> TRUE, cbs |-> TRUE, fd |-> sc.fd,
           enabled |-> {"W"}, rsusp |-> {}, wsusp |-> {}, ev |-> {},
           tmo |-> {}, timer |-> {}, input |-> 0, output |-> 0,
           low |-> 0, high |-> 0, connecting |-> FALSE, refused |-> FALSE,
           deferred |-> FALSE, pend |-> {}, epend |-> {}, dns |-> "no",
           running |-> [cb |-> "no", k |-> "no"],
           failed |-> FALSE, at_once |-> FALSE, report |-> "no"]
  BY DEF Init
<1>2. /\ DOMAIN bev = BevFields /\ bev.enabled = {"W"} /\ bev.rsusp = {} /\ bev.wsusp = {} /\ bev.ev = {}
      /\ bev.timer = {} /\ bev.input = 0 /\ bev.output = 0 /\ bev.high = 0 /\ bev.connecting = FALSE
      /\ bev.dns = "no" /\ bev.running = [cb |-> "no", k |-> "no"]
  BY <1>1 DEF BevFields
<1>3. BevTyped(bev)
  BY <1>2 DEF BevTyped
<1>4. Timed(bev) /\ ReadsWanted(bev) /\ WritesWanted(bev) /\ Looked(bev) /\ Connects(bev)
  BY <1>2 DEF Timed, ReadsWanted, WritesWanted, Looked, Connects
<1>5. Marked(bev)
  BY <1>2 DEF Marked
<1>6. Covered(bev)
  BY <1>2 DEF Covered
<1> QED BY <1>2, <1>3, <1>4, <1>5, <1>6 DEF BevSound, Core, Events

------------------------------------------------------------------------------
(* The TLS bufferevent.                                                    *)

TlsFields == {"state", "enabled", "ev", "rbow", "wbor", "rsusp", "high", "input", "output", "left", "last_write",
              "closed", "spin", "want", "op", "calls", "paused", "hit"}

TlsTyped(b) ==
  /\ DOMAIN b = TlsFields /\ b.high \in Int /\ b.input \in Int /\ b.output \in Nat
  /\ b.rbow \in BOOLEAN /\ b.wbor \in BOOLEAN /\ b.rsusp \in BOOLEAN /\ b.closed \in BOOLEAN /\ b.spin \in BOOLEAN

\* Only the fields of C differ, and those that do not matter here.
TlsOnly(b, c, C) ==
  /\ DOMAIN c = TlsFields
  /\ ("state" \notin C => c.state = b.state) /\ ("enabled" \notin C => c.enabled = b.enabled)
  /\ ("ev" \notin C => c.ev = b.ev) /\ ("rbow" \notin C => c.rbow = b.rbow)
  /\ ("wbor" \notin C => c.wbor = b.wbor) /\ ("rsusp" \notin C => c.rsusp = b.rsusp)
  /\ ("high" \notin C => c.high = b.high) /\ ("input" \notin C => c.input = b.input)
  /\ ("output" \notin C => c.output = b.output) /\ ("closed" \notin C => c.closed = b.closed)
  /\ ("spin" \notin C => c.spin = b.spin) /\ ("want" \notin C => c.want = b.want)
  /\ ("paused" \notin C => c.paused = b.paused)

\* Reading, writing and the handshake watch what the engine waits for.
ReadWatched(b) ==
  "R" \in b.enabled /\ ~b.rsusp => IF b.rbow THEN "W" \in b.ev ELSE "R" \in b.ev
WriteWatched(b) ==
  "W" \in b.enabled /\ b.output > 0 => IF b.wbor THEN "R" \in b.ev ELSE "W" \in b.ev
HandshakeWatched(b) == \A d \in {"R", "W"} \ b.paused : b.want = d => d \in b.ev

\* Reading is suspended by the watermark; a write that waits to read has something to write.
TlsCalm(b) ==
  /\ b.rsusp <=> b.high # 0 /\ b.input >= b.high
  /\ b.wbor => b.output # 0

Watched(b) == ~b.closed /\ ~b.spin => ReadWatched(b) /\ WriteWatched(b)
TlsOpen(b) == TlsTyped(b) /\ TlsCalm(b) /\ Watched(b)

TlsSound(b) ==
  /\ TlsTyped(b) /\ TlsCalm(b)
  /\ ~b.closed /\ ~b.spin => /\ b.state = "OPEN" => ReadWatched(b) /\ WriteWatched(b)
                             /\ b.state = "CONNECTING" => HandshakeWatched(b)

LEMMA StartsReading ==
  ASSUME NEW b, TlsTyped(b), NEW c, c = T!start_reading(b)
  PROVE  /\ TlsOnly(b, c, {"ev"}) /\ TlsTyped(c)
         /\ "R" \in c.ev /\ ("W" \in c.ev <=> "W" \in b.ev \/ b.rbow)
<1>1. c = [b EXCEPT !.ev = @ \cup (IF b.rbow THEN {"R", "W"} ELSE {"R"})]
  BY DEF T!start_reading, T!event_add
<1>2. TlsOnly(b, c, {"ev"}) /\ c.ev = b.ev \cup (IF b.rbow THEN {"R", "W"} ELSE {"R"})
  BY <1>1 DEF TlsTyped, TlsFields, TlsOnly
<1>3. TlsTyped(c)
  BY <1>2 DEF TlsTyped, TlsOnly
<1> QED BY <1>2, <1>3

LEMMA StartsWriting ==
  ASSUME NEW b, TlsTyped(b), NEW c, c = T!start_writing(b)
  PROVE  /\ TlsOnly(b, c, {"ev"}) /\ TlsTyped(c)
         /\ "W" \in c.ev /\ ("R" \in c.ev <=> "R" \in b.ev \/ b.wbor)
<1>1. c = [b EXCEPT !.ev = @ \cup (IF b.wbor THEN {"R", "W"} ELSE {"W"})]
  BY DEF T!start_writing, T!event_add
<1>2. TlsOnly(b, c, {"ev"}) /\ c.ev = b.ev \cup (IF b.wbor THEN {"R", "W"} ELSE {"W"})
  BY <1>1 DEF TlsTyped, TlsFields, TlsOnly
<1>3. TlsTyped(c)
  BY <1>2 DEF TlsTyped, TlsOnly
<1> QED BY <1>2, <1>3

LEMMA Deletes ==
  ASSUME NEW b, TlsTyped(b), NEW D, NEW c, c = T!event_del(b, D)
  PROVE  /\ TlsOnly(b, c, {"ev"}) /\ TlsTyped(c) /\ c.ev = b.ev \ D
<1>1. c = [b EXCEPT !.ev = @ \ D]
  BY DEF T!event_del
<1>2. TlsOnly(b, c, {"ev"}) /\ c.ev = b.ev \ D
  BY <1>1 DEF TlsTyped, TlsFields, TlsOnly
<1>3. TlsTyped(c)
  BY <1>2 DEF TlsTyped, TlsOnly
<1> QED BY <1>2, <1>3

LEMMA StopsReading ==
  ASSUME NEW b, TlsTyped(b), NEW c, c = T!stop_reading(b)
  PROVE  /\ TlsOnly(b, c, {"ev"}) /\ TlsTyped(c)
         /\ ("R" \in c.ev <=> "R" \in b.ev /\ b.wbor) /\ ("W" \in c.ev <=> "W" \in b.ev)
<1>1. CASE b.wbor
  BY <1>1 DEF T!stop_reading, TlsOnly, TlsTyped
<1>2. CASE ~b.wbor
  <2>1. TlsOnly(b, c, {"ev"}) /\ TlsTyped(c) /\ c.ev = b.ev \ {"R"}
    BY <1>2, Deletes DEF T!stop_reading
  <2> QED BY <1>2, <2>1
<1> QED BY <1>1, <1>2

LEMMA StopsWriting ==
  ASSUME NEW b, TlsTyped(b), NEW c, c = T!stop_writing(b)
  PROVE  /\ TlsOnly(b, c, {"ev"}) /\ TlsTyped(c)
         /\ ("W" \in c.ev <=> "W" \in b.ev /\ b.rbow) /\ ("R" \in c.ev <=> "R" \in b.ev)
<1>1. CASE b.rbow
  BY <1>1 DEF T!stop_writing, TlsOnly, TlsTyped
<1>2. CASE ~b.rbow
  <2>1. TlsOnly(b, c, {"ev"}) /\ TlsTyped(c) /\ c.ev = b.ev \ {"W"}
    BY <1>2, Deletes DEF T!stop_writing
  <2> QED BY <1>2, <2>1
<1> QED BY <1>1, <1>2

LEMMA SetsRbow ==
  ASSUME NEW b, TlsTyped(b), NEW c, c = T!set_rbow(b)
  PROVE  /\ TlsOnly(b, c, {"ev", "rbow"}) /\ TlsTyped(c) /\ c.rbow = TRUE
         /\ "W" \in c.ev /\ ("R" \in c.ev <=> b.wbor)
<1>1. PICK d : d = T!stop_reading(b)
  OBVIOUS
<1>2. PICK e : e = [d EXCEPT !.rbow = TRUE, !.hit = TRUE]
  OBVIOUS
<1>3. c = T!start_writing(e)
  BY <1>1, <1>2 DEF T!set_rbow
<1>4. TlsOnly(b, d, {"ev"}) /\ TlsTyped(d) /\ ("R" \in d.ev <=> "R" \in b.ev /\ b.wbor)
  BY <1>1, StopsReading
<1>5. TlsOnly(d, e, {"rbow"}) /\ e.rbow = TRUE
  BY <1>2, <1>4 DEF TlsTyped, TlsFields, TlsOnly
<1>6. TlsTyped(e)
  BY <1>4, <1>5 DEF TlsTyped, TlsOnly
<1>7. /\ TlsOnly(e, c, {"ev"}) /\ TlsTyped(c)
      /\ "W" \in c.ev /\ ("R" \in c.ev <=> "R" \in e.ev \/ e.wbor)
  BY <1>3, <1>6, StartsWriting
<1>8. TlsOnly(b, c, {"ev", "rbow"}) /\ c.rbow = TRUE /\ e.ev = d.ev /\ e.wbor = b.wbor
  BY <1>4, <1>5, <1>7 DEF TlsOnly
<1> QED BY <1>4, <1>7, <1>8

LEMMA SetsWbor ==
  ASSUME NEW b, TlsTyped(b), NEW c, c = T!set_wbor(b)
  PROVE  /\ TlsOnly(b, c, {"ev", "wbor"}) /\ TlsTyped(c) /\ c.wbor = TRUE
         /\ "R" \in c.ev /\ ("W" \in c.ev <=> b.rbow)
<1>1. PICK d : d = T!stop_writing(b)
  OBVIOUS
<1>2. PICK e : e = [d EXCEPT !.wbor = TRUE]
  OBVIOUS
<1>3. c = T!start_reading(e)
  BY <1>1, <1>2 DEF T!set_wbor
<1>4. TlsOnly(b, d, {"ev"}) /\ TlsTyped(d) /\ ("W" \in d.ev <=> "W" \in b.ev /\ b.rbow)
  BY <1>1, StopsWriting
<1>5. TlsOnly(d, e, {"wbor"}) /\ e.wbor = TRUE
  BY <1>2, <1>4 DEF TlsTyped, TlsFields, TlsOnly
<1>6. TlsTyped(e)
  BY <1>4, <1>5 DEF TlsTyped, TlsOnly
<1>7. /\ TlsOnly(e, c, {"ev"}) /\ TlsTyped(c)
      /\ "R" \in c.ev /\ ("W" \in c.ev <=> "W" \in e.ev \/ e.rbow)
  BY <1>3, <1>6, StartsReading
<1>8. TlsOnly(b, c, {"ev", "wbor"}) /\ c.wbor = TRUE /\ e.ev = d.ev /\ e.rbow = b.rbow
  BY <1>4, <1>5, <1>7 DEF TlsOnly
<1> QED BY <1>4, <1>7, <1>8

LEMMA ClearsRbow ==
  ASSUME NEW b, TlsTyped(b), NEW c, c = T!clear_rbow(b)
  PROVE  /\ TlsOnly(b, c, {"ev", "rbow"}) /\ TlsTyped(c) /\ c.rbow = FALSE
         /\ ("R" \in c.ev <=> "R" \in b.ev \/ "R" \in b.enabled)
         /\ ("W" \in c.ev <=> "W" \in b.ev /\ "W" \in b.enabled)
<1>1. PICK d : d = [b EXCEPT !.rbow = FALSE]
  OBVIOUS
<1>2. PICK e : e = IF "W" \notin d.enabled THEN T!stop_writing(d) ELSE d
  OBVIOUS
<1>3. c = IF "R" \in e.enabled THEN T!start_reading(e) ELSE e
  BY <1>1, <1>2 DEF T!clear_rbow
<1>4. TlsOnly(b, d, {"rbow"}) /\ d.rbow = FALSE
  BY <1>1 DEF TlsTyped, TlsFields, TlsOnly
<1>5. TlsTyped(d)
  BY <1>4 DEF TlsTyped, TlsOnly
<1>6. /\ TlsOnly(d, e, {"ev"}) /\ TlsTyped(e) /\ ("W" \in e.ev <=> "W" \in d.ev /\ "W" \in d.enabled)
      /\ ("R" \in e.ev <=> "R" \in d.ev)
  <2>1. CASE "W" \notin d.enabled
    BY <1>2, <1>4, <1>5, <2>1, StopsWriting
  <2>2. CASE "W" \in d.enabled
    BY <1>2, <1>5, <2>2 DEF TlsOnly, TlsTyped
  <2> QED BY <2>1, <2>2
<1>7. e.rbow = FALSE
  BY <1>4, <1>6 DEF TlsOnly
<1>8. /\ TlsOnly(e, c, {"ev"}) /\ TlsTyped(c) /\ ("R" \in c.ev <=> "R" \in e.ev \/ "R" \in e.enabled)
      /\ ("W" \in c.ev <=> "W" \in e.ev)
  <2>1. CASE "R" \in e.enabled
    BY <1>3, <1>6, <1>7, <2>1, StartsReading
  <2>2. CASE "R" \notin e.enabled
    BY <1>3, <1>6, <2>2 DEF TlsOnly, TlsTyped
  <2> QED BY <2>1, <2>2
<1>9. /\ TlsOnly(b, c, {"ev", "rbow"}) /\ c.rbow = FALSE
      /\ d.ev = b.ev /\ d.enabled = b.enabled /\ e.enabled = b.enabled
  BY <1>4, <1>6, <1>7, <1>8 DEF TlsOnly
<1> QED BY <1>6, <1>8, <1>9

LEMMA ClearsWbor ==
  ASSUME NEW b, TlsTyped(b), NEW c, c = T!clear_wbor(b)
  PROVE  /\ TlsOnly(b, c, {"ev", "wbor"}) /\ TlsTyped(c) /\ c.wbor = FALSE
         /\ ("W" \in c.ev <=> "W" \in b.ev \/ "W" \in b.enabled)
         /\ ("R" \in c.ev <=> "R" \in b.ev /\ "R" \in b.enabled)
<1>1. PICK d : d = [b EXCEPT !.wbor = FALSE]
  OBVIOUS
<1>2. PICK e : e = IF "R" \notin d.enabled THEN T!stop_reading(d) ELSE d
  OBVIOUS
<1>3. c = IF "W" \in e.enabled THEN T!start_writing(e) ELSE e
  BY <1>1, <1>2 DEF T!clear_wbor
<1>4. TlsOnly(b, d, {"wbor"}) /\ d.wbor = FALSE
  BY <1>1 DEF TlsTyped, TlsFields, TlsOnly
<1>5. TlsTyped(d)
  BY <1>4 DEF TlsTyped, TlsOnly
<1>6. /\ TlsOnly(d, e, {"ev"}) /\ TlsTyped(e) /\ ("R" \in e.ev <=> "R" \in d.ev /\ "R" \in d.enabled)
      /\ ("W" \in e.ev <=> "W" \in d.ev)
  <2>1. CASE "R" \notin d.enabled
    BY <1>2, <1>4, <1>5, <2>1, StopsReading
  <2>2. CASE "R" \in d.enabled
    BY <1>2, <1>5, <2>2 DEF TlsOnly, TlsTyped
  <2> QED BY <2>1, <2>2
<1>7. e.wbor = FALSE
  BY <1>4, <1>6 DEF TlsOnly
<1>8. /\ TlsOnly(e, c, {"ev"}) /\ TlsTyped(c) /\ ("W" \in c.ev <=> "W" \in e.ev \/ "W" \in e.enabled)
      /\ ("R" \in c.ev <=> "R" \in e.ev)
  <2>1. CASE "W" \in e.enabled
    BY <1>3, <1>6, <1>7, <2>1, StartsWriting
  <2>2. CASE "W" \notin e.enabled
    BY <1>3, <1>6, <2>2 DEF TlsOnly, TlsTyped
  <2> QED BY <2>1, <2>2
<1>9. /\ TlsOnly(b, c, {"ev", "wbor"}) /\ c.wbor = FALSE
      /\ d.ev = b.ev /\ d.enabled = b.enabled /\ e.enabled = b.enabled
  BY <1>4, <1>6, <1>7, <1>8 DEF TlsOnly
<1> QED BY <1>6, <1>8, <1>9

LEMMA Closes ==
  ASSUME NEW b, TlsTyped(b), NEW c, c = T!conn_closed(b)
  PROVE  TlsOnly(b, c, {"ev", "closed"}) /\ TlsTyped(c) /\ c.closed = TRUE
<1>1. PICK d : d = T!stop_reading(b)
  OBVIOUS
<1>2. PICK e : e = T!stop_writing(d)
  OBVIOUS
<1>3. c = [e EXCEPT !.closed = TRUE]
  BY <1>1, <1>2 DEF T!conn_closed
<1>4. TlsOnly(b, d, {"ev"}) /\ TlsTyped(d)
  BY <1>1, StopsReading
<1>5. TlsOnly(d, e, {"ev"}) /\ TlsTyped(e)
  BY <1>2, <1>4, StopsWriting
<1>6. TlsOnly(e, c, {"closed"}) /\ c.closed = TRUE
  BY <1>3, <1>5 DEF TlsTyped, TlsFields, TlsOnly
<1>7. TlsOnly(b, c, {"ev", "closed"})
  BY <1>4, <1>5, <1>6 DEF TlsOnly
<1>8. TlsTyped(c)
  BY <1>5, <1>6 DEF TlsTyped, TlsOnly
<1> QED BY <1>6, <1>7, <1>8

LEMMA TlsEnables ==
  ASSUME NEW b, TlsTyped(b), NEW D, NEW c, c = T!be_openssl_enable(b, D)
  PROVE  /\ TlsOnly(b, c, {"ev"}) /\ TlsTyped(c)
         /\ ("R" \in c.ev <=> "R" \in b.ev \/ "R" \in D \/ ("W" \in D /\ b.wbor))
         /\ ("W" \in c.ev <=> "W" \in b.ev \/ "W" \in D \/ ("R" \in D /\ b.rbow))
<1>1. PICK d : d = IF "R" \in D THEN T!start_reading(b) ELSE b
  OBVIOUS
<1>2. c = IF "W" \in D THEN T!start_writing(d) ELSE d
  BY <1>1 DEF T!be_openssl_enable
<1>3. /\ TlsOnly(b, d, {"ev"}) /\ TlsTyped(d) /\ ("R" \in d.ev <=> "R" \in b.ev \/ "R" \in D)
      /\ ("W" \in d.ev <=> "W" \in b.ev \/ ("R" \in D /\ b.rbow))
  <2>1. CASE "R" \in D
    BY <1>1, <2>1, StartsReading
  <2>2. CASE "R" \notin D
    BY <1>1, <2>2 DEF TlsOnly, TlsTyped
  <2> QED BY <2>1, <2>2
<1>4. /\ TlsOnly(d, c, {"ev"}) /\ TlsTyped(c) /\ ("W" \in c.ev <=> "W" \in d.ev \/ "W" \in D)
      /\ ("R" \in c.ev <=> "R" \in d.ev \/ ("W" \in D /\ d.wbor))
  <2>1. CASE "W" \in D
    BY <1>2, <1>3, <2>1, StartsWriting
  <2>2. CASE "W" \notin D
    BY <1>2, <1>3, <2>2 DEF TlsOnly, TlsTyped
  <2> QED BY <2>1, <2>2
<1>5. TlsOnly(b, c, {"ev"}) /\ d.wbor = b.wbor
  BY <1>3, <1>4 DEF TlsOnly
<1> QED BY <1>3, <1>4, <1>5

LEMMA TlsDisables ==
  ASSUME NEW b, TlsTyped(b), NEW D, NEW c, c = T!be_openssl_disable(b, D)
  PROVE  /\ TlsOnly(b, c, {"ev"}) /\ TlsTyped(c)
         /\ ("R" \in c.ev <=> "R" \in b.ev /\ ("R" \notin D \/ b.wbor))
         /\ ("W" \in c.ev <=> "W" \in b.ev /\ ("W" \notin D \/ b.rbow))
<1>1. PICK d : d = IF "R" \in D THEN T!stop_reading(b) ELSE b
  OBVIOUS
<1>2. c = IF "W" \in D THEN T!stop_writing(d) ELSE d
  BY <1>1 DEF T!be_openssl_disable
<1>3. /\ TlsOnly(b, d, {"ev"}) /\ TlsTyped(d) /\ ("R" \in d.ev <=> "R" \in b.ev /\ ("R" \notin D \/ b.wbor))
      /\ ("W" \in d.ev <=> "W" \in b.ev)
  <2>1. CASE "R" \in D
    BY <1>1, <2>1, StopsReading
  <2>2. CASE "R" \notin D
    BY <1>1, <2>2 DEF TlsOnly, TlsTyped
  <2> QED BY <2>1, <2>2
<1>4. /\ TlsOnly(d, c, {"ev"}) /\ TlsTyped(c) /\ ("W" \in c.ev <=> "W" \in d.ev /\ ("W" \notin D \/ d.rbow))
      /\ ("R" \in c.ev <=> "R" \in d.ev)
  <2>1. CASE "W" \in D
    BY <1>2, <1>3, <2>1, StopsWriting
  <2>2. CASE "W" \notin D
    BY <1>2, <1>3, <2>2 DEF TlsOnly, TlsTyped
  <2> QED BY <2>1, <2>2
<1>5. TlsOnly(b, c, {"ev"}) /\ d.rbow = b.rbow
  BY <1>3, <1>4 DEF TlsOnly
<1> QED BY <1>3, <1>4, <1>5

\* A step that changes only fields that do not matter.
LEMMA TlsSame ==
  ASSUME NEW b, TlsOpen(b), NEW c, TlsOnly(b, c, {})
  PROVE  TlsOpen(c)
<1>1. TlsTyped(c) /\ TlsCalm(c)
  BY DEF TlsOpen, TlsTyped, TlsCalm, TlsOnly
<1>2. (ReadWatched(b) <=> ReadWatched(c)) /\ (WriteWatched(b) <=> WriteWatched(c))
  BY DEF TlsOnly, ReadWatched, WriteWatched
<1> QED BY <1>1, <1>2 DEF TlsOpen, TlsOnly, Watched

LEMMA OpChanges ==
  ASSUME NEW b, TlsTyped(b), NEW op, NEW c, c = T!Op(b, op)
  PROVE  TlsOnly(b, c, {}) /\ TlsTyped(c)
<1>1. TlsOnly(b, c, {})
  BY DEF T!Op, TlsTyped, TlsFields, TlsOnly
<1> QED BY <1>1 DEF TlsTyped, TlsOnly

\* The watermark: nothing that is written is disturbed, and reading stops at the mark.
LEMMA MarksReading ==
  ASSUME NEW b, TlsTyped(b), NEW c, c = T!bufferevent_inbuf_wm_cb(b)
  PROVE  /\ TlsOnly(b, c, {"ev", "rsusp"}) /\ TlsTyped(c)
         /\ c.rsusp <=> b.high # 0 /\ b.input >= b.high
         /\ ReadWatched(b) => ReadWatched(c)
         /\ WriteWatched(b) => WriteWatched(c)
         /\ (b.rsusp \/ ~c.rsusp) => \A d \in {"R", "W"} : d \in b.ev => d \in c.ev
<1> DEFINE Mark == b.high # 0 /\ b.input >= b.high
<1>1. CASE Mark /\ b.rsusp
  <2>1. c = b
    BY <1>1 DEF T!bufferevent_inbuf_wm_cb
  <2> QED BY <1>1, <2>1 DEF TlsOnly, TlsTyped
<1>2. CASE Mark /\ ~b.rsusp
  <2>1. PICK e : e = [b EXCEPT !.rsusp = TRUE]
    OBVIOUS
  <2>2. c = T!be_openssl_disable(e, {"R"})
    BY <1>2, <2>1 DEF T!bufferevent_inbuf_wm_cb
  <2>3. TlsOnly(b, e, {"rsusp"}) /\ e.rsusp = TRUE
    BY <2>1 DEF TlsTyped, TlsFields, TlsOnly
  <2>4. TlsTyped(e)
    BY <2>3 DEF TlsTyped, TlsOnly
  <2>5. /\ TlsOnly(e, c, {"ev"}) /\ TlsTyped(c) /\ ("W" \in c.ev <=> "W" \in e.ev)
        /\ ("R" \in c.ev <=> "R" \in e.ev /\ e.wbor)
    BY <2>2, <2>4, TlsDisables
  <2>6. TlsOnly(b, c, {"ev", "rsusp"}) /\ c.rsusp = TRUE /\ e.ev = b.ev /\ e.wbor = b.wbor
    BY <2>3, <2>5 DEF TlsOnly
  <2>7. ReadWatched(c)
    BY <2>6 DEF ReadWatched
  <2>8. WriteWatched(b) => WriteWatched(c)
    BY <2>5, <2>6 DEF WriteWatched, TlsOnly
  <2> QED BY <1>2, <2>5, <2>6, <2>7, <2>8
<1>3. CASE ~Mark /\ ~b.rsusp
  <2>1. c = b
    BY <1>3 DEF T!bufferevent_inbuf_wm_cb
  <2> QED BY <1>3, <2>1 DEF TlsOnly, TlsTyped
<1>4. CASE ~Mark /\ b.rsusp
  <2>1. PICK e : e = [b EXCEPT !.rsusp = FALSE]
    OBVIOUS
  <2>2. c = IF "R" \in b.enabled THEN T!be_openssl_enable(e, {"R"}) ELSE e
    BY <1>4, <2>1 DEF T!bufferevent_inbuf_wm_cb
  <2>3. TlsOnly(b, e, {"rsusp"}) /\ e.rsusp = FALSE
    BY <2>1 DEF TlsTyped, TlsFields, TlsOnly
  <2>4. TlsTyped(e)
    BY <2>3 DEF TlsTyped, TlsOnly
  <2>5. CASE "R" \in b.enabled
    <3>1. /\ TlsOnly(e, c, {"ev"}) /\ TlsTyped(c) /\ ("W" \in c.ev <=> "W" \in e.ev \/ e.rbow)
          /\ "R" \in c.ev
      BY <2>2, <2>4, <2>5, TlsEnables
    <3>2. TlsOnly(b, c, {"ev", "rsusp"}) /\ c.rsusp = FALSE /\ e.ev = b.ev /\ e.rbow = b.rbow
      BY <2>3, <3>1 DEF TlsOnly
    <3>3. ReadWatched(c)
      BY <3>1, <3>2 DEF ReadWatched, TlsOnly
    <3>4. WriteWatched(b) => WriteWatched(c)
      BY <3>1, <3>2 DEF WriteWatched, TlsOnly
    <3> QED BY <1>4, <3>1, <3>2, <3>3, <3>4
  <2>6. CASE "R" \notin b.enabled
    <3>1. c = e
      BY <2>2, <2>6
    <3>2. ReadWatched(c)
      BY <2>3, <2>6, <3>1 DEF ReadWatched, TlsOnly
    <3>3. WriteWatched(b) => WriteWatched(c)
      BY <2>3, <3>1 DEF WriteWatched, TlsOnly
    <3>4. TlsOnly(b, c, {"ev", "rsusp"}) /\ c.ev = b.ev
      BY <2>3, <3>1 DEF TlsOnly
    <3> QED BY <1>4, <2>3, <2>4, <3>1, <3>2, <3>3, <3>4
  <2> QED BY <2>5, <2>6
<1>5. b.rsusp \in BOOLEAN
  BY DEF TlsTyped
<1> QED BY <1>1, <1>2, <1>3, <1>4, <1>5

\* What the engine says of a blocked read leaves reading and writing watched.
LEMMA ClearingKeepsWatch ==
  ASSUME NEW b, TlsTyped(b), NEW c, c = IF b.rbow THEN T!clear_rbow(b) ELSE b
  PROVE  /\ TlsOnly(b, c, {"ev", "rbow"}) /\ TlsTyped(c)
         /\ ReadWatched(b) => ReadWatched(c)
         /\ WriteWatched(b) => WriteWatched(c)
<1>1. CASE b.rbow
  <2>1. /\ TlsOnly(b, c, {"ev", "rbow"}) /\ TlsTyped(c) /\ c.rbow = FALSE
        /\ ("R" \in c.ev <=> "R" \in b.ev \/ "R" \in b.enabled)
        /\ ("W" \in c.ev <=> "W" \in b.ev /\ "W" \in b.enabled)
    BY <1>1, ClearsRbow
  <2>2. c.enabled = b.enabled /\ c.wbor = b.wbor /\ c.output = b.output
    BY <2>1 DEF TlsOnly
  <2>3. ReadWatched(b) => ReadWatched(c)
    BY <2>1, <2>2 DEF ReadWatched
  <2>4. WriteWatched(b) => WriteWatched(c)
    BY <2>1, <2>2 DEF WriteWatched
  <2> QED BY <2>1, <2>3, <2>4
<1>2. CASE ~b.rbow
  BY <1>2 DEF TlsOnly, TlsTyped
<1> QED BY <1>1, <1>2

LEMMA ClearingWriteKeepsWatch ==
  ASSUME NEW b, TlsTyped(b), NEW c, c = IF b.wbor THEN T!clear_wbor(b) ELSE b
  PROVE  /\ TlsOnly(b, c, {"ev", "wbor"}) /\ TlsTyped(c)
         /\ ReadWatched(b) => ReadWatched(c)
         /\ WriteWatched(b) => WriteWatched(c)
         /\ c.wbor = FALSE
<1>1. CASE b.wbor
  <2>1. /\ TlsOnly(b, c, {"ev", "wbor"}) /\ TlsTyped(c) /\ c.wbor = FALSE
        /\ ("W" \in c.ev <=> "W" \in b.ev \/ "W" \in b.enabled)
        /\ ("R" \in c.ev <=> "R" \in b.ev /\ "R" \in b.enabled)
    BY <1>1, ClearsWbor
  <2>2. c.enabled = b.enabled /\ c.rbow = b.rbow /\ c.rsusp = b.rsusp
    BY <2>1 DEF TlsOnly
  <2>3. ReadWatched(b) => ReadWatched(c)
    BY <2>1, <2>2 DEF ReadWatched
  <2>4. WriteWatched(b) => WriteWatched(c)
    BY <2>1, <2>2 DEF WriteWatched
  <2> QED BY <2>1, <2>3, <2>4
<1>2. CASE ~b.wbor
  BY <1>2 DEF TlsOnly, TlsTyped
<1> QED BY <1>1, <1>2

LEMMA ClosedIsOpen ==
  ASSUME NEW b, TlsTyped(b), TlsCalm(b), NEW c, c = T!conn_closed(b)
  PROVE  TlsOpen(c)
<1>1. TlsOnly(b, c, {"ev", "closed"}) /\ TlsTyped(c) /\ c.closed = TRUE
  BY Closes
<1>2. TlsCalm(c)
  BY <1>1 DEF TlsCalm, TlsOnly
<1> QED BY <1>1, <1>2 DEF TlsOpen, Watched

ReadFields == {"ev", "rbow", "rsusp", "input", "closed"}

LEMMA Reads ==
  ASSUME NEW b, TlsOpen(b), NEW c \in T!do_read(b)
  PROVE  TlsOpen(c) /\ TlsOnly(b, c, ReadFields)
<1> USE DEF ReadFields
<1>1. TlsTyped(b) /\ TlsCalm(b) /\ Watched(b)
  BY DEF TlsOpen
<1>2. PICK k : k = IF b.rbow THEN T!clear_rbow(b) ELSE b
  OBVIOUS
<1>3. /\ TlsOnly(b, k, {"ev", "rbow"}) /\ TlsTyped(k)
      /\ ReadWatched(b) => ReadWatched(k)
      /\ WriteWatched(b) => WriteWatched(k)
  BY <1>1, <1>2, ClearingKeepsWatch
<1>4. ASSUME NEW d, TlsOpen(d), TlsOnly(b, d, ReadFields), NEW op, c = T!Op(d, op)
      PROVE  TlsOpen(c) /\ TlsOnly(b, c, ReadFields)
  <2>1. TlsOnly(d, c, {})
    BY <1>4, OpChanges DEF TlsOpen
  <2>2. TlsOpen(c)
    BY <1>4, <2>1, TlsSame
  <2>3. TlsOnly(b, c, ReadFields)
    BY <1>4, <2>1 DEF TlsOnly
  <2> QED BY <2>2, <2>3
<1>5. CASE c = T!Op(b, "none")
  BY <1>1, <1>4, <1>5 DEF TlsOnly, TlsTyped
<1>6. ASSUME NEW n, ~b.rsusp,
             c = T!Op(T!bufferevent_inbuf_wm_cb([k EXCEPT !.input = @ + 1, !.left = n]), "progress")
      PROVE  TlsOpen(c) /\ TlsOnly(b, c, ReadFields)
  <2>1. PICK d : d = [k EXCEPT !.input = @ + 1, !.left = n]
    OBVIOUS
  <2>2. PICK e : e = T!bufferevent_inbuf_wm_cb(d)
    OBVIOUS
  <2>3. TlsOnly(k, d, {"input"}) /\ d.input = k.input + 1
    BY <1>3, <2>1 DEF TlsTyped, TlsFields, TlsOnly
  <2>4. TlsTyped(d)
    BY <1>3, <2>3 DEF TlsTyped, TlsOnly
  <2>5. (ReadWatched(k) => ReadWatched(d)) /\ (WriteWatched(k) => WriteWatched(d))
    BY <2>3 DEF TlsOnly, ReadWatched, WriteWatched
  <2>6. /\ TlsOnly(d, e, {"ev", "rsusp"}) /\ TlsTyped(e)
        /\ e.rsusp <=> d.high # 0 /\ d.input >= d.high
        /\ ReadWatched(d) => ReadWatched(e)
        /\ WriteWatched(d) => WriteWatched(e)
    BY <2>2, <2>4, MarksReading
  <2>7. TlsOnly(b, e, ReadFields)
    BY <1>3, <2>3, <2>6 DEF TlsOnly
  <2>8. TlsCalm(e)
    <3>1. e.wbor = b.wbor /\ e.output = b.output /\ e.high = d.high /\ e.input = d.input
      BY <2>6, <2>7 DEF TlsOnly
    <3> QED BY <1>1, <2>6, <3>1 DEF TlsCalm
  <2>9. Watched(e)
    <3>1. e.closed = b.closed /\ e.spin = b.spin
      BY <1>3, <2>3, <2>6 DEF TlsOnly
    <3> QED BY <1>1, <1>3, <2>5, <2>6, <3>1 DEF Watched
  <2>10. TlsOpen(e)
    BY <2>6, <2>8, <2>9 DEF TlsOpen
  <2>11. c = T!Op(e, "progress")
    BY <1>6, <2>1, <2>2
  <2> QED BY <1>4, <2>7, <2>10, <2>11
<1>7. CASE c = T!Op(k, "blocked")
  <2>1. TlsOnly(b, k, ReadFields)
    BY <1>3 DEF TlsOnly
  <2>2. TlsCalm(k)
    BY <1>1, <1>3 DEF TlsCalm, TlsOnly
  <2>3. k.closed = b.closed /\ k.spin = b.spin
    BY <1>3 DEF TlsOnly
  <2>4. TlsOpen(k)
    BY <1>1, <1>3, <2>2, <2>3 DEF TlsOpen, Watched
  <2> QED BY <1>4, <1>7, <2>1, <2>4
<1>8. CASE c = T!Op(IF b.rbow THEN b ELSE T!set_rbow(b), "blocked")
  <2>1. CASE b.rbow
    <3>1. c = T!Op(b, "blocked")
      BY <1>8, <2>1
    <3> QED BY <1>1, <1>4, <3>1 DEF TlsOnly, TlsTyped
  <2>2. CASE ~b.rbow
    <3>1. PICK e : e = T!set_rbow(b)
      OBVIOUS
    <3>2. /\ TlsOnly(b, e, {"ev", "rbow"}) /\ TlsTyped(e) /\ e.rbow = TRUE
          /\ "W" \in e.ev /\ ("R" \in e.ev <=> b.wbor)
      BY <1>1, <3>1, SetsRbow
    <3>3. TlsOnly(b, e, ReadFields)
      BY <3>2 DEF TlsOnly
    <3>4. TlsCalm(e)
      BY <1>1, <3>2 DEF TlsCalm, TlsOnly
    <3>5. ReadWatched(e)
      BY <3>2 DEF ReadWatched
    <3>6. WriteWatched(e)
      <4>1. e.wbor = b.wbor
        BY <3>2 DEF TlsOnly
      <4> QED BY <3>2, <4>1 DEF WriteWatched
    <3>7. TlsOpen(e)
      BY <3>2, <3>4, <3>5, <3>6 DEF TlsOpen, Watched
    <3>8. c = T!Op(e, "blocked")
      BY <1>8, <2>2, <3>1
    <3> QED BY <1>4, <3>3, <3>7, <3>8
  <2> QED BY <2>1, <2>2
<1>9. CASE c = T!Op(T!conn_closed(b), "blocked")
  <2>1. PICK e : e = T!conn_closed(b)
    OBVIOUS
  <2>2. TlsOpen(e)
    BY <1>1, <2>1, ClosedIsOpen
  <2>3. TlsOnly(b, e, ReadFields)
    <3>1. TlsOnly(b, e, {"ev", "closed"})
      BY <1>1, <2>1, Closes
    <3> QED BY <3>1 DEF TlsOnly
  <2> QED BY <1>4, <1>9, <2>1, <2>2, <2>3
<1>10. \/ c = T!Op(b, "none")
       \/ ~b.rsusp /\ \E n : c = T!Op(T!bufferevent_inbuf_wm_cb([k EXCEPT !.input = @ + 1, !.left = n]), "progress")
       \/ c = T!Op(k, "blocked")
       \/ c = T!Op(IF b.rbow THEN b ELSE T!set_rbow(b), "blocked")
       \/ c = T!Op(T!conn_closed(b), "blocked")
  <2>1. CASE b.rsusp
    BY <2>1 DEF T!do_read
  <2>2. CASE ~b.rsusp
    <3>1. c \in {T!Op(T!bufferevent_inbuf_wm_cb([k EXCEPT !.input = @ + 1, !.left = n]), "progress") :
                    n \in IF b.left > 0 THEN {b.left - 1} ELSE 0..1}
               \cup (IF b.left > 0 THEN {}
                     ELSE {T!Op(k, "blocked"),
                           T!Op(IF b.rbow THEN b ELSE T!set_rbow(b), "blocked"),
                           T!Op(T!conn_closed(b), "blocked")})
      BY <1>2, <2>2 DEF T!do_read
    <3> QED BY <2>2, <3>1
  <2> QED BY <2>1, <2>2
<1> QED BY <1>5, <1>6, <1>7, <1>8, <1>9, <1>10

WriteFields == {"ev", "wbor", "output", "closed"}

LEMMA Writes ==
  ASSUME NEW b, TlsOpen(b), NEW c \in T!do_write(b)
  PROVE  TlsOpen(c) /\ TlsOnly(b, c, WriteFields)
<1> USE DEF WriteFields
<1>1. TlsTyped(b) /\ TlsCalm(b) /\ Watched(b)
  BY DEF TlsOpen
<1>2. PICK k : k = IF b.wbor THEN T!clear_wbor(b) ELSE b
  OBVIOUS
<1>3. /\ TlsOnly(b, k, {"ev", "wbor"}) /\ TlsTyped(k)
      /\ ReadWatched(b) => ReadWatched(k)
      /\ WriteWatched(b) => WriteWatched(k)
      /\ k.wbor = FALSE
  <2>1. /\ TlsOnly(b, k, {"ev", "wbor"}) /\ TlsTyped(k)
        /\ ReadWatched(b) => ReadWatched(k)
        /\ WriteWatched(b) => WriteWatched(k)
        /\ k.wbor = FALSE
    BY <1>1, <1>2, ClearingWriteKeepsWatch
  <2> QED BY <2>1
<1>4. ASSUME NEW d, TlsOpen(d), TlsOnly(b, d, WriteFields), NEW op, c = T!Op(d, op)
      PROVE  TlsOpen(c) /\ TlsOnly(b, c, WriteFields)
  <2>1. TlsOnly(d, c, {})
    BY <1>4, OpChanges DEF TlsOpen
  <2>2. TlsOpen(c)
    BY <1>4, <2>1, TlsSame
  <2>3. TlsOnly(b, c, WriteFields)
    BY <1>4, <2>1 DEF TlsOnly
  <2> QED BY <2>2, <2>3
<1>5. CASE c = T!Op(b, "none")
  BY <1>1, <1>4, <1>5 DEF TlsOnly, TlsTyped
<1>6. ASSUME b.output # 0,
             c = T!Op([k EXCEPT !.output = @ - 1, !.last_write = FALSE], "progress")
      PROVE  TlsOpen(c) /\ TlsOnly(b, c, WriteFields)
  <2>1. PICK d : d = [k EXCEPT !.output = @ - 1, !.last_write = FALSE]
    OBVIOUS
  <2>2. TlsOnly(k, d, {"output"}) /\ d.output = k.output - 1
    BY <1>3, <2>1 DEF TlsTyped, TlsFields, TlsOnly
  <2>3. k.output = b.output /\ b.output \in Nat
    BY <1>1, <1>3 DEF TlsOnly, TlsTyped
  <2>4. d.output \in Nat
    BY <1>6, <2>2, <2>3
  <2>5. TlsTyped(d)
    BY <1>3, <2>2, <2>4 DEF TlsTyped, TlsOnly
  <2>6. ReadWatched(k) => ReadWatched(d)
    BY <2>2 DEF TlsOnly, ReadWatched
  <2>7. WriteWatched(k) => WriteWatched(d)
    <3>1. d.output > 0 => k.output > 0
      BY <2>2, <2>3
    <3>2. d.enabled = k.enabled /\ d.wbor = k.wbor /\ d.ev = k.ev
      BY <2>2 DEF TlsOnly
    <3> QED BY <3>1, <3>2 DEF WriteWatched
  <2>8. TlsCalm(d)
    <3>1. /\ d.wbor = FALSE /\ d.rsusp = b.rsusp /\ d.high = b.high /\ d.input = b.input
      BY <1>3, <2>2 DEF TlsOnly
    <3> QED BY <1>1, <3>1 DEF TlsCalm
  <2>9. Watched(d)
    <3>1. d.closed = b.closed /\ d.spin = b.spin
      BY <1>3, <2>2 DEF TlsOnly
    <3> QED BY <1>1, <1>3, <2>6, <2>7, <3>1 DEF Watched
  <2>10. TlsOpen(d) /\ TlsOnly(b, d, WriteFields)
    BY <1>3, <2>2, <2>5, <2>8, <2>9 DEF TlsOpen, TlsOnly
  <2>11. c = T!Op(d, "progress")
    BY <1>6, <2>1
  <2> QED BY <1>4, <2>10, <2>11
<1>7. CASE c = T!Op([k EXCEPT !.last_write = TRUE], "blocked")
  <2>1. PICK d : d = [k EXCEPT !.last_write = TRUE]
    OBVIOUS
  <2>2. TlsOnly(k, d, {})
    BY <1>3, <2>1 DEF TlsTyped, TlsFields, TlsOnly
  <2>3. TlsCalm(k)
    <3>1. k.wbor = FALSE /\ k.rsusp = b.rsusp /\ k.high = b.high /\ k.input = b.input
      BY <1>3 DEF TlsOnly
    <3> QED BY <1>1, <3>1 DEF TlsCalm
  <2>4. k.closed = b.closed /\ k.spin = b.spin
    BY <1>3 DEF TlsOnly
  <2>5. TlsOpen(k)
    BY <1>1, <1>3, <2>3, <2>4 DEF TlsOpen, Watched
  <2>6. TlsOpen(d)
    BY <2>2, <2>5, TlsSame
  <2>7. TlsOnly(b, d, WriteFields)
    BY <1>3, <2>2 DEF TlsOnly
  <2>8. c = T!Op(d, "blocked")
    BY <1>7, <2>1
  <2> QED BY <1>4, <2>6, <2>7, <2>8
<1>8. ASSUME b.output # 0,
             c = T!Op([(IF b.wbor THEN b ELSE T!set_wbor(b)) EXCEPT !.last_write = TRUE], "blocked")
      PROVE  TlsOpen(c) /\ TlsOnly(b, c, WriteFields)
  <2>1. PICK e : e = IF b.wbor THEN b ELSE T!set_wbor(b)
    OBVIOUS
  <2>2. PICK d : d = [e EXCEPT !.last_write = TRUE]
    OBVIOUS
  <2>3. TlsOpen(e) /\ TlsOnly(b, e, WriteFields)
    <3>1. CASE b.wbor
      BY <1>1, <2>1, <3>1 DEF TlsOnly, TlsTyped
    <3>2. CASE ~b.wbor
      <4>1. /\ TlsOnly(b, e, {"ev", "wbor"}) /\ TlsTyped(e) /\ e.wbor = TRUE
            /\ "R" \in e.ev /\ ("W" \in e.ev <=> b.rbow)
        BY <1>1, <2>1, <3>2, SetsWbor
      <4>2. e.rbow = b.rbow /\ e.output = b.output /\ e.rsusp = b.rsusp /\ e.high = b.high /\ e.input = b.input
        BY <4>1 DEF TlsOnly
      <4>3. TlsCalm(e)
        BY <1>1, <1>8, <4>2 DEF TlsCalm
      <4>4. ReadWatched(e) /\ WriteWatched(e)
        BY <4>1, <4>2 DEF ReadWatched, WriteWatched
      <4>5. TlsOnly(b, e, WriteFields)
        BY <4>1 DEF TlsOnly
      <4> QED BY <4>1, <4>3, <4>4, <4>5 DEF TlsOpen, Watched
    <3> QED BY <3>1, <3>2
  <2>4. TlsOnly(e, d, {})
    BY <2>2, <2>3 DEF TlsOpen, TlsTyped, TlsFields, TlsOnly
  <2>5. TlsOpen(d)
    BY <2>3, <2>4, TlsSame
  <2>6. TlsOnly(b, d, WriteFields)
    BY <2>3, <2>4 DEF TlsOnly
  <2>7. c = T!Op(d, "blocked")
    BY <1>8, <2>1, <2>2
  <2> QED BY <1>4, <2>5, <2>6, <2>7
<1>9. CASE c = T!Op([T!conn_closed(b) EXCEPT !.last_write = FALSE], "blocked")
  <2>1. PICK e : e = T!conn_closed(b)
    OBVIOUS
  <2>2. PICK d : d = [e EXCEPT !.last_write = FALSE]
    OBVIOUS
  <2>3. TlsOpen(e)
    BY <1>1, <2>1, ClosedIsOpen
  <2>4. TlsOnly(b, e, {"ev", "closed"})
    BY <1>1, <2>1, Closes
  <2>5. TlsOnly(e, d, {})
    BY <2>2, <2>3 DEF TlsOpen, TlsTyped, TlsFields, TlsOnly
  <2>6. TlsOpen(d)
    BY <2>3, <2>5, TlsSame
  <2>7. TlsOnly(b, d, WriteFields)
    BY <2>4, <2>5 DEF TlsOnly
  <2>8. c = T!Op(d, "blocked")
    BY <1>9, <2>1, <2>2
  <2> QED BY <1>4, <2>6, <2>7, <2>8
<1>10. \/ c = T!Op(b, "none")
       \/ /\ b.output # 0
          /\ \/ c = T!Op([k EXCEPT !.output = @ - 1, !.last_write = FALSE], "progress")
             \/ c = T!Op([k EXCEPT !.last_write = TRUE], "blocked")
             \/ c = T!Op([(IF b.wbor THEN b ELSE T!set_wbor(b)) EXCEPT !.last_write = TRUE], "blocked")
             \/ c = T!Op([T!conn_closed(b) EXCEPT !.last_write = FALSE], "blocked")
  BY <1>2 DEF T!do_write
<1> QED BY <1>5, <1>6, <1>7, <1>8, <1>9, <1>10

\* The loops of consider_reading and consider_writing.
LEMMA Spinning ==
  ASSUME NEW S, NEW b, \A d \in S : TlsOpen(d) /\ d.state = b.state, NEW c \in T!Spins(S)
  PROVE  TlsOpen(c) /\ c.state = b.state
<1>1. PICK d \in S : c = IF d.op = "none" THEN [d EXCEPT !.spin = TRUE] ELSE d
  BY DEF T!Spins
<1>2. TlsOpen(d) /\ d.state = b.state
  OBVIOUS
<1>3. CASE d.op = "none"
  <2>1. c = [d EXCEPT !.spin = TRUE]
    BY <1>1, <1>3
  <2>2. TlsOnly(d, c, {"spin"}) /\ c.spin = TRUE
    BY <1>2, <2>1 DEF TlsOpen, TlsTyped, TlsFields, TlsOnly
  <2>3. TlsTyped(c) /\ TlsCalm(c)
    BY <1>2, <2>2 DEF TlsOpen, TlsTyped, TlsCalm, TlsOnly
  <2> QED BY <1>2, <2>2, <2>3 DEF TlsOpen, Watched, TlsOnly
<1> QED BY <1>1, <1>2, <1>3

LEMMA DropsRead ==
  ASSUME NEW b, TlsOpen(b), ~b.wbor, NEW c, c = T!DelRead(b)
  PROVE  TlsOpen(c) /\ c.state = b.state
<1>1. CASE b.rsusp \/ "R" \notin b.enabled
  <2>1. TlsOnly(b, c, {"ev"}) /\ TlsTyped(c) /\ c.ev = b.ev \ {"R"}
    BY <1>1, Deletes DEF T!DelRead, TlsOpen
  <2>2. TlsCalm(c)
    BY <2>1 DEF TlsCalm, TlsOnly, TlsOpen
  <2>3. ReadWatched(c)
    BY <1>1, <2>1 DEF ReadWatched, TlsOnly
  <2>4. WriteWatched(b) => WriteWatched(c)
    BY <2>1 DEF WriteWatched, TlsOnly
  <2> QED BY <2>1, <2>2, <2>3, <2>4 DEF TlsOpen, TlsOnly, Watched
<1>2. CASE ~(b.rsusp \/ "R" \notin b.enabled)
  BY <1>2 DEF T!DelRead
<1> QED BY <1>1, <1>2

LEMMA DropsWrite ==
  ASSUME NEW b, TlsOpen(b), ~b.rbow, NEW c, c = T!DelWrite(b)
  PROVE  TlsOpen(c) /\ c.state = b.state
<1>1. CASE b.output = 0 \/ "W" \notin b.enabled
  <2>1. TlsOnly(b, c, {"ev"}) /\ TlsTyped(c) /\ c.ev = b.ev \ {"W"}
    BY <1>1, Deletes DEF T!DelWrite, TlsOpen
  <2>2. TlsCalm(c)
    BY <2>1 DEF TlsCalm, TlsOnly, TlsOpen
  <2>3. ReadWatched(b) => ReadWatched(c)
    BY <2>1 DEF ReadWatched, TlsOnly
  <2>4. WriteWatched(c)
    <3>1. c.enabled = b.enabled /\ c.output = b.output
      BY <2>1 DEF TlsOnly
    <3> QED BY <1>1, <3>1 DEF WriteWatched
  <2> QED BY <2>1, <2>2, <2>3, <2>4 DEF TlsOpen, TlsOnly, Watched
<1>2. CASE ~(b.output = 0 \/ "W" \notin b.enabled)
  BY <1>2 DEF T!DelWrite
<1> QED BY <1>1, <1>2

LEMMA ConsidersReading ==
  ASSUME NEW b, TlsOpen(b), NEW r \in T!consider_reading(b)
  PROVE  TlsOpen(r) /\ r.state = b.state
<1>1. PICK c \in IF b.wbor THEN T!Spins(T!do_write(b)) ELSE {b} :
         r \in IF c.wbor \/ c.spin THEN {c}
               ELSE IF T!bytes_to_read(c) <= 0 THEN {T!DelRead(c)}
               ELSE {T!DelRead(d) : d \in UNION {
                        IF e.op = "progress" /\ ~e.rsusp /\ e.left > 0 THEN T!do_read(e) ELSE {e} :
                        e \in T!do_read(c)}}
  BY DEF T!consider_reading
<1>2. TlsOpen(c) /\ c.state = b.state
  <2>1. CASE b.wbor
    <3>1. \A d \in T!do_write(b) : TlsOpen(d) /\ d.state = b.state
      BY Writes DEF TlsOnly, WriteFields
    <3>2. c \in T!Spins(T!do_write(b))
      BY <2>1
    <3> QED BY <3>1, <3>2, Spinning
  <2>2. CASE ~b.wbor
    BY <2>2
  <2> QED BY <2>1, <2>2
<1>3. CASE c.wbor \/ c.spin
  BY <1>1, <1>2, <1>3
<1>4. CASE ~(c.wbor \/ c.spin) /\ r = T!DelRead(c)
  BY <1>2, <1>4, DropsRead
<1>5. ASSUME ~(c.wbor \/ c.spin), NEW e \in T!do_read(c),
             NEW d \in T!do_read(e) \cup {e}, r = T!DelRead(d)
      PROVE  TlsOpen(r) /\ r.state = b.state
  <2>1. TlsOpen(e) /\ TlsOnly(c, e, ReadFields)
    BY <1>2, <1>5, Reads
  <2>2. e.state = b.state /\ ~e.wbor
    BY <1>2, <1>5, <2>1 DEF TlsOnly, ReadFields
  <2>3. TlsOpen(d) /\ d.state = b.state /\ ~d.wbor
    <3>1. CASE d \in T!do_read(e)
      <4>1. TlsOpen(d) /\ TlsOnly(e, d, ReadFields)
        BY <2>1, <3>1, Reads
      <4> QED BY <2>2, <4>1 DEF TlsOnly, ReadFields
    <3>2. CASE d = e
      BY <2>1, <2>2, <3>2
    <3> QED BY <3>1, <3>2
  <2> QED BY <1>5, <2>3, DropsRead
<1>6. \/ c.wbor \/ c.spin
      \/ ~(c.wbor \/ c.spin) /\ r = T!DelRead(c)
      \/ ~(c.wbor \/ c.spin) /\ \E e \in T!do_read(c) : \E d \in T!do_read(e) \cup {e} : r = T!DelRead(d)
  BY <1>1
<1> QED BY <1>3, <1>4, <1>5, <1>6

LEMMA ConsidersWriting ==
  ASSUME NEW b, TlsOpen(b), NEW r \in T!consider_writing(b)
  PROVE  TlsOpen(r) /\ r.state = b.state
<1>1. PICK c \in IF b.rbow THEN T!Spins(T!do_read(b)) ELSE {b} :
         r \in IF c.rbow \/ c.spin THEN {c} ELSE {T!DelWrite(d) : d \in T!WriteAll(T!Op(c, "no"))}
  BY DEF T!consider_writing
<1>2. TlsOpen(c) /\ c.state = b.state
  <2>1. CASE b.rbow
    <3>1. \A d \in T!do_read(b) : TlsOpen(d) /\ d.state = b.state
      BY Reads DEF TlsOnly, ReadFields
    <3>2. c \in T!Spins(T!do_read(b))
      BY <2>1
    <3> QED BY <3>1, <3>2, Spinning
  <2>2. CASE ~b.rbow
    BY <2>2
  <2> QED BY <2>1, <2>2
<1>3. CASE c.rbow \/ c.spin
  BY <1>1, <1>2, <1>3
<1>4. ASSUME ~(c.rbow \/ c.spin), NEW k, k = T!Op(c, "no"), NEW d \in T!WriteAll(k), r = T!DelWrite(d)
      PROVE  TlsOpen(r) /\ r.state = b.state
  <2>1. TlsOnly(c, k, {})
    BY <1>2, <1>4, OpChanges DEF TlsOpen
  <2>2. TlsOpen(k) /\ k.state = b.state /\ ~k.rbow
    BY <1>2, <1>4, <2>1, TlsSame DEF TlsOnly
  <2>3. ASSUME NEW x, TlsOpen(x) /\ x.state = b.state /\ ~x.rbow, NEW y \in T!do_write(x)
        PROVE  TlsOpen(y) /\ y.state = b.state /\ ~y.rbow
    <3>1. TlsOpen(y) /\ TlsOnly(x, y, WriteFields)
      BY <2>3, Writes
    <3> QED BY <2>3, <3>1 DEF TlsOnly, WriteFields
  <2>4. \E x \in T!do_write(k) \cup {k} : d \in T!do_write(x) \cup {x}
    BY <1>4 DEF T!WriteAll
  <2>5. TlsOpen(d) /\ d.state = b.state /\ ~d.rbow
    BY <2>2, <2>3, <2>4
  <2> QED BY <1>4, <2>5, DropsWrite
<1> QED BY <1>1, <1>3, <1>4

LEMMA TlsEnabling ==
  ASSUME NEW b, TlsTyped(b), NEW D, NEW c, c = T!bufferevent_enable(b, D)
  PROVE  /\ TlsOnly(b, c, {"ev", "enabled"}) /\ TlsTyped(c) /\ c.enabled = b.enabled \cup D
         /\ \A d \in {"R", "W"} : d \in b.ev => d \in c.ev
         /\ "R" \in D /\ ~b.rsusp => "R" \in c.ev /\ (b.rbow => "W" \in c.ev)
         /\ "W" \in D => "W" \in c.ev /\ (b.wbor => "R" \in c.ev)
<1>1. PICK d : d = [b EXCEPT !.enabled = @ \cup D]
  OBVIOUS
<1>2. PICK X : X = IF b.rsusp THEN D \ {"R"} ELSE D
  OBVIOUS
<1>3. c = T!be_openssl_enable(d, X)
  BY <1>1, <1>2 DEF T!bufferevent_enable
<1>4. TlsOnly(b, d, {"enabled"}) /\ d.enabled = b.enabled \cup D
  BY <1>1 DEF TlsTyped, TlsFields, TlsOnly
<1>5. TlsTyped(d)
  BY <1>4 DEF TlsTyped, TlsOnly
<1>6. /\ TlsOnly(d, c, {"ev"}) /\ TlsTyped(c)
      /\ ("R" \in c.ev <=> "R" \in d.ev \/ "R" \in X \/ ("W" \in X /\ d.wbor))
      /\ ("W" \in c.ev <=> "W" \in d.ev \/ "W" \in X \/ ("R" \in X /\ d.rbow))
  BY <1>3, <1>5, TlsEnables
<1>7. /\ TlsOnly(b, c, {"ev", "enabled"}) /\ c.enabled = b.enabled \cup D
      /\ d.ev = b.ev /\ d.wbor = b.wbor /\ d.rbow = b.rbow
  BY <1>4, <1>6 DEF TlsOnly
<1>8. ("W" \in D <=> "W" \in X) /\ ("R" \in D /\ ~b.rsusp => "R" \in X)
  BY <1>2
<1> QED BY <1>6, <1>7, <1>8

LEMMA TlsDisabling ==
  ASSUME NEW b, TlsTyped(b), NEW D, NEW c, c = T!bufferevent_disable(b, D)
  PROVE  /\ TlsOnly(b, c, {"ev", "enabled"}) /\ TlsTyped(c) /\ c.enabled = b.enabled \ D
         /\ ("R" \in c.ev <=> "R" \in b.ev /\ ("R" \notin D \/ b.wbor))
         /\ ("W" \in c.ev <=> "W" \in b.ev /\ ("W" \notin D \/ b.rbow))
<1>1. PICK d : d = [b EXCEPT !.enabled = @ \ D]
  OBVIOUS
<1>2. c = T!be_openssl_disable(d, D)
  BY <1>1 DEF T!bufferevent_disable
<1>3. TlsOnly(b, d, {"enabled"}) /\ d.enabled = b.enabled \ D
  BY <1>1 DEF TlsTyped, TlsFields, TlsOnly
<1>4. TlsTyped(d)
  BY <1>3 DEF TlsTyped, TlsOnly
<1>5. /\ TlsOnly(d, c, {"ev"}) /\ TlsTyped(c)
      /\ ("R" \in c.ev <=> "R" \in d.ev /\ ("R" \notin D \/ d.wbor))
      /\ ("W" \in c.ev <=> "W" \in d.ev /\ ("W" \notin D \/ d.rbow))
  BY <1>2, <1>4, TlsDisables
<1>6. /\ TlsOnly(b, c, {"ev", "enabled"}) /\ c.enabled = b.enabled \ D
      /\ d.ev = b.ev /\ d.wbor = b.wbor /\ d.rbow = b.rbow
  BY <1>3, <1>5 DEF TlsOnly
<1> QED BY <1>5, <1>6

\* bufferevent_enable with what is enabled anyway, from a handshake that is over.
LEMMA OpensAll ==
  ASSUME NEW b, TlsTyped(b), TlsCalm(b), NEW c, c = T!bufferevent_enable(b, b.enabled)
  PROVE  TlsOpen(c) /\ TlsOnly(b, c, {"ev", "enabled"})
<1>1. /\ TlsOnly(b, c, {"ev", "enabled"}) /\ TlsTyped(c) /\ c.enabled = b.enabled \cup b.enabled
      /\ "R" \in b.enabled /\ ~b.rsusp => "R" \in c.ev /\ (b.rbow => "W" \in c.ev)
      /\ "W" \in b.enabled => "W" \in c.ev /\ (b.wbor => "R" \in c.ev)
  BY TlsEnabling
<1>2. c.rsusp = b.rsusp /\ c.rbow = b.rbow /\ c.wbor = b.wbor
  BY <1>1 DEF TlsOnly
<1>3. ReadWatched(c) /\ WriteWatched(c)
  BY <1>1, <1>2 DEF ReadWatched, WriteWatched
<1>4. TlsCalm(c)
  BY <1>1 DEF TlsCalm, TlsOnly
<1> QED BY <1>1, <1>3, <1>4 DEF TlsOpen, Watched

LEMMA Handshakes ==
  ASSUME NEW b, TlsTyped(b), TlsCalm(b), b.state = "CONNECTING", NEW c \in T!do_handshake(b)
  PROVE  TlsSound(c)
<1>1. CASE c = [T!bufferevent_enable([b EXCEPT !.state = "OPEN"], b.enabled) EXCEPT !.want = "no"]
  <2>1. PICK d : d = [b EXCEPT !.state = "OPEN"]
    OBVIOUS
  <2>2. PICK e : e = T!bufferevent_enable(d, d.enabled)
    OBVIOUS
  <2>3. TlsOnly(b, d, {"state"}) /\ d.state = "OPEN"
    BY <2>1 DEF TlsTyped, TlsFields, TlsOnly
  <2>4. TlsTyped(d) /\ TlsCalm(d) /\ d.enabled = b.enabled
    BY <2>3 DEF TlsTyped, TlsCalm, TlsOnly
  <2>5. TlsOpen(e) /\ TlsOnly(d, e, {"ev", "enabled"})
    BY <2>2, <2>4, OpensAll
  <2>6. c = [e EXCEPT !.want = "no"]
    BY <1>1, <2>1, <2>2, <2>4
  <2>7. TlsOnly(e, c, {"want"})
    BY <2>5, <2>6 DEF TlsOpen, TlsTyped, TlsFields, TlsOnly
  <2>8. TlsTyped(c) /\ TlsCalm(c)
    BY <2>5, <2>7 DEF TlsOpen, TlsTyped, TlsCalm, TlsOnly
  <2>9. (ReadWatched(e) => ReadWatched(c)) /\ (WriteWatched(e) => WriteWatched(c))
    BY <2>7 DEF ReadWatched, WriteWatched, TlsOnly
  <2>10. c.state = "OPEN" /\ c.closed = e.closed /\ c.spin = e.spin
    BY <2>3, <2>5, <2>7 DEF TlsOnly
  <2> QED BY <2>5, <2>8, <2>9, <2>10 DEF TlsSound, TlsOpen, Watched
<1>2. CASE c = [T!start_writing(T!stop_reading(b)) EXCEPT !.want = "W"]
  <2>1. PICK d : d = T!stop_reading(b)
    OBVIOUS
  <2>2. PICK e : e = T!start_writing(d)
    OBVIOUS
  <2>3. TlsOnly(b, d, {"ev"}) /\ TlsTyped(d)
    BY <2>1, StopsReading
  <2>4. TlsOnly(d, e, {"ev"}) /\ TlsTyped(e) /\ "W" \in e.ev
    BY <2>2, <2>3, StartsWriting
  <2>5. TlsOnly(e, c, {"want"}) /\ c.want = "W"
    BY <1>2, <2>1, <2>2, <2>4 DEF TlsTyped, TlsFields, TlsOnly
  <2>6. TlsOnly(b, c, {"ev", "want"}) /\ "W" \in c.ev
    BY <2>3, <2>4, <2>5 DEF TlsOnly
  <2>7. TlsTyped(c) /\ TlsCalm(c) /\ c.state = "CONNECTING"
    BY <2>6 DEF TlsTyped, TlsCalm, TlsOnly
  <2> QED BY <2>5, <2>6, <2>7 DEF TlsSound, HandshakeWatched
<1>3. CASE c = [T!start_reading(T!stop_writing(b)) EXCEPT !.want = "R"]
  <2>1. PICK d : d = T!stop_writing(b)
    OBVIOUS
  <2>2. PICK e : e = T!start_reading(d)
    OBVIOUS
  <2>3. TlsOnly(b, d, {"ev"}) /\ TlsTyped(d)
    BY <2>1, StopsWriting
  <2>4. TlsOnly(d, e, {"ev"}) /\ TlsTyped(e) /\ "R" \in e.ev
    BY <2>2, <2>3, StartsReading
  <2>5. TlsOnly(e, c, {"want"}) /\ c.want = "R"
    BY <1>3, <2>1, <2>2, <2>4 DEF TlsTyped, TlsFields, TlsOnly
  <2>6. TlsOnly(b, c, {"ev", "want"}) /\ "R" \in c.ev
    BY <2>3, <2>4, <2>5 DEF TlsOnly
  <2>7. TlsTyped(c) /\ TlsCalm(c) /\ c.state = "CONNECTING"
    BY <2>6 DEF TlsTyped, TlsCalm, TlsOnly
  <2> QED BY <2>5, <2>6, <2>7 DEF TlsSound, HandshakeWatched
<1>4. CASE c = T!conn_closed(b)
  <2>1. TlsOpen(c) /\ c.closed = TRUE
    BY <1>4, ClosedIsOpen, Closes
  <2> QED BY <2>1 DEF TlsOpen, TlsSound
<1> QED BY <1>1, <1>2, <1>3, <1>4 DEF T!do_handshake

LEMMA SetsHandshake ==
  ASSUME NEW b, TlsTyped(b), NEW c, c = T!set_handshake_callbacks(b)
  PROVE  TlsOnly(b, c, {"ev", "enabled"}) /\ TlsTyped(c)
<1>1. PICK d : d = T!event_del(b, {"R", "W"})
  OBVIOUS
<1>2. TlsOnly(b, d, {"ev"}) /\ TlsTyped(d)
  BY <1>1, Deletes
<1>3. c = T!bufferevent_enable(d, b.enabled)
  BY <1>1 DEF T!set_handshake_callbacks
<1>4. TlsOnly(d, c, {"ev", "enabled"}) /\ TlsTyped(c)
  BY <1>2, <1>3, TlsEnabling
<1> QED BY <1>2, <1>4 DEF TlsOnly

\* An open bufferevent is sound, and a sound one that is open is open.
LEMMA OpenIsSound ==
  ASSUME NEW b, b.state = "OPEN"
  PROVE  TlsOpen(b) <=> TlsSound(b)
BY DEF TlsOpen, TlsSound, Watched

LEMMA TlsStep ==
  ASSUME TlsSound(tls), T!Next
  PROVE  TlsSound(tls')
<1>1. TlsTyped(tls) /\ TlsCalm(tls)
  BY DEF TlsSound
<1>2. PICK b : b = T!Counted
  OBVIOUS
<1>3. TlsOnly(tls, b, {}) /\ TlsTyped(b) /\ TlsCalm(b)
  <2>1. TlsOnly(tls, b, {})
    BY <1>1, <1>2 DEF T!Counted, TlsTyped, TlsFields, TlsOnly
  <2> QED BY <1>1, <2>1 DEF TlsTyped, TlsCalm, TlsOnly
<1>4. /\ b.state = tls.state /\ b.closed = tls.closed /\ b.spin = tls.spin
      /\ b.paused = tls.paused /\ b.want = tls.want
  BY <1>3 DEF TlsOnly
<1>5. TlsSound(b)
  BY <1>3 DEF TlsSound, TlsOnly, ReadWatched, WriteWatched, HandshakeWatched
<1>6. ASSUME T!Calls
      PROVE  ~b.closed /\ ~b.spin
  BY <1>4, <1>6 DEF T!Calls, T!Alive
<1>7. CASE T!Enable
  <2>1. PICK d \in {"R", "W"} :
           tls' = [T!bufferevent_enable(b, {d}) EXCEPT
                     !.paused = @ \ (IF tls.rsusp THEN {d} \ {"R"} ELSE {d})]
    BY <1>2, <1>7 DEF T!Enable
  <2>2. PICK c : c = T!bufferevent_enable(b, {d})
    OBVIOUS
  <2>3. /\ TlsOnly(b, c, {"ev", "enabled"}) /\ TlsTyped(c) /\ c.enabled = b.enabled \cup {d}
        /\ \A x \in {"R", "W"} : x \in b.ev => x \in c.ev
        /\ "R" \in {d} /\ ~b.rsusp => "R" \in c.ev /\ (b.rbow => "W" \in c.ev)
        /\ "W" \in {d} => "W" \in c.ev /\ (b.wbor => "R" \in c.ev)
    BY <1>3, <2>2, TlsEnabling
  <2>4. /\ TlsOnly(c, tls', {"paused"})
        /\ tls'.paused = c.paused \ (IF tls.rsusp THEN {d} \ {"R"} ELSE {d})
    BY <2>1, <2>2, <2>3 DEF TlsTyped, TlsFields, TlsOnly
  <2>5. /\ TlsOnly(b, tls', {"ev", "enabled", "paused"}) /\ tls'.ev = c.ev
        /\ tls'.enabled = c.enabled /\ c.paused = b.paused
    BY <2>3, <2>4 DEF TlsOnly
  <2>6. TlsTyped(tls') /\ TlsCalm(tls')
    BY <1>3, <2>5 DEF TlsTyped, TlsCalm, TlsOnly
  <2>7. /\ tls'.rsusp = b.rsusp /\ tls'.rbow = b.rbow /\ tls'.wbor = b.wbor /\ tls'.output = b.output
        /\ tls'.want = b.want /\ tls'.state = b.state /\ b.rsusp = tls.rsusp
    BY <1>3, <2>5 DEF TlsOnly
  <2>8. ReadWatched(b) => ReadWatched(tls')
    BY <2>3, <2>5, <2>7 DEF ReadWatched
  <2>9. WriteWatched(b) => WriteWatched(tls')
    BY <2>3, <2>5, <2>7 DEF WriteWatched
  <2>10. b.rsusp => (b.state = "CONNECTING" /\ HandshakeWatched(b) => HandshakeWatched(tls'))
    BY <2>3, <2>4, <2>5, <2>7 DEF HandshakeWatched
  <2>11. ~b.rsusp => (HandshakeWatched(b) => HandshakeWatched(tls'))
    BY <2>3, <2>4, <2>5, <2>7 DEF HandshakeWatched
  <2>12. ~b.closed /\ ~b.spin
    BY <1>6, <1>7 DEF T!Enable
  <2> QED BY <1>5, <2>6, <2>7, <2>8, <2>9, <2>10, <2>11, <2>12 DEF TlsSound
<1>8. CASE T!Disable
  <2>1. PICK d \in {"R", "W"} :
           tls' = [T!bufferevent_disable(b, {d}) EXCEPT
                     !.paused = IF tls.state = "OPEN" THEN @ ELSE @ \cup {d}]
    BY <1>2, <1>8 DEF T!Disable
  <2>2. PICK c : c = T!bufferevent_disable(b, {d})
    OBVIOUS
  <2>3. /\ TlsOnly(b, c, {"ev", "enabled"}) /\ TlsTyped(c) /\ c.enabled = b.enabled \ {d}
        /\ ("R" \in c.ev <=> "R" \in b.ev /\ ("R" \notin {d} \/ b.wbor))
        /\ ("W" \in c.ev <=> "W" \in b.ev /\ ("W" \notin {d} \/ b.rbow))
    BY <1>3, <2>2, TlsDisabling
  <2>4. /\ TlsOnly(c, tls', {"paused"})
        /\ tls'.paused = IF tls.state = "OPEN" THEN c.paused ELSE c.paused \cup {d}
    BY <2>1, <2>2, <2>3 DEF TlsTyped, TlsFields, TlsOnly
  <2>5. /\ TlsOnly(b, tls', {"ev", "enabled", "paused"}) /\ tls'.ev = c.ev
        /\ tls'.enabled = c.enabled /\ c.paused = b.paused
    BY <2>3, <2>4 DEF TlsOnly
  <2>6. TlsTyped(tls') /\ TlsCalm(tls')
    BY <1>3, <2>5 DEF TlsTyped, TlsCalm, TlsOnly
  <2>7. /\ tls'.rsusp = b.rsusp /\ tls'.rbow = b.rbow /\ tls'.wbor = b.wbor /\ tls'.output = b.output
        /\ tls'.want = b.want /\ tls'.state = b.state
    BY <2>5 DEF TlsOnly
  <2>8. ReadWatched(b) => ReadWatched(tls')
    BY <2>3, <2>5, <2>7 DEF ReadWatched
  <2>9. WriteWatched(b) => WriteWatched(tls')
    BY <2>3, <2>5, <2>7 DEF WriteWatched
  <2>10. b.state = "CONNECTING" /\ HandshakeWatched(b) => HandshakeWatched(tls')
    BY <1>4, <2>3, <2>4, <2>5, <2>7 DEF HandshakeWatched
  <2>11. ~b.closed /\ ~b.spin
    BY <1>6, <1>8 DEF T!Disable
  <2> QED BY <1>5, <2>6, <2>7, <2>8, <2>9, <2>10, <2>11 DEF TlsSound
<1>9. CASE T!Read
  <2>1. PICK n \in 1..tls.input : tls' = T!bufferevent_inbuf_wm_cb([b EXCEPT !.input = @ - n])
    BY <1>2, <1>9 DEF T!Read
  <2>2. PICK d : d = [b EXCEPT !.input = @ - n]
    OBVIOUS
  <2>3. TlsOnly(b, d, {"input"}) /\ d.input = b.input - n
    BY <1>3, <2>2 DEF TlsTyped, TlsFields, TlsOnly
  <2>4. TlsTyped(d)
    BY <1>3, <2>3 DEF TlsTyped, TlsOnly
  <2>5. /\ TlsOnly(d, tls', {"ev", "rsusp"}) /\ TlsTyped(tls')
        /\ tls'.rsusp <=> d.high # 0 /\ d.input >= d.high
        /\ ReadWatched(d) => ReadWatched(tls')
        /\ WriteWatched(d) => WriteWatched(tls')
        /\ (d.rsusp \/ ~tls'.rsusp) => \A x \in {"R", "W"} : x \in d.ev => x \in tls'.ev
    <3>1. tls' = T!bufferevent_inbuf_wm_cb(d)
      BY <2>1, <2>2
    <3> QED BY <2>4, <3>1, MarksReading
  <2>6. /\ TlsOnly(b, tls', {"ev", "rsusp", "input"}) /\ d.rsusp = b.rsusp /\ d.high = b.high /\ d.ev = b.ev
        /\ tls'.high = d.high /\ tls'.input = d.input /\ tls'.wbor = b.wbor /\ tls'.output = b.output
        /\ tls'.want = b.want /\ tls'.paused = b.paused /\ tls'.state = b.state
    BY <2>3, <2>5 DEF TlsOnly
  <2>7. d.rsusp \/ ~tls'.rsusp
    <3>1. (b.rsusp <=> b.high # 0 /\ b.input >= b.high) /\ b.input \in Int /\ b.high \in Int
      BY <1>3 DEF TlsCalm, TlsTyped
    <3>2. d.input <= b.input
      BY <2>3, <3>1
    <3>3. d.high # 0 /\ d.input >= d.high => b.high # 0 /\ b.input >= b.high
      <4>1. d.input \in Int
        BY <2>4 DEF TlsTyped
      <4> QED BY <2>6, <3>1, <3>2, <4>1
    <3> QED BY <2>5, <2>6, <3>1, <3>3
  <2>8. TlsCalm(tls')
    BY <1>3, <2>5, <2>6 DEF TlsCalm
  <2>9. (ReadWatched(b) => ReadWatched(d)) /\ (WriteWatched(b) => WriteWatched(d))
    BY <2>3 DEF ReadWatched, WriteWatched, TlsOnly
  <2>10. HandshakeWatched(b) => HandshakeWatched(tls')
    BY <2>5, <2>6, <2>7 DEF HandshakeWatched
  <2>11. ~b.closed /\ ~b.spin
    BY <1>6, <1>9 DEF T!Read
  <2> QED BY <1>5, <2>5, <2>6, <2>8, <2>9, <2>10, <2>11 DEF TlsSound
<1>10. CASE T!Write
  <2>1. PICK d : d = [b EXCEPT !.output = @ + 1]
    OBVIOUS
  <2>2. tls' = IF d.state = "OPEN" /\ d.output = 1 THEN T!event_add(d, {"W"}) ELSE d
    BY <1>2, <1>10, <2>1 DEF T!Write, T!be_openssl_outbuf_cb
  <2>3. TlsOnly(b, d, {"output"}) /\ d.output = b.output + 1
    BY <1>3, <2>1 DEF TlsTyped, TlsFields, TlsOnly
  <2>4. b.output \in Nat /\ d.output \in Nat /\ d.output # 0
    BY <1>3, <2>3 DEF TlsTyped
  <2>5. /\ TlsOnly(d, tls', {"ev"}) /\ d.ev \subseteq tls'.ev
        /\ d.state = "OPEN" /\ d.output = 1 => "W" \in tls'.ev
    <3>1. CASE d.state = "OPEN" /\ d.output = 1
      <4>1. tls' = [d EXCEPT !.ev = @ \cup {"W"}]
        BY <2>2, <3>1 DEF T!event_add
      <4>2. DOMAIN d = TlsFields
        BY <2>3 DEF TlsOnly
      <4> QED BY <4>1, <4>2 DEF TlsFields, TlsOnly
    <3>2. CASE ~(d.state = "OPEN" /\ d.output = 1)
      <4>1. tls' = d /\ DOMAIN d = TlsFields
        BY <2>2, <2>3, <3>2 DEF TlsOnly
      <4> QED BY <3>2, <4>1 DEF TlsOnly
    <3> QED BY <3>1, <3>2
  <2>6. TlsOnly(b, tls', {"ev", "output"}) /\ tls'.output = d.output /\ d.ev = b.ev /\ d.state = b.state
    BY <2>3, <2>5 DEF TlsOnly
  <2>7. TlsTyped(tls')
    BY <1>3, <2>4, <2>6 DEF TlsTyped, TlsOnly
  <2>8. TlsCalm(tls')
    BY <1>3, <2>4, <2>6 DEF TlsCalm, TlsOnly
  <2>9. /\ tls'.rsusp = b.rsusp /\ tls'.rbow = b.rbow /\ tls'.wbor = b.wbor /\ tls'.enabled = b.enabled
        /\ tls'.want = b.want /\ tls'.paused = b.paused /\ tls'.state = b.state
    BY <2>6 DEF TlsOnly
  <2>10. ReadWatched(b) => ReadWatched(tls')
    BY <2>5, <2>6, <2>9 DEF ReadWatched
  <2>11. HandshakeWatched(b) => HandshakeWatched(tls')
    BY <2>5, <2>6, <2>9 DEF HandshakeWatched
  <2>12. b.state = "OPEN" /\ WriteWatched(b) => WriteWatched(tls')
    <3>1. CASE b.output = 0
      <4>1. b.wbor = FALSE
        BY <1>3, <3>1 DEF TlsCalm, TlsTyped
      <4>2. d.output = 1
        BY <2>3, <3>1
      <4> QED BY <2>5, <2>6, <2>9, <4>1, <4>2 DEF WriteWatched
    <3>2. CASE b.output # 0
      <4>1. b.output > 0
        BY <2>4, <3>2
      <4> QED BY <2>5, <2>6, <2>9, <4>1 DEF WriteWatched
    <3> QED BY <3>1, <3>2
  <2>13. ~b.closed /\ ~b.spin
    BY <1>6, <1>10 DEF T!Write
  <2> QED BY <1>5, <2>7, <2>8, <2>9, <2>10, <2>11, <2>12, <2>13 DEF TlsSound
<1>11. CASE T!bufferevent_ssl_renegotiate
  <2>1. PICK d : d = [b EXCEPT !.state = "CONNECTING", !.paused = {}]
    OBVIOUS
  <2>2. PICK e : e = T!set_handshake_callbacks(d)
    OBVIOUS
  <2>3. tls' \in T!do_handshake(e)
    <3>1. d = [T!Counted EXCEPT !.state = "CONNECTING", !.paused = {}]
      BY <1>2, <2>1
    <3> QED BY <1>11, <2>2, <3>1 DEF T!bufferevent_ssl_renegotiate
  <2>4. TlsOnly(b, d, {"state", "paused"}) /\ d.state = "CONNECTING"
    BY <1>3, <2>1 DEF TlsTyped, TlsFields, TlsOnly
  <2>5. TlsTyped(d) /\ TlsCalm(d)
    BY <1>3, <2>4 DEF TlsTyped, TlsCalm, TlsOnly
  <2>6. TlsOnly(d, e, {"ev", "enabled"}) /\ TlsTyped(e)
    BY <2>2, <2>5, SetsHandshake
  <2>7. TlsCalm(e) /\ e.state = "CONNECTING"
    BY <2>4, <2>5, <2>6 DEF TlsCalm, TlsOnly
  <2> QED BY <2>3, <2>6, <2>7, Handshakes
<1>12. CASE T!be_openssl_handshakeeventcb
  <2>1. PICK d : d = [tls EXCEPT !.op = "no", !.paused = {}]
    OBVIOUS
  <2>2. TlsOnly(tls, d, {"paused"})
    BY <1>1, <2>1 DEF TlsTyped, TlsFields, TlsOnly
  <2>3. TlsTyped(d) /\ TlsCalm(d) /\ d.state = tls.state
    BY <1>1, <2>2 DEF TlsTyped, TlsCalm, TlsOnly
  <2>4. tls' \in T!do_handshake(d) /\ d.state = "CONNECTING"
    BY <1>12, <2>1, <2>3 DEF T!be_openssl_handshakeeventcb
  <2> QED BY <2>3, <2>4, Handshakes
<1>13. ASSUME tls.state = "OPEN", NEW d, d = [tls EXCEPT !.op = "no"]
       PROVE  TlsOpen(d) /\ d.state = "OPEN"
  <2>1. TlsOnly(tls, d, {})
    BY <1>1, <1>13 DEF TlsTyped, TlsFields, TlsOnly
  <2>2. TlsOpen(tls)
    BY <1>13, OpenIsSound
  <2> QED BY <1>13, <2>1, <2>2, TlsSame DEF TlsOnly
<1>14. CASE T!be_openssl_readeventcb
  <2>1. PICK d : d = [tls EXCEPT !.op = "no"]
    OBVIOUS
  <2>2. tls' \in T!consider_reading(d) /\ tls.state = "OPEN"
    BY <1>14, <2>1 DEF T!be_openssl_readeventcb
  <2>3. TlsOpen(tls') /\ tls'.state = "OPEN"
    BY <1>13, <2>1, <2>2, ConsidersReading
  <2> QED BY <2>3, OpenIsSound
<1>15. CASE T!be_openssl_writeeventcb
  <2>1. PICK d : d = [tls EXCEPT !.op = "no"]
    OBVIOUS
  <2>2. tls' \in T!consider_writing(d) /\ tls.state = "OPEN"
    BY <1>15, <2>1 DEF T!be_openssl_writeeventcb
  <2>3. TlsOpen(tls') /\ tls'.state = "OPEN"
    BY <1>13, <2>1, <2>2, ConsidersWriting
  <2> QED BY <2>3, OpenIsSound
<1> QED BY <1>7, <1>8, <1>9, <1>10, <1>11, <1>12, <1>14, <1>15 DEF T!Next

LEMMA TlsStarts ==
  ASSUME TlsMarks \subseteq Nat, T!Init
  PROVE  TlsSound(tls)
<1>1. PICK m, s, b :
         /\ m \in TlsMarks /\ s \in {"CONNECTING", "OPEN"}
         /\ b = [state |-> s, enabled |-> {"W"}, ev |-> {}, rbow |-> FALSE, wbor |-> FALSE,
                 rsusp |-> FALSE, high |-> m, input |-> 0, output |-> 0, left |-> 0,
                 last_write |-> FALSE, closed |-> FALSE, spin |-> FALSE, want |-> "no",
                 op |-> "no", calls |-> TlsCalls, paused |-> {}, hit |-> FALSE]
         /\ tls = IF s = "CONNECTING" THEN T!set_handshake_callbacks(b) ELSE b
  BY DEF T!Init
<1>2. m \in Nat
  BY <1>1
<1>3. /\ DOMAIN b = TlsFields /\ b.high = m /\ b.input = 0 /\ b.output = 0 /\ b.rbow = FALSE /\ b.wbor = FALSE
      /\ b.rsusp = FALSE /\ b.closed = FALSE /\ b.spin = FALSE /\ b.want = "no" /\ b.state = s
      /\ b.enabled = {"W"}
  BY <1>1 DEF TlsFields
<1>4. TlsTyped(b)
  <2>1. b.high \in Int /\ b.input \in Int /\ b.output \in Nat
    BY <1>2, <1>3
  <2> QED BY <1>3, <2>1 DEF TlsTyped
<1>5. TlsCalm(b)
  BY <1>2, <1>3 DEF TlsCalm
<1>6. CASE s = "CONNECTING"
  <2>1. TlsOnly(b, tls, {"ev", "enabled"}) /\ TlsTyped(tls)
    BY <1>1, <1>4, <1>6, SetsHandshake
  <2>2. TlsCalm(tls) /\ tls.want = "no" /\ tls.state = "CONNECTING"
    BY <1>3, <1>5, <1>6, <2>1 DEF TlsCalm, TlsOnly
  <2> QED BY <2>1, <2>2 DEF TlsSound, HandshakeWatched
<1>7. CASE s = "OPEN"
  <2>1. tls = b
    BY <1>1, <1>7
  <2>2. ReadWatched(b) /\ WriteWatched(b)
    BY <1>3 DEF ReadWatched, WriteWatched
  <2> QED BY <1>3, <1>4, <1>5, <1>7, <2>1, <2>2 DEF TlsSound
<1> QED BY <1>1, <1>6, <1>7

LEMMA TlsWatches ==
  ASSUME TlsSound(tls)
  PROVE  T!TlsWatchesWhatItWants
BY DEF TlsSound, T!TlsWatchesWhatItWants, T!Alive, ReadWatched, WriteWatched, HandshakeWatched

------------------------------------------------------------------------------
(* Both, for every part of the suite.                                      *)

LEMMA SockWatches ==
  ASSUME BevSound(bev)
  PROVE  WatchesWhatIsWanted
<1> SUFFICES ASSUME Live(bev)
             PROVE  /\ Core(bev)
                    /\ WritesWanted(bev) \/ bev.running.k = "connected"
  BY DEF WatchesWhatIsWanted, Core, Events, Timed, Marked, Looked, ReadsWanted, Covered, WritesWanted
<1> QED BY DEF BevSound

EventInv == (part = "socket" => BevSound(bev)) /\ (part = "tls" => TlsSound(tls))

LEMMA EventInvariant == SuiteSpec => []EventInv
<1>1. SuiteInit => EventInv
  BY BevStarts, TlsStarts, MarksAssumption DEF SuiteInit, EventInv
<1>2. EventInv /\ [SuiteNext]_<<part, bev, pair, fl, rl, tls, async>> => EventInv'
  <2> SUFFICES ASSUME EventInv, [SuiteNext]_<<part, bev, pair, fl, rl, tls, async>>
               PROVE  EventInv'
    OBVIOUS
  <2>1. CASE UNCHANGED <<part, bev, pair, fl, rl, tls, async>>
    BY <2>1 DEF EventInv
  <2>2. CASE SuiteNext
    <3>1. ASSUME part' = "socket"
          PROVE  BevSound(bev')
      <4>1. part = "socket" /\ Next
        BY <2>2, <3>1 DEF SuiteNext
      <4>2. BevSound(bev)
        BY <4>1 DEF EventInv
      <4>3. (\A m \in Marks : m[2] \in Nat) /\ Cap \in Nat
        BY MarksAssumption
      <4> QED BY <4>1, <4>2, <4>3, ProgramSteps, LoopSteps DEF Next
    <3>2. ASSUME part' = "tls"
          PROVE  TlsSound(tls')
      <4>1. part = "tls" /\ T!Next
        BY <2>2, <3>2 DEF SuiteNext
      <4> QED BY <4>1, TlsStep DEF EventInv
    <3> QED BY <3>1, <3>2 DEF EventInv
  <2> QED BY <2>1, <2>2
<1> QED BY <1>1, <1>2, PTL DEF SuiteSpec

\* The loop watches what is enabled and not suspended, what a connection attempt and what
\* the TLS engine wait for, and nothing else that would read past a high mark: whatever the
\* order of enabling, suspending, connecting, handshaking, draining and freeing was, for
\* buffers and watermarks of any size, with callbacks direct or deferred.
THEOREM EventsAlwaysFollowState == SuiteSpec => []EventsFollowState
<1>1. EventInv => EventsFollowState
  BY SockWatches, TlsWatches DEF EventInv, EventsFollowState
<1> QED BY <1>1, EventInvariant, PTL
=============================================================================
