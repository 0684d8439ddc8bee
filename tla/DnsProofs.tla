------------------------------ MODULE DnsProofs ------------------------------
(***************************************************************************)
(* Proofs about the parts of evdns.c, for every value of their constants:  *)
(* the ports of a server (EvdnsServer), evdns_getaddrinfo, and what the    *)
(* proofs about the client (EvdnsProofs) say of its parts one by one.      *)
(***************************************************************************)
EXTENDS MCDns, FiniteSetTheorems, WellFoundedInduction, TLAPS

-----------------------------------------------------------------------------
(* Natural numbers.                                                        *)

\* Induction, with the property given as the set of the numbers that have it.
LEMMA StrongInduction ==
  ASSUME NEW W, \A n \in Nat : (\A m \in 0 .. (n - 1) : m \in W) => n \in W
  PROVE  Nat \subseteq W
<1> DEFINE T == Nat \ W
           R == OpToRel(<, Nat)
<1> SUFFICES ASSUME T # {} PROVE FALSE
  OBVIOUS
<1>1. \A x, y \in Nat : x < y <=> <<x, y>> \in R
  BY DEF OpToRel
<1>2. \E x \in T : \A y \in T : ~(<<y, x>> \in R)
  BY NatLessThanWellFounded, WFMin
<1> HIDE DEF R
<1>3. PICK x \in T : \A y \in T : ~(<<y, x>> \in R)
  BY <1>2
<1>4. x \in Nat /\ x \notin W /\ \A m \in 0 .. (x - 1) : m \in W
  <2>1. x \in Nat /\ x \notin W
    BY <1>3
  <2>2. ASSUME NEW m \in 0 .. (x - 1), m \notin W PROVE FALSE
    <3>1. m \in Nat /\ m < x /\ m \in T
      BY <2>1, <2>2
    <3> HIDE DEF T
    <3> QED BY <1>1, <1>3, <2>1, <3>1
  <2> QED BY <2>1, <2>2
<1> QED BY <1>4

-----------------------------------------------------------------------------
(* The server: the list of pending replies.                                *)

Distinct(s) == \A i, j \in 1 .. Len(s) : s[i] = s[j] => i = j
Lists(s, r) == \E i \in 1 .. Len(s) : s[i] = r

\* server_request_free unlinks a reply and keeps the order of the others.
LEMMA UnlinkedFacts ==
  ASSUME NEW X, NEW s \in Seq(X), Distinct(s), NEW r, NEW t, t = S!Unlinked(s, r)
  PROVE  /\ t \in Seq(X) /\ Distinct(t)
         /\ \A x : Lists(t, x) <=> Lists(s, x) /\ x # r
<1>1. CASE ~Lists(s, r)
  BY <1>1 DEF S!Unlinked, Lists
<1>2. CASE Lists(s, r)
  <2>1. PICK i : i = CHOOSE j \in 1 .. Len(s) : s[j] = r
    OBVIOUS
  <2>2. i \in 1 .. Len(s) /\ s[i] = r
    BY <1>2, <2>1 DEF Lists
  <2>3. t = [j \in 1 .. Len(s) - 1 |-> IF j < i THEN s[j] ELSE s[j + 1]]
    BY <1>2, <2>1, Zenon DEF S!Unlinked, Lists
  <2>4. Len(s) \in Nat /\ \A j \in 1 .. Len(s) : s[j] \in X
    OBVIOUS
  <2>5. t \in Seq(X) /\ Len(t) = Len(s) - 1
    BY <2>2, <2>3, <2>4
  <2>6. \A j \in 1 .. Len(t) : t[j] = IF j < i THEN s[j] ELSE s[j + 1]
    BY <2>3, <2>5
  <2>7. Distinct(t)
    BY <2>2, <2>4, <2>5, <2>6 DEF Distinct
  <2>8. ASSUME NEW x PROVE Lists(t, x) <=> Lists(s, x) /\ x # r
    <3>1. ASSUME Lists(t, x) PROVE Lists(s, x) /\ x # r
      BY <2>2, <2>4, <2>5, <2>6, <3>1 DEF Lists, Distinct
    <3>2. ASSUME Lists(s, x), x # r PROVE Lists(t, x)
      <4>1. PICK k \in 1 .. Len(s) : s[k] = x
        BY <3>2 DEF Lists
      <4>2. CASE k < i
        BY <4>1, <4>2, <2>2, <2>4, <2>5, <2>6 DEF Lists
      <4>3. CASE k > i
        <5>1. k - 1 \in 1 .. Len(t) /\ t[k - 1] = s[k]
          BY <4>1, <4>3, <2>2, <2>4, <2>5, <2>6
        <5> QED BY <5>1, <4>1 DEF Lists
      <4> QED BY <4>1, <4>2, <4>3, <3>2, <2>2, <2>4
    <3> QED BY <3>1, <3>2
  <2> QED BY <2>5, <2>7, <2>8
<1> QED BY <1>1, <1>2

LEMMA ReleasesSteps ==
  ASSUME NEW p, NEW n,
         \E g : g = [i \in 0 .. n |-> IF i = 0 THEN p ELSE S!Release(g[i - 1], p.pending[i])]
  PROVE  S!Releases(p, n) = [i \in 0 .. n |->
            IF i = 0 THEN p ELSE S!Release(S!Releases(p, n)[i - 1], p.pending[i])]
BY DEF S!Releases

\* A walk of n steps exists, whatever function makes the steps.
LEMMA WalkExists ==
  ASSUME NEW B, NEW b \in B, NEW n \in Nat, NEW F \in [1 .. n -> [B -> B]]
  PROVE  \E g \in [0 .. n -> B] : g[0] = b /\ \A i \in 1 .. n : g[i] = F[i][g[i - 1]]
<1> DEFINE Walk(m) == \E g \in [0 .. m -> B] : g[0] = b /\ \A i \in 1 .. m : g[i] = F[i][g[i - 1]]
           W == {m \in Nat : m =< n => Walk(m)}
<1>1. ASSUME NEW m \in Nat, \A k \in 0 .. (m - 1) : k \in W PROVE m \in W
  <2>1. CASE m = 0
    <3>1. [i \in 0 .. m |-> b] \in [0 .. m -> B]
      OBVIOUS
    <3>2. [i \in 0 .. m |-> b][0] = b /\ 1 .. m = {}
      BY <2>1
    <3>3. Walk(m)
      BY <3>1, <3>2
    <3> QED BY <3>3
  <2>2. CASE m > n
    BY <2>2
  <2>3. CASE m > 0 /\ m =< n
    <3>1. m - 1 \in Nat /\ m - 1 \in 0 .. (m - 1) /\ m - 1 =< n
      BY <2>3
    <3>2. Walk(m - 1)
      BY <1>1, <3>1
    <3>3. PICK g \in [0 .. (m - 1) -> B] : g[0] = b /\ \A i \in 1 .. (m - 1) : g[i] = F[i][g[i - 1]]
      BY <3>2
    <3> DEFINE h == [i \in 0 .. m |-> IF i < m THEN g[i] ELSE F[m][g[m - 1]]]
    <3>4. F[m][g[m - 1]] \in B
      <4>1. g[m - 1] \in B /\ m \in 1 .. n
        BY <2>3, <3>1
      <4>2. F[m] \in [B -> B]
        BY <4>1
      <4> QED BY <4>1, <4>2
    <3>5. h \in [0 .. m -> B]
      <4>1. \A i \in 0 .. m : i < m => i \in 0 .. (m - 1)
        BY <2>3
      <4> QED BY <3>4, <4>1
    <3>6. h[0] = b
      BY <2>3, <3>3
    <3>7. ASSUME NEW i \in 1 .. m PROVE h[i] = F[i][h[i - 1]]
      <4>1. i \in 0 .. m /\ i - 1 \in 0 .. m /\ i - 1 < m
        BY <2>3
      <4>2. h[i - 1] = g[i - 1]
        BY <4>1
      <4>3. CASE i = m
        BY <4>1, <4>2, <4>3
      <4>4. CASE i < m
        <5>1. i \in 1 .. (m - 1) /\ h[i] = g[i]
          BY <4>1, <4>4
        <5> QED BY <3>3, <4>2, <5>1
      <4> QED BY <4>1, <4>3, <4>4
    <3> HIDE DEF h
    <3>8. Walk(m)
      BY <3>5, <3>6, <3>7
    <3> QED BY <3>8
  <2> QED BY <2>1, <2>2, <2>3
<1> HIDE DEF W
<1>2. Nat \subseteq W
  BY <1>1, StrongInduction
<1>3. n \in W
  BY <1>2
<1> QED BY <1>3 DEF W

-----------------------------------------------------------------------------
(* The server: a port and the requests that refer to it.                   *)

PortType == [refcnt : Nat, closing : BOOLEAN, choked : BOOLEAN, event : SUBSET {"READ", "WRITE"},
             pending : Seq(Requests), freed : BOOLEAN]
Owners == {"net", "user", "pending", "gone"}
OutOf(own) == {r \in Requests : own[r] \in {"user", "pending"}}
Refs(p) == IF p.closing THEN 0 ELSE 1

\* What PortOutlivesRequests says of port p, owners own and counts snt, with the
\* types, and no reply in the list twice.
PortOK(p, own, snt) ==
  /\ p \in PortType
  /\ own \in [Requests -> Owners]
  /\ snt \in [Requests -> Nat]
  /\ Distinct(p.pending)
  /\ p.refcnt = Cardinality(OutOf(own)) + Refs(p)
  /\ p.freed <=> p.refcnt = 0
  /\ \A r : Lists(p.pending, r) <=> (r \in Requests /\ own[r] = "pending")
  /\ p.pending # <<>> => "WRITE" \in p.event
  /\ \A r \in Requests : snt[r] =< 1 /\ (snt[r] = 1 => own[r] = "gone")

ServerInv == PortOK(port, owner, sends)

LEMMA NothingListed ==
  ASSUME NEW X, NEW s \in Seq(X)
  PROVE  (s = <<>>) <=> \A r : ~Lists(s, r)
<1>1. Len(s) \in Nat /\ (s = <<>> <=> Len(s) = 0)
  OBVIOUS
<1>2. CASE Len(s) = 0
  BY <1>1, <1>2 DEF Lists
<1>3. CASE Len(s) > 0
  <2>1. 1 \in 1 .. Len(s)
    BY <1>1, <1>3
  <2>2. Lists(s, s[1])
    BY <2>1 DEF Lists
  <2> QED BY <1>1, <1>3, <2>2
<1> QED BY <1>1, <1>2, <1>3

\* The module of the server counts with the same operator.
LEMMA SameCardinality ==
  \A X : S!Cardinality(X) = Cardinality(X)
BY DEF S!Cardinality, Cardinality

LEMMA ServerInvImplies ==
  ASSUME ServerInv
  PROVE  S!PortOutlivesRequests
<1>1. port.pending \in Seq(Requests) /\ DOMAIN port.pending = 1 .. Len(port.pending)
  BY DEF ServerInv, PortOK, PortType
<1>2. {port.pending[i] : i \in DOMAIN port.pending} = {r \in Requests : owner[r] = "pending"}
  BY <1>1 DEF ServerInv, PortOK, Lists
<1>3. OutOf(owner) = S!Outstanding
  BY DEF OutOf, S!Outstanding
<1>4. port.refcnt = S!Cardinality(S!Outstanding) + (IF port.closing THEN 0 ELSE 1)
  BY <1>3, SameCardinality DEF ServerInv, PortOK, Refs
<1>5. port.freed <=> port.refcnt = 0
  BY DEF ServerInv, PortOK
<1>6. port.pending # <<>> => "WRITE" \in port.event
  BY DEF ServerInv, PortOK
<1>7. \A r \in Requests : sends[r] =< 1 /\ (sends[r] = 1 => owner[r] = "gone")
  BY DEF ServerInv, PortOK
<1> QED BY <1>2, <1>4, <1>5, <1>6, <1>7, Zenon DEF S!PortOutlivesRequests

\* A request that is given up leaves one less that refers to the port.
LEMMA OneLess ==
  ASSUME IsFiniteSet(Requests), NEW own \in [Requests -> Owners], NEW r \in Requests,
         own[r] \in {"user", "pending"}, NEW new, new = [own EXCEPT ![r] = "gone"]
  PROVE  /\ new \in [Requests -> Owners]
         /\ Cardinality(OutOf(new)) = Cardinality(OutOf(own)) - 1
         /\ Cardinality(OutOf(own)) \in Nat /\ Cardinality(OutOf(own)) > 0
<1>1. new \in [Requests -> Owners]
  BY DEF Owners
<1>2. OutOf(new) = OutOf(own) \ {r} /\ r \in OutOf(own)
  BY DEF OutOf
<1>3. IsFiniteSet(OutOf(own))
  BY FS_Subset DEF OutOf
<1>4. Cardinality(OutOf(new)) = Cardinality(OutOf(own)) - 1
  BY <1>2, <1>3, FS_RemoveElement
<1>5. Cardinality(OutOf(own)) \in Nat /\ Cardinality(OutOf(new)) \in Nat
  BY <1>2, <1>3, FS_CardinalityType, FS_RemoveElement
<1> QED BY <1>1, <1>4, <1>5

\* server_request_free keeps the invariant, also when it frees the port.
LEMMA ReleaseOK ==
  ASSUME IsFiniteSet(Requests), NEW p, NEW own, NEW snt, PortOK(p, own, snt),
         NEW r \in Requests, own[r] \in {"user", "pending"}, NEW q, q = S!Release(p, r),
         NEW new, new = [own EXCEPT ![r] = "gone"],
         NEW s2, s2 \in {snt, [snt EXCEPT ![r] = @ + 1]}
  PROVE  PortOK(q, new, s2) /\ p.refcnt > 0
<1> DEFINE w == [p EXCEPT !.refcnt = @ - 1, !.pending = S!Unlinked(@, r)]
<1>1. /\ new \in [Requests -> Owners]
      /\ Cardinality(OutOf(new)) = Cardinality(OutOf(own)) - 1
      /\ Cardinality(OutOf(own)) \in Nat /\ Cardinality(OutOf(own)) > 0
  BY OneLess DEF PortOK
<1>2. Refs(p) \in Nat
  BY DEF Refs
<1>3. p.refcnt - 1 \in Nat /\ p.refcnt - 1 = Cardinality(OutOf(new)) + Refs(p)
  BY <1>1, <1>2 DEF PortOK
<1> DEFINE u == S!Unlinked(p.pending, r)
<1>4. u \in Seq(Requests) /\ Distinct(u) /\ \A x : Lists(u, x) <=> Lists(p.pending, x) /\ x # r
  <2>1. p.pending \in Seq(Requests) /\ Distinct(p.pending)
    BY DEF PortOK, PortType
  <2> QED BY <2>1, UnlinkedFacts
<1>5. p \in PortType
  BY DEF PortOK
<1>6. /\ q \in PortType /\ q.pending = u /\ q.refcnt = p.refcnt - 1
      /\ q.closing = p.closing
      /\ q.freed = IF p.refcnt - 1 = 0 THEN TRUE ELSE p.freed
      /\ q.event = IF p.refcnt - 1 = 0 THEN {} ELSE p.event
  <2> HIDE DEF u
  <2>1. q = IF p.refcnt - 1 = 0
            THEN [p EXCEPT !.refcnt = p.refcnt - 1, !.pending = u, !.freed = TRUE, !.event = {}]
            ELSE [p EXCEPT !.refcnt = p.refcnt - 1, !.pending = u]
    BY <1>5 DEF S!Release, u, PortType
  <2> QED BY <1>3, <1>4, <1>5, <2>1 DEF PortType
<1> HIDE DEF u
<1>7. q.freed <=> q.refcnt = 0
  BY <1>3, <1>6 DEF PortOK
<1>8. \A x : Lists(q.pending, x) <=> (x \in Requests /\ new[x] = "pending")
  BY <1>4, <1>6 DEF PortOK
<1>9. q.pending # <<>> => "WRITE" \in q.event
  <2>1. ASSUME q.pending # <<>> PROVE p.pending # <<>> /\ p.refcnt - 1 # 0
    <3>1. PICK x : Lists(q.pending, x)
      BY <1>4, <1>6, <2>1, NothingListed
    <3>2. Lists(p.pending, x)
      BY <1>4, <1>6, <3>1
    <3>3. p.pending # <<>>
      BY <3>2, NothingListed DEF PortOK, PortType
    <3>4. x \in OutOf(new)
      BY <1>8, <3>1 DEF OutOf
    <3>5. IsFiniteSet(OutOf(new))
      BY FS_Subset DEF OutOf
    <3>6. Cardinality(OutOf(new)) # 0 /\ Cardinality(OutOf(new)) \in Nat
      BY <3>4, <3>5, FS_EmptySet, FS_CardinalityType
    <3> QED BY <1>2, <1>3, <3>3, <3>6
  <2> QED BY <1>6, <2>1 DEF PortOK
<1>10. s2 \in [Requests -> Nat] /\ \A x \in Requests : s2[x] =< 1 /\ (s2[x] = 1 => new[x] = "gone")
  <2>1. snt[r] = 0
    BY DEF PortOK
  <2>2. ASSUME NEW x \in Requests PROVE s2[x] =< 1 /\ (s2[x] = 1 => new[x] = "gone")
    BY <2>1 DEF PortOK
  <2>3. s2 \in [Requests -> Nat]
    BY DEF PortOK
  <2> QED BY <2>2, <2>3
<1>11. Refs(q) = Refs(p)
  BY <1>6 DEF Refs
<1>12. q.refcnt = Cardinality(OutOf(new)) + Refs(q)
  BY <1>3, <1>6, <1>11
<1>13. Distinct(q.pending)
  BY <1>4, <1>6
<1>14. p.refcnt > 0
  BY <1>3, <1>5 DEF PortType
<1> QED BY <1>1, <1>6, <1>7, <1>8, <1>9, <1>10, <1>12, <1>13, <1>14 DEF PortOK

\* The owners and the counts after the first n replies of list s went out or were
\* lost.
OwnersAfter(s, n, own) == [r \in Requests |-> IF \E i \in 1 .. n : s[i] = r THEN "gone" ELSE own[r]]
SendsAfter(s, n, lost, snt) ==
  [r \in Requests |-> IF \E i \in 1 .. n \ lost : s[i] = r THEN snt[r] + 1 ELSE snt[r]]

\* server_port_flush, up to n replies: the port that is left is sound, and what it
\* still lists are the replies behind them.
LEMMA ReleasesOK ==
  ASSUME IsFiniteSet(Requests), NEW p, NEW own, NEW snt, PortOK(p, own, snt),
         NEW n \in 0 .. Len(p.pending), NEW lost \in SUBSET (1 .. n)
  PROVE  PortOK(S!Releases(p, n)[n], OwnersAfter(p.pending, n, own),
                SendsAfter(p.pending, n, lost, snt))
<1> DEFINE s == p.pending
           f == S!Releases(p, n)
<1>1. s \in Seq(Requests) /\ Len(s) \in Nat /\ n \in Nat /\ \A i \in 1 .. n : i \in 1 .. Len(s) /\ s[i] \in Requests
  <2>1. s \in Seq(Requests) /\ Len(s) \in Nat
    BY DEF PortOK, PortType
  <2>2. \A i \in 1 .. n : i \in 1 .. Len(s)
    BY <2>1
  <2> QED BY <2>1, <2>2
<1>2. f = [i \in 0 .. n |-> IF i = 0 THEN p ELSE S!Release(f[i - 1], s[i])]
  <2> DEFINE B == [refcnt : Int, closing : BOOLEAN, choked : BOOLEAN, event : SUBSET {"READ", "WRITE"},
                   pending : {t \in Seq(Requests) : Distinct(t)}, freed : BOOLEAN]
             F == [i \in 1 .. n |-> [b \in B |-> S!Release(b, s[i])]]
  <2>1. ASSUME NEW b \in B, NEW r PROVE S!Release(b, r) \in B
    <3>1. S!Unlinked(b.pending, r) \in {t \in Seq(Requests) : Distinct(t)}
      <4>1. b.pending \in Seq(Requests) /\ Distinct(b.pending)
        OBVIOUS
      <4> QED BY <4>1, UnlinkedFacts
    <3> DEFINE u == S!Unlinked(b.pending, r)
               L == {t \in Seq(Requests) : Distinct(t)}
    <3>2. S!Release(b, r) = IF b.refcnt - 1 = 0
            THEN [b EXCEPT !.refcnt = b.refcnt - 1, !.pending = u, !.freed = TRUE, !.event = {}]
            ELSE [b EXCEPT !.refcnt = b.refcnt - 1, !.pending = u]
      BY DEF S!Release
    <3>3. u \in L /\ b \in [refcnt : Int, closing : BOOLEAN, choked : BOOLEAN,
                             event : SUBSET {"READ", "WRITE"}, pending : L, freed : BOOLEAN]
      BY <3>1
    <3> HIDE DEF u, L
    <3>4. b.refcnt - 1 \in Int
      BY <3>3
    <3>5. S!Release(b, r) \in [refcnt : Int, closing : BOOLEAN, choked : BOOLEAN,
                               event : SUBSET {"READ", "WRITE"}, pending : L, freed : BOOLEAN]
      BY <3>2, <3>3, <3>4
    <3> QED BY <3>5 DEF L
  <2>2. p \in B
    BY DEF PortOK, PortType
  <2> HIDE DEF B
  <2>3. F \in [1 .. n -> [B -> B]]
    BY <2>1
  <2>4. PICK g \in [0 .. n -> B] : g[0] = p /\ \A i \in 1 .. n : g[i] = F[i][g[i - 1]]
    <3> HIDE DEF F
    <3> QED BY <1>1, <2>2, <2>3, WalkExists
  <2>5. ASSUME NEW i \in 0 .. n, i # 0 PROVE g[i] = S!Release(g[i - 1], s[i])
    <3>1. i \in 1 .. n /\ i - 1 \in 0 .. n
      BY <1>1, <2>5
    <3>2. g[i - 1] \in B
      BY <3>1
    <3> QED BY <2>4, <3>1, <3>2
  <2>6. g = [i \in 0 .. n |-> IF i = 0 THEN p ELSE S!Release(g[i - 1], s[i])]
    BY <2>4, <2>5
  <2> QED BY <2>6, ReleasesSteps
<1> HIDE DEF f
<1> DEFINE Sound(i) == PortOK(f[i], OwnersAfter(s, i, own), SendsAfter(s, i, lost, snt))
           W == {i \in Nat : i =< n => Sound(i)}
<1>3. ASSUME NEW i \in Nat, \A k \in 0 .. (i - 1) : k \in W PROVE i \in W
  <2>1. CASE i > n
    BY <2>1
  <2>2. CASE i = 0
    <3>1. f[0] = p
      BY <1>1, <1>2
    <3>2. OwnersAfter(s, 0, own) = own
      BY DEF OwnersAfter, PortOK
    <3>3. SendsAfter(s, 0, lost, snt) = snt
      BY DEF SendsAfter, PortOK
    <3>4. Sound(0)
      BY <3>1, <3>2, <3>3
    <3> QED BY <2>2, <3>4
  <2>3. CASE i > 0 /\ i =< n
    <3>1. i - 1 \in 0 .. (i - 1) /\ i - 1 =< n /\ i \in 0 .. n /\ i \in 1 .. n
      BY <1>1, <2>3
    <3>2. Sound(i - 1)
      BY <1>3, <3>1
    <3>3. f[i] = S!Release(f[i - 1], s[i])
      BY <1>2, <2>3, <3>1
    <3>4. s[i] \in Requests /\ own[s[i]] = "pending"
      <4>1. Lists(s, s[i])
        BY <1>1, <3>1 DEF Lists
      <4> QED BY <4>1 DEF PortOK
    <3>5. ~\E k \in 1 .. (i - 1) : s[k] = s[i]
      <4>1. \A k \in 1 .. (i - 1) : k \in 1 .. Len(s) /\ k # i
        BY <1>1, <3>1
      <4> QED BY <1>1, <3>1, <4>1 DEF PortOK, Distinct
    <3>6. OwnersAfter(s, i - 1, own)[s[i]] = "pending"
      BY <3>4, <3>5 DEF OwnersAfter
    <3>7. \A k \in 1 .. i : k \in 1 .. (i - 1) \/ k = i
      BY <2>3
    <3>8. \A k \in 1 .. (i - 1) : k \in 1 .. i
      BY <2>3
    <3>9. i \in 1 .. i
      BY <2>3
    <3>10. OwnersAfter(s, i, own) = [OwnersAfter(s, i - 1, own) EXCEPT ![s[i]] = "gone"]
      BY <3>4, <3>7, <3>8, <3>9 DEF OwnersAfter
    <3>11. SendsAfter(s, i, lost, snt) \in
             {SendsAfter(s, i - 1, lost, snt), [SendsAfter(s, i - 1, lost, snt) EXCEPT ![s[i]] = @ + 1]}
      <4>1. CASE i \in lost
        <5>1. \A k \in Nat : (k \in 1 .. i \ lost) <=> (k \in 1 .. (i - 1) \ lost)
          BY <3>7, <3>8, <4>1
        <5>2. 1 .. i \ lost = 1 .. (i - 1) \ lost
          BY <3>7, <3>8, <4>1
        <5> QED BY <5>2 DEF SendsAfter
      <4>2. CASE i \notin lost
        <5>1. 1 .. i \ lost = ((1 .. (i - 1)) \ lost) \cup {i}
          BY <3>7, <3>8, <3>9, <4>2
        <5>2. ~\E k \in 1 .. (i - 1) \ lost : s[k] = s[i]
          BY <3>5
        <5>3. SendsAfter(s, i, lost, snt) = [SendsAfter(s, i - 1, lost, snt) EXCEPT ![s[i]] = @ + 1]
          BY <3>4, <5>1, <5>2 DEF SendsAfter
        <5> QED BY <5>3
      <4> QED BY <4>1, <4>2
    <3>12. Sound(i)
      BY <3>2, <3>3, <3>4, <3>6, <3>10, <3>11, ReleaseOK
    <3> QED BY <3>12
  <2> QED BY <1>1, <2>1, <2>2, <2>3
<1> HIDE DEF W
<1>4. Nat \subseteq W
  BY <1>3, StrongInduction
<1>5. n \in W
  BY <1>1, <1>4
<1> QED BY <1>1, <1>5 DEF W, f

\* AfterFlush is a flush of a sound port.
LEMMA FlushOK ==
  ASSUME IsFiniteSet(Requests), NEW p, NEW own, NEW snt, PortOK(p, own, snt),
         NEW n \in 0 .. Len(p.pending), NEW lost \in SUBSET (1 .. n),
         S!AfterFlush(p, n, lost, own, snt)
  PROVE  ServerInv'
<1> DEFINE q == S!Releases(p, n)[n]
<1>1. PortOK(q, OwnersAfter(p.pending, n, own), SendsAfter(p.pending, n, lost, snt))
  BY ReleasesOK
<1>2. owner' = OwnersAfter(p.pending, n, own) /\ sends' = SendsAfter(p.pending, n, lost, snt)
  BY DEF S!AfterFlush, OwnersAfter, SendsAfter
<1>3. port' = IF q.freed \/ q.pending # <<>> THEN q ELSE [q EXCEPT !.event = {"READ"}]
  BY DEF S!AfterFlush, S!FlushFirst
<1> HIDE DEF q
<1>4. PortOK(q, owner', sends')
  BY <1>1, <1>2
<1>5. CASE q.freed \/ q.pending # <<>>
  BY <1>3, <1>4, <1>5 DEF ServerInv
<1>6. CASE ~q.freed /\ q.pending = <<>>
  <2>1. port' = [q EXCEPT !.event = {"READ"}] /\ q \in PortType
    BY <1>3, <1>4, <1>6 DEF PortOK
  <2>2. /\ port' \in PortType /\ port'.refcnt = q.refcnt /\ port'.closing = q.closing
        /\ port'.freed = q.freed /\ port'.pending = q.pending
    BY <2>1 DEF PortType
  <2>3. Refs(port') = Refs(q)
    BY <2>2 DEF Refs
  <2>4. PortOK(port', owner', sends')
    BY <1>4, <1>6, <2>2, <2>3 DEF PortOK
  <2> QED BY <2>4 DEF ServerInv
<1> QED BY <1>5, <1>6

LEMMA ServerInit ==
  ASSUME IsFiniteSet(Requests), S!Init
  PROVE  ServerInv
<1>1. port \in PortType /\ port.pending = <<>> /\ port.refcnt = 1 /\ port.closing = FALSE /\ port.freed = FALSE
  BY DEF S!Init, PortType
<1>2. owner \in [Requests -> Owners] /\ OutOf(owner) = {} /\ \A r \in Requests : owner[r] = "net"
  BY DEF S!Init, Owners, OutOf
<1>3. sends \in [Requests -> Nat] /\ \A r \in Requests : sends[r] = 0
  BY DEF S!Init
<1>4. Cardinality(OutOf(owner)) = 0
  BY <1>2, FS_EmptySet
<1>5. Refs(port) = 1
  BY <1>1 DEF Refs
<1>6. Distinct(port.pending) /\ \A r : ~Lists(port.pending, r)
  BY <1>1 DEF Distinct, Lists
<1> QED BY <1>1, <1>2, <1>3, <1>4, <1>5, <1>6 DEF ServerInv, PortOK

LEMMA ReadOK ==
  ASSUME IsFiniteSet(Requests), ServerInv, NEW r \in Requests, S!server_port_read(r)
  PROVE  ServerInv'
<1>1. /\ owner[r] = "net" /\ port \in PortType /\ port' = [port EXCEPT !.refcnt = @ + 1]
      /\ owner \in [Requests -> Owners] /\ owner' = [owner EXCEPT ![r] = "user"] /\ sends' = sends
  BY DEF S!server_port_read, ServerInv, PortOK
<1>2. /\ port' \in PortType /\ port'.refcnt = port.refcnt + 1 /\ port'.closing = port.closing
      /\ port'.freed = port.freed /\ port'.pending = port.pending /\ port'.event = port.event
  BY <1>1 DEF PortType
<1>3. owner' \in [Requests -> Owners] /\ OutOf(owner') = OutOf(owner) \cup {r} /\ r \notin OutOf(owner)
  BY <1>1 DEF OutOf, Owners
<1>4. IsFiniteSet(OutOf(owner))
  BY FS_Subset DEF OutOf
<1>5. Cardinality(OutOf(owner')) = Cardinality(OutOf(owner)) + 1 /\ Cardinality(OutOf(owner)) \in Nat
  BY <1>3, <1>4, FS_AddElement, FS_CardinalityType
<1>6. Refs(port') = Refs(port) /\ Refs(port) \in Nat
  BY <1>2 DEF Refs
<1>7. port.refcnt \in Nat /\ port'.freed = FALSE
  BY <1>1, <1>2 DEF PortType, S!server_port_read
<1>8. port'.refcnt = Cardinality(OutOf(owner')) + Refs(port') /\ port'.refcnt # 0
  BY <1>2, <1>5, <1>6, <1>7 DEF ServerInv, PortOK
<1>9. \A x : Lists(port'.pending, x) <=> (x \in Requests /\ owner'[x] = "pending")
  BY <1>1, <1>2 DEF ServerInv, PortOK
<1>10. \A x \in Requests : sends'[x] =< 1 /\ (sends'[x] = 1 => owner'[x] = "gone")
  BY <1>1 DEF ServerInv, PortOK
<1> QED BY <1>1, <1>2, <1>3, <1>7, <1>8, <1>9, <1>10 DEF ServerInv, PortOK

LEMMA ReadBadOK ==
  ASSUME ServerInv, NEW r \in Requests, S!server_port_read_bad(r)
  PROVE  ServerInv'
<1>1. /\ owner[r] = "net" /\ port' = port /\ sends' = sends
      /\ owner \in [Requests -> Owners] /\ owner' = [owner EXCEPT ![r] = "gone"]
  BY DEF S!server_port_read_bad, ServerInv, PortOK
<1>2. owner' \in [Requests -> Owners] /\ OutOf(owner') = OutOf(owner)
  BY <1>1 DEF OutOf, Owners
<1>3. \A x : Lists(port.pending, x) <=> (x \in Requests /\ owner'[x] = "pending")
  BY <1>1 DEF ServerInv, PortOK
<1>4. \A x \in Requests : sends[x] =< 1 /\ (sends[x] = 1 => owner'[x] = "gone")
  BY <1>1 DEF ServerInv, PortOK
<1> QED BY <1>1, <1>2, <1>3, <1>4 DEF ServerInv, PortOK

LEMMA RespondSentOK ==
  ASSUME IsFiniteSet(Requests), ServerInv, NEW r \in Requests, S!respond_sent(r)
  PROVE  ServerInv'
<1> DEFINE p == S!Release(port, r)
           own == [owner EXCEPT ![r] = "gone"]
           snt == [sends EXCEPT ![r] = @ + 1]
<1>1. PortOK(p, own, snt)
  BY ReleaseOK DEF ServerInv, S!respond_sent
<1>2. \/ port' = p /\ owner' = own /\ sends' = snt
      \/ \E n \in 0 .. Len(p.pending) : \E lost \in SUBSET (1 .. n) : S!AfterFlush(p, n, lost, own, snt)
  BY DEF S!respond_sent
<1> HIDE DEF p, own, snt
<1>3. CASE port' = p /\ owner' = own /\ sends' = snt
  BY <1>1, <1>3 DEF ServerInv
<1>4. CASE \E n \in 0 .. Len(p.pending) : \E lost \in SUBSET (1 .. n) : S!AfterFlush(p, n, lost, own, snt)
  BY <1>1, <1>4, FlushOK
<1> QED BY <1>2, <1>3, <1>4

LEMMA RespondFailedOK ==
  ASSUME IsFiniteSet(Requests), ServerInv, NEW r \in Requests, S!respond_failed(r)
  PROVE  ServerInv'
<1>1. /\ owner[r] = "user" /\ sends' = sends /\ port \in PortType
      /\ owner \in [Requests -> Owners] /\ owner' = [owner EXCEPT ![r] = "pending"]
  BY DEF S!respond_failed, ServerInv, PortOK
<1>2. owner' \in [Requests -> Owners] /\ OutOf(owner') = OutOf(owner)
  BY <1>1 DEF OutOf, Owners
<1>3. port.pending \in Seq(Requests) /\ Len(port.pending) \in Nat
  BY <1>1 DEF PortType
<1>4. ~Lists(port.pending, r)
  BY <1>1 DEF ServerInv, PortOK
<1> DEFINE s == Append(port.pending, r)
<1>5. /\ port' \in PortType /\ port'.refcnt = port.refcnt /\ port'.closing = port.closing
      /\ port'.freed = port.freed /\ port'.pending = s
      /\ port.pending # <<>> => port'.event = port.event
      /\ port.pending = <<>> => "WRITE" \in port'.event
  <2>1. CASE port.pending # <<>>
    <3>1. s \in Seq(Requests) /\ port' = [port EXCEPT !.pending = s]
      BY <1>1, <1>3, <2>1 DEF S!respond_failed, PortType
    <3> HIDE DEF s
    <3> QED BY <1>1, <2>1, <3>1 DEF PortType
  <2>2. CASE port.pending = <<>>
    <3> DEFINE e == {"WRITE"} \cup (IF port.closing THEN {} ELSE {"READ"})
    <3>1. s = <<r>> /\ s \in Seq(Requests) /\ e \in SUBSET {"READ", "WRITE"} /\ "WRITE" \in e
      BY <1>3, <2>2
    <3>2. port' = [port EXCEPT !.pending = s, !.choked = TRUE, !.event = e]
      BY <2>2, <3>1 DEF S!respond_failed
    <3> HIDE DEF e, s
    <3> QED BY <1>1, <2>2, <3>1, <3>2 DEF PortType
  <2> QED BY <2>1, <2>2
<1>6. Len(s) = Len(port.pending) + 1 /\ s[Len(port.pending) + 1] = r
      /\ \A i \in 1 .. Len(port.pending) : s[i] = port.pending[i]
  BY <1>3
<1>7. \A x : Lists(s, x) <=> (Lists(port.pending, x) \/ x = r)
  <2>1. \A i \in 1 .. Len(s) : i \in 1 .. Len(port.pending) \/ i = Len(port.pending) + 1
    BY <1>3, <1>6
  <2>2. Len(port.pending) + 1 \in 1 .. Len(s) /\ \A i \in 1 .. Len(port.pending) : i \in 1 .. Len(s)
    BY <1>3, <1>6
  <2> HIDE DEF s
  <2> QED BY <1>6, <2>1, <2>2 DEF Lists
<1>8. Distinct(s)
  <2>1. \A i \in 1 .. Len(s) : i \in 1 .. Len(port.pending) \/ i = Len(port.pending) + 1
    BY <1>3, <1>6
  <2>2. \A i \in 1 .. Len(port.pending) : port.pending[i] # r
    BY <1>4 DEF Lists
  <2>3. Distinct(port.pending)
    BY DEF ServerInv, PortOK
  <2> HIDE DEF s
  <2> QED BY <1>6, <2>1, <2>2, <2>3 DEF Distinct
<1> HIDE DEF s
<1>9. \A x : Lists(port'.pending, x) <=> (x \in Requests /\ owner'[x] = "pending")
  BY <1>1, <1>5, <1>7 DEF ServerInv, PortOK
<1>10. \A x \in Requests : sends'[x] =< 1 /\ (sends'[x] = 1 => owner'[x] = "gone")
  BY <1>1 DEF ServerInv, PortOK
<1>11. Refs(port') = Refs(port)
  BY <1>5 DEF Refs
<1>12. "WRITE" \in port'.event
  BY <1>5 DEF ServerInv, PortOK
<1>13. port'.refcnt = Cardinality(OutOf(owner')) + Refs(port') /\ (port'.freed <=> port'.refcnt = 0)
  BY <1>2, <1>5, <1>11 DEF ServerInv, PortOK
<1>14. sends' \in [Requests -> Nat] /\ Distinct(port'.pending)
  BY <1>1, <1>5, <1>8 DEF ServerInv, PortOK
<1> QED BY <1>2, <1>5, <1>9, <1>10, <1>12, <1>13, <1>14 DEF ServerInv, PortOK

LEMMA CloseOK ==
  ASSUME IsFiniteSet(Requests), ServerInv, S!evdns_close_server_port
  PROVE  ServerInv'
<1>1. /\ port \in PortType /\ ~port.freed /\ ~port.closing /\ owner' = owner /\ sends' = sends
      /\ port.refcnt = Cardinality(OutOf(owner)) + 1 /\ (port.freed <=> port.refcnt = 0)
      /\ (port.pending # <<>> => "WRITE" \in port.event)
  BY DEF S!evdns_close_server_port, ServerInv, PortOK, Refs
<1>2. IsFiniteSet(OutOf(owner)) /\ Cardinality(OutOf(owner)) \in Nat
  <2>1. IsFiniteSet(OutOf(owner))
    BY FS_Subset DEF OutOf
  <2> QED BY <2>1, FS_CardinalityType
<1>3. /\ port' \in PortType /\ port'.refcnt = port.refcnt - 1 /\ port'.closing = TRUE
      /\ port'.pending = port.pending
      /\ port.refcnt = 1 => port'.freed = TRUE
      /\ port.refcnt # 1 => port'.freed = port.freed /\ port'.event = port.event
  <2>1. port.refcnt \in Nat /\ port.refcnt - 1 \in Nat
    BY <1>1, <1>2
  <2>2. CASE port.refcnt = 1
    <3>1. port' = [port EXCEPT !.refcnt = 0, !.freed = TRUE, !.event = {}, !.closing = TRUE]
      BY <2>2 DEF S!evdns_close_server_port
    <3>2. port' \in PortType /\ port'.refcnt = 0 /\ port'.closing = TRUE /\ port'.pending = port.pending
          /\ port'.freed = TRUE
      BY <1>1, <3>1 DEF PortType
    <3> QED BY <2>2, <3>2
  <2>3. CASE port.refcnt # 1
    BY <1>1, <2>1, <2>3 DEF S!evdns_close_server_port, PortType
  <2> QED BY <2>2, <2>3
<1>4. Refs(port') = 0
  BY <1>3 DEF Refs
<1>5. port'.refcnt = Cardinality(OutOf(owner)) + Refs(port') /\ (port'.freed <=> port'.refcnt = 0)
  BY <1>1, <1>2, <1>3, <1>4
<1>6. port'.pending # <<>> => "WRITE" \in port'.event
  <2>1. ASSUME port.refcnt = 1, port.pending # <<>> PROVE FALSE
    <3>1. OutOf(owner) = {}
      BY <1>1, <1>2, <2>1, FS_EmptySet
    <3>2. PICK x : Lists(port.pending, x)
      BY <1>1, <2>1, NothingListed DEF PortType
    <3>3. x \in OutOf(owner)
      BY <3>2 DEF OutOf, ServerInv, PortOK
    <3> QED BY <3>1, <3>3
  <2> QED BY <1>1, <1>3, <2>1
<1> QED BY <1>1, <1>3, <1>5, <1>6 DEF ServerInv, PortOK

LEMMA WritableOK ==
  ASSUME IsFiniteSet(Requests), ServerInv, S!server_port_writable
  PROVE  ServerInv'
<1> DEFINE p == [port EXCEPT !.choked = FALSE]
<1>1. /\ p \in PortType /\ p.refcnt = port.refcnt /\ p.closing = port.closing
      /\ p.freed = port.freed /\ p.pending = port.pending /\ p.event = port.event
  BY DEF ServerInv, PortOK, PortType
<1>2. PICK n \in 0 .. Len(p.pending) : \E lost \in SUBSET (1 .. n) : S!AfterFlush(p, n, lost, owner, sends)
  BY <1>1 DEF S!server_port_writable
<1> HIDE DEF p
<1>3. Refs(p) = Refs(port)
  BY <1>1 DEF Refs
<1>4. PortOK(p, owner, sends)
  BY <1>1, <1>3 DEF ServerInv, PortOK
<1> QED BY <1>2, <1>4, FlushOK

LEMMA ServerStep ==
  ASSUME IsFiniteSet(Requests), ServerInv, S!Next \/ UNCHANGED svars
  PROVE  ServerInv'
<1>1. ASSUME NEW r \in Requests, S!respond_again(r) PROVE ServerInv'
  BY <1>1 DEF S!respond_again, ServerInv
<1>2. ASSUME NEW r \in Requests, S!evdns_server_request_drop(r) PROVE ServerInv'
  <2>1. PortOK(port', owner', sends)
    BY <1>2, ReleaseOK DEF S!evdns_server_request_drop, ServerInv
  <2> QED BY <1>2, <2>1 DEF S!evdns_server_request_drop, ServerInv
<1>3. CASE UNCHANGED svars
  BY <1>3 DEF svars, ServerInv
<1>4. CASE S!Next
  BY <1>1, <1>2, <1>4, ReadOK, ReadBadOK, RespondSentOK, RespondFailedOK, CloseOK, WritableOK DEF S!Next
<1> QED BY <1>3, <1>4

\* A port of evdns.c outlives the requests read from it and is freed when it is
\* closed and the last of them is answered or dropped; every reply is sent at most
\* once, and a queued one has the port waiting for EV_WRITE; for any finite number
\* of requests.
THEOREM PortsOutliveRequests ==
  ASSUME IsFiniteSet(Requests)
  PROVE  SuiteSpec => []PortOutlivesRequests
<1>1. SuiteInit => ServerInv
  BY ServerInit DEF SuiteInit
<1>2. ServerInv /\ [SuiteNext]_<<part, base, gvars, svars>> => ServerInv'
  <2>1. SuiteNext => S!Next \/ UNCHANGED svars
    BY DEF SuiteNext
  <2>2. UNCHANGED <<part, base, gvars, svars>> => UNCHANGED svars
    OBVIOUS
  <2> QED BY <2>1, <2>2, ServerStep
<1>3. ServerInv => PortOutlivesRequests
  BY ServerInvImplies DEF PortOutlivesRequests
<1> QED BY <1>1, <1>2, <1>3, PTL DEF SuiteSpec

-----------------------------------------------------------------------------
(* Getaddrinfo: what the resolver has settled.                             *)

Sub == {"v4", "v6"}
Entries == Sub \X G!Results
FirstsOf(s) == {s[i][1] : i \in 1 .. Len(s)}
OncePerRequest(s) == \A i, j \in 1 .. Len(s) : s[i][1] = s[j][1] => i = j
HasCancel(s) == \E i \in 1 .. Len(s) : s[i][2] = "CANCEL"

DataType == [alive : BOOLEAN, r : SUBSET Sub, user_cb : BOOLEAN, pending_result : SUBSET Sub,
             pending_error : BOOLEAN, timeout : BOOLEAN, evdns_base : BOOLEAN,
             user_canceled : BOOLEAN, request_done : BOOLEAN]
CallType == [err : {"ok", "failed", "canceled"}, addrs : SUBSET Sub, now : BOOLEAN]

LookupTypes ==
  /\ asked \in SUBSET Sub /\ settled \in Seq(Entries) /\ told \in SUBSET Sub
  /\ data \in DataType /\ calls \in Seq(CallType) /\ answered \in SUBSET Sub
  /\ resolver \in {"open", "shut"} /\ dangling \in BOOLEAN

\* The subrequests are out, settled or told, each of them once.
SubrequestsOnce ==
  /\ asked \cap FirstsOf(settled) = {} /\ OncePerRequest(settled)
  /\ data.r = asked \cup FirstsOf(settled)
  /\ told \cap data.r = {}
  /\ answered \subseteq told
  /\ data.alive <=> data.r # {}

\* Who was called back, who waits, and what is kept for the callback.
CallbackState ==
  /\ data.timeout => data.user_cb /\ data.alive
  /\ data.timeout \/ ~data.user_cb => data.r # Sub
  /\ Len(calls) =< 1
  /\ told # {} /\ ~data.alive => Len(calls) = 1
  /\ data.alive => (data.user_cb <=> calls = <<>>)
  /\ data.pending_result \subseteq answered
  /\ data.alive /\ calls = <<>> /\ (data.timeout \/ ~data.user_canceled)
       => data.pending_result = answered
  /\ data.alive /\ ~data.user_canceled /\ HasCancel(settled) => ~data.user_cb

LookupInv ==
  /\ LookupTypes
  /\ G!AddressesAreHandedOver
  /\ ~dangling => SubrequestsOnce /\ CallbackState

LEMMA ConcatFacts ==
  ASSUME NEW X, NEW s \in Seq(X), NEW t \in Seq(X)
  PROVE  /\ s \o t \in Seq(X) /\ Len(s \o t) = Len(s) + Len(t) /\ Len(s) \in Nat /\ Len(t) \in Nat
         /\ \A i \in 1 .. Len(t) : (s \o t)[Len(s) + i] = t[i]
OBVIOUS

LEMMA OneAtMost ==
  ASSUME NEW X, NEW s \in Seq(X), Len(s) =< 1, s # <<>>
  PROVE  Len(s) = 1
<1>1. Len(s) \in Nat /\ Len(s) # 0
  OBVIOUS
<1> QED BY <1>1

LEMMA FirstsOfConcat ==
  ASSUME NEW s \in Seq(Entries), NEW t \in Seq(Entries), NEW u, u = s \o t
  PROVE  /\ u \in Seq(Entries)
         /\ FirstsOf(u) = FirstsOf(s) \cup FirstsOf(t)
         /\ HasCancel(u) <=> HasCancel(s) \/ HasCancel(t)
         /\ OncePerRequest(s) /\ OncePerRequest(t) /\ FirstsOf(s) \cap FirstsOf(t) = {} => OncePerRequest(u)
<1>1. u \in Seq(Entries) /\ Len(u) = Len(s) + Len(t) /\ Len(s) \in Nat /\ Len(t) \in Nat
  OBVIOUS
<1>2. \A i \in 1 .. Len(s) : u[i] = s[i] /\ i \in 1 .. Len(u)
  OBVIOUS
<1>3. \A i \in 1 .. Len(t) : u[Len(s) + i] = t[i] /\ Len(s) + i \in 1 .. Len(u)
  OBVIOUS
<1>4. \A i \in 1 .. Len(u) : i \in 1 .. Len(s) \/ \E j \in 1 .. Len(t) : i = Len(s) + j
  <2>1. ASSUME NEW i \in 1 .. Len(u), i \notin 1 .. Len(s) PROVE i - Len(s) \in 1 .. Len(t) /\ i = Len(s) + (i - Len(s))
    BY <1>1, <2>1
  <2> QED BY <2>1
<1> HIDE DEF Entries
<1>5. FirstsOf(u) = FirstsOf(s) \cup FirstsOf(t)
  <2>1. ASSUME NEW i \in 1 .. Len(u) PROVE u[i][1] \in FirstsOf(s) \cup FirstsOf(t)
    <3>1. CASE i \in 1 .. Len(s)
      <4>1. u[i] = s[i]
        BY <1>2, <3>1
      <4> QED BY <3>1, <4>1 DEF FirstsOf
    <3>2. CASE \E j \in 1 .. Len(t) : i = Len(s) + j
      <4>1. PICK j \in 1 .. Len(t) : i = Len(s) + j
        BY <3>2
      <4>2. u[i] = t[j]
        BY <1>3, <4>1
      <4> QED BY <4>2 DEF FirstsOf
    <3> QED BY <1>4, <3>1, <3>2
  <2>2. \A i \in 1 .. Len(s) : s[i][1] \in FirstsOf(u)
    BY <1>2 DEF FirstsOf
  <2>3. \A i \in 1 .. Len(t) : t[i][1] \in FirstsOf(u)
    BY <1>3 DEF FirstsOf
  <2>4. FirstsOf(u) \subseteq FirstsOf(s) \cup FirstsOf(t)
    BY <2>1 DEF FirstsOf
  <2>5. FirstsOf(s) \subseteq FirstsOf(u) /\ FirstsOf(t) \subseteq FirstsOf(u)
    BY <2>2, <2>3 DEF FirstsOf
  <2> QED BY <2>4, <2>5
<1>6. HasCancel(u) <=> HasCancel(s) \/ HasCancel(t)
  <2>1. ASSUME NEW i \in 1 .. Len(u), u[i][2] = "CANCEL" PROVE HasCancel(s) \/ HasCancel(t)
    BY <1>2, <1>3, <1>4, <2>1 DEF HasCancel
  <2>2. HasCancel(s) => HasCancel(u)
    BY <1>2 DEF HasCancel
  <2>3. HasCancel(t) => HasCancel(u)
    BY <1>3 DEF HasCancel
  <2> QED BY <2>1, <2>2, <2>3 DEF HasCancel
<1>7. ASSUME OncePerRequest(s), OncePerRequest(t), FirstsOf(s) \cap FirstsOf(t) = {} PROVE OncePerRequest(u)
  <2>1. \A i \in 1 .. Len(s), j \in 1 .. Len(t) : s[i][1] # t[j][1]
    BY <1>7 DEF FirstsOf
  <2> SUFFICES ASSUME NEW i \in 1 .. Len(u), NEW j \in 1 .. Len(u), u[i][1] = u[j][1] PROVE i = j
    BY DEF OncePerRequest
  <2>2. CASE i \in 1 .. Len(s) /\ j \in 1 .. Len(s)
    BY <1>2, <1>7, <2>2 DEF OncePerRequest
  <2>3. CASE i \in 1 .. Len(s) /\ j \notin 1 .. Len(s)
    BY <1>2, <1>3, <1>4, <2>1, <2>3
  <2>4. CASE i \notin 1 .. Len(s) /\ j \in 1 .. Len(s)
    BY <1>2, <1>3, <1>4, <2>1, <2>4
  <2>5. CASE i \notin 1 .. Len(s) /\ j \notin 1 .. Len(s)
    <3>1. PICK k \in 1 .. Len(t), l \in 1 .. Len(t) : i = Len(s) + k /\ j = Len(s) + l
      BY <1>4, <2>5
    <3>2. k = l
      BY <1>3, <1>7, <3>1 DEF OncePerRequest
    <3> QED BY <3>1, <3>2
  <2> QED BY <2>2, <2>3, <2>4, <2>5
<1> QED BY <1>1, <1>5, <1>6, <1>7

LEMMA FirstsOfTail ==
  ASSUME NEW s \in Seq(Entries), s # <<>>, OncePerRequest(s)
  PROVE  /\ s[1] \in Entries /\ s[1][1] \in Sub /\ s[1][2] \in G!Results
         /\ Tail(s) \in Seq(Entries) /\ OncePerRequest(Tail(s))
         /\ FirstsOf(Tail(s)) = FirstsOf(s) \ {s[1][1]} /\ s[1][1] \in FirstsOf(s)
         /\ HasCancel(Tail(s)) => HasCancel(s)
         /\ s[1][2] = "CANCEL" => HasCancel(s)
<1>1. Len(s) \in Nat /\ Len(s) > 0 /\ 1 \in 1 .. Len(s) /\ s[1] \in Entries
  OBVIOUS
<1>2. s[1][1] \in Sub /\ s[1][2] \in G!Results
  BY <1>1 DEF Entries
<1> DEFINE t == Tail(s)
<1>3. t \in Seq(Entries) /\ Len(t) = Len(s) - 1 /\ \A i \in 1 .. Len(t) : t[i] = s[i + 1] /\ i + 1 \in 1 .. Len(s)
  BY <1>1
<1>4. \A i \in 1 .. Len(s) : i # 1 => i - 1 \in 1 .. Len(t) /\ t[i - 1] = s[i]
  BY <1>1, <1>3
<1> HIDE DEF t
<1>5. OncePerRequest(t)
  BY <1>3, SMTT(30) DEF OncePerRequest
<1>6. s[1][1] \notin FirstsOf(t)
  <2>1. \A i \in 1 .. Len(t) : i + 1 # 1
    OBVIOUS
  <2> QED BY <1>1, <1>3, <2>1 DEF FirstsOf, OncePerRequest
<1>7. FirstsOf(t) \subseteq FirstsOf(s)
  BY <1>3 DEF FirstsOf
<1>8. FirstsOf(s) \subseteq FirstsOf(t) \cup {s[1][1]}
  BY <1>4 DEF FirstsOf
<1>9. s[1][1] \in FirstsOf(s)
  BY <1>1 DEF FirstsOf
<1>10. (HasCancel(t) => HasCancel(s)) /\ (s[1][2] = "CANCEL" => HasCancel(s))
  BY <1>1, <1>3 DEF HasCancel
<1>11. FirstsOf(t) = FirstsOf(s) \ {s[1][1]}
  BY <1>6, <1>7, <1>8
<1> QED BY <1>1, <1>2, <1>3, <1>5, <1>9, <1>10, <1>11 DEF t

LEMMA SubCounts ==
  /\ Cardinality({"v4"}) = 1 /\ Cardinality({"v6"}) = 1 /\ Cardinality(Sub) = 2
  /\ \A f : Cardinality({f}) = 1
  /\ \A R \in SUBSET Sub : R = {} \/ R = {"v4"} \/ R = {"v6"} \/ R = Sub
<1>1. \A f : Cardinality({f}) = 1
  BY FS_Singleton
<1>2. Cardinality({"v4"} \cup {"v6"}) = Cardinality({"v4"}) + 1
  <2>1. "v6" \notin {"v4"} /\ IsFiniteSet({"v4"})
    BY FS_Singleton
  <2> QED BY <2>1, FS_AddElement
<1>3. {"v4"} \cup {"v6"} = Sub
  BY DEF Sub
<1>4. \A R \in SUBSET Sub : R = {} \/ R = {"v4"} \/ R = {"v6"} \/ R = Sub
  BY DEF Sub
<1>5. Cardinality(Sub) = 2
  BY <1>1, <1>2, <1>3
<1> QED BY <1>1, <1>4, <1>5

\* The entries that settle the requests of R, each once.
LEMMA SettledEntries ==
  ASSUME NEW R \in SUBSET Sub, R # {}, NEW s \in [1 .. Cardinality(R) -> R \X G!Results],
         {s[i][1] : i \in DOMAIN s} = R
  PROVE  s \in Seq(Entries) /\ FirstsOf(s) = R /\ OncePerRequest(s) /\ Len(s) = Cardinality(R)
<1>1. Cardinality(R) \in {1, 2}
  BY SubCounts
<1>2. s \in Seq(Entries) /\ Len(s) = Cardinality(R)
  <2>1. s \in [1 .. Cardinality(R) -> Entries]
    BY DEF Entries
  <2> QED BY <1>1, <2>1
<1>3. DOMAIN s = 1 .. Cardinality(R)
  OBVIOUS
<1>4. FirstsOf(s) = R
  BY <1>2, <1>3 DEF FirstsOf
<1>5. OncePerRequest(s)
  <2>1. CASE Cardinality(R) = 1
    BY <1>2, <2>1 DEF OncePerRequest
  <2>2. CASE Cardinality(R) = 2
    <3>1. R = Sub
      BY <2>2, SubCounts
    <3>2. s[1][1] # s[2][1]
      <4>1. FirstsOf(s) = {s[1][1], s[2][1]}
        <5>1. 1 .. Len(s) = {1, 2}
          BY <1>2, <2>2
        <5> QED BY <5>1 DEF FirstsOf
      <4>2. "v4" \in FirstsOf(s) /\ "v6" \in FirstsOf(s) /\ "v4" # "v6"
        BY <1>4, <3>1 DEF Sub
      <4> QED BY <4>1, <4>2
    <3> QED BY <1>2, <2>2, <3>2 DEF OncePerRequest
  <2> QED BY <1>1, <2>1, <2>2
<1> QED BY <1>2, <1>4, <1>5

\* evdns_cancel_request for each subrequest of R that has no result yet.
LEMMA CancelledEntries ==
  ASSUME asked \in SUBSET Sub, NEW R \in SUBSET Sub, NEW s, s = G!Cancelled(R)
  PROVE  s \in Seq(Entries) /\ FirstsOf(s) = R \cap asked /\ OncePerRequest(s)
<1> DEFINE C == R \cap asked
<1>1. s = [i \in 1 .. Cardinality(C) |-> <<IF "v4" \in C /\ i = 1 THEN "v4" ELSE "v6", "CANCEL">>]
  <2>1. \A X : G!Cardinality(X) = Cardinality(X)
    BY DEF G!Cardinality, Cardinality
  <2> QED BY <2>1 DEF G!Cancelled
<1>2. C \in SUBSET Sub
  OBVIOUS
<1> HIDE DEF C
<1>3. "CANCEL" \in G!Results
  BY DEF G!Results
<1>4. CASE C = {}
  <2>1. Cardinality(C) = 0
    BY <1>4, FS_EmptySet
  <2>2. s = <<>>
    BY <1>1, <2>1
  <2>3. FirstsOf(s) = {} /\ OncePerRequest(s)
    BY <2>2 DEF FirstsOf, OncePerRequest
  <2> QED BY <1>4, <2>2, <2>3 DEF C
<1>5. ASSUME C # {} PROVE s \in [1 .. Cardinality(C) -> C \X G!Results] /\ {s[i][1] : i \in DOMAIN s} = C
  <2>1. CASE C = {"v4"}
    <3>1. Cardinality(C) = 1
      BY <2>1, SubCounts
    <3>2. 1 .. Cardinality(C) = {1}
      BY <3>1
    <3>3. s = [i \in {1} |-> <<"v4", "CANCEL">>]
      BY <1>1, <2>1, <3>2
    <3> QED BY <1>3, <2>1, <3>2, <3>3
  <2>2. CASE C = {"v6"}
    <3>1. Cardinality(C) = 1
      BY <2>2, SubCounts
    <3>2. 1 .. Cardinality(C) = {1}
      BY <3>1
    <3>3. s = [i \in {1} |-> <<"v6", "CANCEL">>]
      BY <1>1, <2>2, <3>2
    <3> QED BY <1>3, <2>2, <3>2, <3>3
  <2>3. CASE C = Sub
    <3>1. Cardinality(C) = 2
      BY <2>3, SubCounts
    <3>2. 1 .. Cardinality(C) = {1, 2}
      BY <3>1
    <3>3. s = [i \in {1, 2} |-> <<IF i = 1 THEN "v4" ELSE "v6", "CANCEL">>]
      BY <1>1, <2>3, <3>2 DEF Sub
    <3>4. s[1] = <<"v4", "CANCEL">> /\ s[2] = <<"v6", "CANCEL">> /\ DOMAIN s = {1, 2}
      BY <3>3
    <3>5. {s[i][1] : i \in DOMAIN s} = C
      BY <2>3, <3>4 DEF Sub
    <3>6. s \in [1 .. Cardinality(C) -> C \X G!Results]
      BY <1>3, <2>3, <3>2, <3>3 DEF Sub
    <3> QED BY <3>5, <3>6
  <2> QED BY <1>2, <1>5, <2>1, <2>2, <2>3, SubCounts
<1>6. CASE C # {}
  BY <1>2, <1>5, <1>6, SettledEntries DEF C
<1> QED BY <1>4, <1>6


-----------------------------------------------------------------------------
(* Getaddrinfo: each step keeps the invariant.                             *)

LEMMA NoFirsts == FirstsOf(<<>>) = {} /\ OncePerRequest(<<>>) /\ ~HasCancel(<<>>)
BY DEF FirstsOf, OncePerRequest, HasCancel

LEMMA FirstsEmpty ==
  ASSUME NEW s \in Seq(Entries), FirstsOf(s) = {}
  PROVE  s = <<>>
<1>1. Len(s) \in Nat /\ (Len(s) = 0 => s = <<>>)
  OBVIOUS
<1>2. ASSUME Len(s) > 0 PROVE FALSE
  <2>1. 1 \in 1 .. Len(s)
    BY <1>1, <1>2
  <2>2. s[1][1] \in FirstsOf(s)
    BY <2>1 DEF FirstsOf
  <2> QED BY <2>2
<1> QED BY <1>1, <1>2

LEMMA NoDataType ==
  /\ G!NoData \in DataType /\ ~G!NoData.alive /\ G!NoData.r = {} /\ ~G!NoData.timeout
  /\ G!NoData.pending_result = {}
  /\ \A d \in DataType : G!Freed(d) \in DataType /\ ~G!Freed(d).alive /\ G!Freed(d).r = {}
        /\ ~G!Freed(d).timeout /\ G!Freed(d).pending_result = {}
BY DEF G!NoData, G!Freed, DataType

LEMMA LookupInit ==
  ASSUME G!Init
  PROVE  LookupInv
<1>1. asked = {} /\ settled = <<>> /\ told = {}
  BY DEF G!Init, G!DNS!Init
<1>2. data = G!NoData /\ calls = <<>> /\ answered = {} /\ resolver = "open" /\ dangling = FALSE
  BY DEF G!Init
<1>3. LookupTypes
  <2>1. settled \in Seq(Entries) /\ calls \in Seq(CallType)
    BY <1>1, <1>2
  <2>2. data \in DataType
    BY <1>2, NoDataType
  <2>3. asked \in SUBSET Sub /\ told \in SUBSET Sub /\ answered \in SUBSET Sub
    BY <1>1, <1>2
  <2> QED BY <1>2, <2>1, <2>2, <2>3 DEF LookupTypes
<1>4. SubrequestsOnce
  BY <1>1, <1>2, NoDataType, NoFirsts DEF SubrequestsOnce
<1>5. CallbackState
  BY <1>1, <1>2, NoDataType, NoFirsts DEF CallbackState, Sub
<1>6. G!AddressesAreHandedOver
  BY <1>2 DEF G!AddressesAreHandedOver
<1> QED BY <1>3, <1>4, <1>5, <1>6 DEF LookupInv

\* Before the call: nothing was asked, nothing is kept.
LEMMA IdleFacts ==
  ASSUME LookupInv, G!Idle
  PROVE  /\ LookupTypes /\ SubrequestsOnce /\ CallbackState /\ ~dangling
         /\ calls = <<>> /\ ~data.alive /\ asked = {} /\ settled = <<>> /\ told = {}
         /\ answered = {} /\ data.r = {} /\ ~data.timeout
<1>1. LookupTypes /\ SubrequestsOnce /\ CallbackState /\ ~dangling /\ calls = <<>> /\ ~data.alive
  BY DEF LookupInv, G!Idle
<1>2. data.r = {} /\ asked = {} /\ FirstsOf(settled) = {}
  BY <1>1 DEF SubrequestsOnce
<1>3. settled = <<>>
  BY <1>1, <1>2, FirstsEmpty DEF LookupTypes
<1>4. told = {}
  <2>1. Len(calls) # 1
    BY <1>1
  <2> QED BY <1>1, <2>1 DEF CallbackState
<1>5. answered = {} /\ ~data.timeout
  BY <1>1, <1>4 DEF SubrequestsOnce, CallbackState
<1> QED BY <1>1, <1>2, <1>3, <1>4, <1>5

\* A result that is known before the call returns.
LEMMA NowOK ==
  ASSUME LookupInv, G!Idle, UNCHANGED <<asked, settled, told, data, answered, resolver, dangling>>,
         NEW e \in {"ok", "failed"}, calls' = <<[err |-> e, addrs |-> {}, now |-> TRUE]>>
  PROVE  LookupInv'
<1>1. calls' \in Seq(CallType) /\ Len(calls') = 1
  BY DEF CallType
<1>2. LookupTypes'
  BY <1>1, IdleFacts DEF LookupTypes
<1>3. SubrequestsOnce'
  BY IdleFacts DEF SubrequestsOnce
<1>4. CallbackState'
  BY <1>1, IdleFacts DEF CallbackState
<1>5. G!AddressesAreHandedOver'
  <2>1. \A i \in DOMAIN calls' : calls'[i].now
    OBVIOUS
  <2> QED BY <2>1 DEF G!AddressesAreHandedOver
<1> QED BY <1>2, <1>3, <1>4, <1>5 DEF LookupInv

LEMMA StartOK ==
  ASSUME Families \subseteq SUBSET Sub, LookupInv, G!evdns_getaddrinfo
  PROVE  LookupInv'
<1>1. G!Idle /\ UNCHANGED <<settled, told, answered, resolver, dangling>>
  BY DEF G!evdns_getaddrinfo
<1>2. PICK started \in SUBSET Sub :
        IF started = {}
        THEN /\ calls' = <<[err |-> "failed", addrs |-> {}, now |-> TRUE]>>
             /\ UNCHANGED <<asked, data>>
        ELSE /\ data' = [G!NoData EXCEPT !.alive = TRUE, !.user_cb = TRUE, !.r = started]
             /\ asked' = asked \cup started
             /\ UNCHANGED calls
  BY DEF G!evdns_getaddrinfo
<1>3. CASE started = {}
  BY <1>1, <1>2, <1>3, NowOK
<1>4. CASE started # {}
  <2>1. /\ data' \in DataType /\ data'.alive /\ data'.user_cb /\ data'.r = started
        /\ data'.pending_result = {} /\ ~data'.timeout
    BY <1>2, <1>4 DEF G!NoData, DataType
  <2>2. asked' = started /\ settled' = <<>> /\ told' = {} /\ answered' = {} /\ calls' = <<>> /\ ~dangling'
    BY <1>1, <1>2, <1>4, IdleFacts
  <2>3. LookupTypes'
    BY <1>1, <2>1, <2>2, IdleFacts DEF LookupTypes
  <2>4. SubrequestsOnce'
    BY <1>4, <2>1, <2>2, NoFirsts DEF SubrequestsOnce
  <2>5. CallbackState'
    BY <2>1, <2>2, NoFirsts DEF CallbackState
  <2>6. G!AddressesAreHandedOver'
    BY <2>2 DEF G!AddressesAreHandedOver
  <2> QED BY <2>3, <2>4, <2>5, <2>6 DEF LookupInv
<1> QED BY <1>3, <1>4

\* Some requests get results; data, calls and answered stay.
LEMMA SettleOK ==
  ASSUME LookupInv, ~dangling, UNCHANGED <<told, data, calls, answered, dangling>>,
         resolver' \in {"open", "shut"},
         NEW R \in SUBSET asked, NEW s \in Seq(Entries), FirstsOf(s) = R, OncePerRequest(s),
         asked' = asked \ R, settled' = settled \o s,
         HasCancel(s) => ~data.user_cb \/ data.user_canceled
  PROVE  LookupInv'
<1>1. LookupTypes /\ SubrequestsOnce /\ CallbackState
  BY DEF LookupInv
<1>2. FirstsOf(settled) \cap FirstsOf(s) = {}
  BY <1>1 DEF SubrequestsOnce
<1>3. /\ settled' \in Seq(Entries) /\ FirstsOf(settled') = FirstsOf(settled) \cup R
      /\ HasCancel(settled') <=> HasCancel(settled) \/ HasCancel(s)
      /\ OncePerRequest(settled')
  BY <1>1, <1>2, FirstsOfConcat DEF LookupTypes, SubrequestsOnce
<1>4. LookupTypes'
  BY <1>1, <1>3 DEF LookupTypes
<1>5. SubrequestsOnce'
  BY <1>1, <1>3 DEF SubrequestsOnce
<1>6. CallbackState'
  BY <1>1, <1>3 DEF CallbackState
<1>7. G!AddressesAreHandedOver'
  BY DEF LookupInv, G!AddressesAreHandedOver
<1> QED BY <1>4, <1>5, <1>6, <1>7 DEF LookupInv


LEMMA AnswerOK ==
  ASSUME LookupInv, NEW f \in Sub, G!Answer(f)
  PROVE  LookupInv'
<1>1. ~dangling /\ UNCHANGED <<data, calls, answered, resolver, dangling>> /\ G!DNS!Settle({f})
  BY DEF G!Answer
<1>2. LookupTypes
  BY DEF LookupInv
<1>3. /\ f \in asked /\ asked' = asked \ {f} /\ told' = told
      /\ \E s \in [1 .. Cardinality({f}) -> {f} \X G!Results] :
            {s[i][1] : i \in DOMAIN s} = {f} /\ settled' = settled \o s
  <2>1. G!DNS!Cardinality({f}) = Cardinality({f})
    BY DEF G!DNS!Cardinality, Cardinality
  <2> QED BY <1>1, <2>1 DEF G!DNS!Settle
<1>4. PICK s \in [1 .. Cardinality({f}) -> {f} \X G!Results] :
        {s[i][1] : i \in DOMAIN s} = {f} /\ settled' = settled \o s
  BY <1>3
<1>5. s \in Seq(Entries) /\ FirstsOf(s) = {f} /\ OncePerRequest(s) /\ Len(s) = 1
  <2>1. {f} \in SUBSET Sub /\ {f} # {} /\ Cardinality({f}) = 1
    BY SubCounts
  <2>2. s \in Seq(Entries) /\ FirstsOf(s) = {f} /\ OncePerRequest(s) /\ Len(s) = Cardinality({f})
    BY <1>4, <2>1, SettledEntries
  <2> QED BY <2>1, <2>2
<1>6. ~HasCancel(s)
  <2>1. settled \in Seq(Entries) /\ settled' \in Seq(Entries)
    BY <1>2, <1>4, <1>5, FirstsOfConcat DEF LookupTypes
  <2>2. /\ Len(settled') = Len(settled) + Len(s) /\ Len(settled) \in Nat
        /\ \A i \in 1 .. Len(s) : settled'[Len(settled) + i] = s[i]
    <3>1. /\ Len(settled \o s) = Len(settled) + Len(s) /\ Len(settled) \in Nat
          /\ \A i \in 1 .. Len(s) : (settled \o s)[Len(settled) + i] = s[i]
      <4>1. settled \in Seq(Entries) /\ s \in Seq(Entries)
        BY <1>5, <2>1
      <4> HIDE DEF Entries
      <4> QED BY <4>1, ConcatFacts, Zenon
    <3>2. settled' = settled \o s
      BY <1>4
    <3> QED BY <3>1, <3>2, Zenon
  <2>3. settled'[Len(settled')] = s[1]
    BY <1>5, <2>2
  <2>4. s[1][2] # "CANCEL"
    BY <2>3 DEF G!Answer
  <2> QED BY <1>5, <2>4 DEF HasCancel
<1>7. resolver' \in {"open", "shut"}
  BY <1>1, <1>2 DEF LookupTypes
<1>8. {f} \in SUBSET asked
  BY <1>3
<1> QED BY <1>1, <1>3, <1>4, <1>5, <1>6, <1>7, <1>8, SettleOK

LEMMA ShutdownOK ==
  ASSUME LookupInv, G!Shutdown
  PROVE  LookupInv'
<1>1. ~dangling /\ UNCHANGED <<told, data, calls, answered, dangling>> /\ resolver' = "shut"
  BY DEF G!Shutdown
<1>2. LookupTypes
  BY DEF LookupInv
<1>3. CASE asked = {}
  <2>1. UNCHANGED <<asked, settled>>
    BY <1>3 DEF G!Shutdown
  <2>2. LookupTypes'
    BY <1>1, <1>2, <2>1 DEF LookupTypes
  <2>3. SubrequestsOnce' /\ CallbackState'
    BY <1>1, <2>1 DEF LookupInv, SubrequestsOnce, CallbackState
  <2>4. G!AddressesAreHandedOver'
    BY <1>1 DEF LookupInv, G!AddressesAreHandedOver
  <2> QED BY <2>2, <2>3, <2>4 DEF LookupInv
<1>4. CASE asked # {}
  <2>1. G!DNS!Settle(asked) /\ \A i \in Len(settled) + 1 .. Len(settled') : settled'[i][2] = "SHUTDOWN"
    BY <1>4 DEF G!Shutdown
  <2>2. G!DNS!Cardinality(asked) = Cardinality(asked)
    BY DEF G!DNS!Cardinality, Cardinality
  <2>3. PICK s \in [1 .. Cardinality(asked) -> asked \X G!Results] :
          {s[i][1] : i \in DOMAIN s} = asked /\ settled' = settled \o s
    BY <2>1, <2>2 DEF G!DNS!Settle
  <2>4. s \in Seq(Entries) /\ FirstsOf(s) = asked /\ OncePerRequest(s)
    BY <1>2, <1>4, <2>3, SettledEntries DEF LookupTypes
  <2>5. ~HasCancel(s)
    <3>1. settled \in Seq(Entries) /\ Len(settled) \in Nat /\ Len(s) \in Nat
      BY <1>2, <2>4 DEF LookupTypes
    <3>2. \A i \in 1 .. Len(s) : settled'[Len(settled) + i] = s[i] /\ Len(settled) + i \in Len(settled) + 1 .. Len(settled')
      BY <2>3, <2>4, <3>1
    <3>3. \A i \in 1 .. Len(s) : s[i][2] = "SHUTDOWN"
      BY <2>1, <3>2
    <3> QED BY <3>3 DEF HasCancel
  <2>6. asked' = asked \ asked
    BY <2>1 DEF G!DNS!Settle
  <2> QED BY <1>1, <2>3, <2>4, <2>5, <2>6, SettleOK
<1> QED BY <1>3, <1>4

\* The one entry of calls agrees with answered.
HandedOver(c, a) == ~c.now /\ c.err # "canceled" => c.addrs = a /\ ((c.err = "ok") <=> (a # {}))

\* user_cb is run for the first time.
LEMMA TellOK ==
  ASSUME calls = <<>>, NEW e \in {"ok", "failed", "canceled"}, NEW a \in SUBSET Sub, G!Tell(e, a),
         HandedOver([err |-> e, addrs |-> a, now |-> FALSE], answered')
  PROVE  calls' \in Seq(CallType) /\ Len(calls') = 1 /\ G!AddressesAreHandedOver'
<1> DEFINE c == [err |-> e, addrs |-> a, now |-> FALSE]
<1>1. c \in CallType
  BY DEF CallType
<1>2. calls' = Append(calls, c)
  BY DEF G!Tell
<1> HIDE DEF c
<1>3. calls' = <<c>>
  BY <1>2
<1>4. calls' \in Seq(CallType) /\ Len(calls') = 1
  BY <1>1, <1>3
<1>5. ASSUME NEW i \in DOMAIN calls' PROVE calls'[i] = c
  BY <1>3
<1>6. HandedOver(c, answered')
  BY DEF c
<1>7. G!AddressesAreHandedOver'
  BY <1>5, <1>6 DEF G!AddressesAreHandedOver, HandedOver
<1> QED BY <1>4, <1>7


\* The deferred callback of a subrequest.
LEMMA ResolvedOK ==
  ASSUME LookupInv, NEW f \in Sub, G!evdns_getaddrinfo_gotresolve(f)
  PROVE  LookupInv'
<1> DEFINE result == settled[1][2]
           err == result # "NONE"
           d == [data EXCEPT !.r = @ \ {f}, !.evdns_base = @ /\ ~(result = "SHUTDOWN"),
                             !.request_done = IF result = "SHUTDOWN" THEN @ ELSE @ \/ data.r \subseteq {f}]
<1>1. LookupTypes /\ SubrequestsOnce /\ CallbackState /\ ~dangling
  BY DEF LookupInv, G!evdns_getaddrinfo_gotresolve
<1>2. /\ settled # <<>> /\ settled[1][1] = f /\ told' = told \cup {f} /\ settled' = Tail(settled)
      /\ asked' = asked /\ resolver' = resolver
  BY DEF G!evdns_getaddrinfo_gotresolve, G!DNS!Tell
<1>3. /\ settled' \in Seq(Entries) /\ OncePerRequest(settled')
      /\ FirstsOf(settled') = FirstsOf(settled) \ {f} /\ f \in FirstsOf(settled)
      /\ HasCancel(settled') => HasCancel(settled)
      /\ result = "CANCEL" => HasCancel(settled)
  BY <1>1, <1>2, FirstsOfTail DEF LookupTypes, SubrequestsOnce
<1>4. \/ dangling' = TRUE /\ UNCHANGED <<data, calls, answered>>
      \/ /\ data.alive /\ G!Conclude(d, f, result) /\ dangling' = dangling
         /\ answered' = IF result = "NONE" /\ calls = <<>> THEN answered \cup {f} ELSE answered
  BY DEF G!evdns_getaddrinfo_gotresolve
<1>5. CASE dangling' = TRUE /\ UNCHANGED <<data, calls, answered>>
  <2>1. LookupTypes'
    BY <1>1, <1>2, <1>3, <1>5 DEF LookupTypes
  <2>2. G!AddressesAreHandedOver'
    BY <1>5 DEF LookupInv, G!AddressesAreHandedOver
  <2> QED BY <1>5, <2>1, <2>2 DEF LookupInv
<1>6. CASE /\ data.alive /\ G!Conclude(d, f, result) /\ dangling' = dangling
           /\ answered' = IF result = "NONE" /\ calls = <<>> THEN answered \cup {f} ELSE answered
  <2>1. /\ d \in DataType /\ d.r = data.r \ {f} /\ d.alive = data.alive /\ d.user_cb = data.user_cb
        /\ d.pending_result = data.pending_result /\ d.timeout = data.timeout
        /\ d.user_canceled = data.user_canceled
    BY <1>1 DEF LookupTypes, DataType
  <2> HIDE DEF d
  <2>2. /\ G!Freed(d) \in DataType /\ ~G!Freed(d).alive /\ G!Freed(d).r = {}
        /\ ~G!Freed(d).timeout /\ G!Freed(d).pending_result = {}
    BY <2>1, NoDataType
  <2>3. result = "CANCEL" /\ ~data.user_canceled => ~data.user_cb
    BY <1>1, <1>3, <1>6 DEF CallbackState
  <2>4. /\ data.r = asked \cup FirstsOf(settled) /\ f \in data.r /\ f \notin asked /\ f \notin told
        /\ d.r = asked' \cup FirstsOf(settled') /\ told' \cap d.r = {} /\ asked' \cap FirstsOf(settled') = {}
        /\ answered \subseteq told
    BY <1>1, <1>2, <1>3, <2>1 DEF SubrequestsOnce
  <2>5. ASSUME d.r # {} PROVE data.r = Sub /\ told = {} /\ answered = {} /\ data.pending_result = {} /\ ~data.timeout
                              /\ data.user_cb /\ calls = <<>>
    <3>1. data.r = Sub
      <4>1. PICK g : g \in data.r /\ g # f
        BY <2>1, <2>5
      <4>2. data.r \subseteq Sub
        BY <1>1 DEF LookupTypes, DataType
      <4> QED BY <2>4, <4>1, <4>2 DEF Sub
    <3>2. told = {} /\ answered = {}
      BY <1>1, <2>4, <3>1 DEF LookupTypes, SubrequestsOnce
    <3> QED BY <1>1, <1>6, <3>1, <3>2 DEF CallbackState
  <2>6. (data.user_cb <=> calls = <<>>) /\ Len(calls) =< 1 /\ calls \in Seq(CallType)
    BY <1>1, <1>6 DEF CallbackState, LookupTypes
  <2>7. ~data.user_cb => Len(calls) = 1
    <3>1. ASSUME calls # <<>> PROVE Len(calls) = 1
      <4>1. calls \in Seq(CallType) /\ Len(calls) =< 1
        BY <2>6
      <4> HIDE DEF CallType
      <4> QED BY <3>1, <4>1, OneAtMost
    <3> QED BY <2>6, <3>1
  <2>8. answered' \in SUBSET Sub /\ answered' \subseteq told' /\ told' \in SUBSET Sub
    BY <1>1, <1>2, <1>6, <2>4 DEF LookupTypes
  <2>9. data.alive /\ calls = <<>> /\ (data.timeout \/ ~data.user_canceled) => data.pending_result = answered
    BY <1>1 DEF CallbackState
  <2>10. data.pending_result \subseteq answered
    BY <1>1 DEF CallbackState
  \* The request lives on, with d's subrequests.
  <2>11. ASSUME d.r # {}, data' \in DataType, data'.r = d.r, data'.alive, data'.user_cb, UNCHANGED calls,
                data'.user_canceled = data.user_canceled, data'.pending_result \subseteq answered',
                data'.timeout \/ ~data.user_canceled => data'.pending_result = answered'
         PROVE  LookupInv'
    <3>1. LookupTypes'
      BY <1>1, <1>2, <1>3, <1>6, <2>8, <2>11 DEF LookupTypes
    <3>2. SubrequestsOnce'
      BY <1>3, <2>4, <2>8, <2>11 DEF SubrequestsOnce
    <3>3. data'.r # Sub
      BY <2>1, <2>11
    <3>4. calls' = <<>> /\ Len(calls') =< 1
      BY <2>5, <2>6, <2>11
    <3>5. ~data'.user_canceled /\ HasCancel(settled') => ~data'.user_cb
      BY <1>1, <1>3, <1>6, <2>5, <2>11 DEF CallbackState
    <3>6. CallbackState'
      BY <2>11, <3>3, <3>4, <3>5 DEF CallbackState
    <3>7. G!AddressesAreHandedOver'
      BY <3>4 DEF G!AddressesAreHandedOver
    <3> QED BY <3>1, <3>2, <3>6, <3>7 DEF LookupInv
  \* The request is freed, after it has called back.
  <2>12. ASSUME d.r = {}, data' = G!Freed(d), calls' \in Seq(CallType), Len(calls') = 1, G!AddressesAreHandedOver'
         PROVE  LookupInv'
    <3>1. LookupTypes'
      BY <1>1, <1>2, <1>3, <1>6, <2>2, <2>8, <2>12 DEF LookupTypes
    <3>2. SubrequestsOnce'
      BY <1>3, <2>2, <2>4, <2>8, <2>12 DEF SubrequestsOnce
    <3>3. data'.r # Sub
      BY <2>2, <2>12 DEF Sub
    <3>4. Len(calls') =< 1 /\ ~data'.alive /\ ~data'.timeout /\ data'.pending_result = {}
      <4>1. Len(calls') =< 1
        BY <2>12
      <4>2. ~data'.alive /\ ~data'.timeout /\ data'.pending_result = {}
        BY <2>2, <2>12, Zenon
      <4> QED BY <4>1, <4>2
    <3>5. CallbackState'
      BY <2>12, <3>3, <3>4, Zenon DEF CallbackState
    <3> QED BY <2>12, <3>1, <3>2, <3>5 DEF LookupInv
  <2>13. ASSUME d.r = {}, data' = G!Freed(d), UNCHANGED calls, ~data.user_cb PROVE LookupInv'
    <3>1. G!AddressesAreHandedOver'
      <4>1. answered' = answered
        BY <1>6, <2>6, <2>13
      <4> QED BY <2>13, <4>1 DEF LookupInv, G!AddressesAreHandedOver
    <3> QED BY <2>6, <2>7, <2>12, <2>13, <3>1
  <2>14. CASE result = "CANCEL" /\ ~d.user_canceled
    <3>1. data' = (IF d.r # {} THEN d ELSE G!Freed(d)) /\ UNCHANGED calls
      BY <1>6, <2>14 DEF G!Conclude
    <3>2. ~data.user_cb
      BY <2>1, <2>3, <2>14
    <3>3. d.r = {}
      BY <2>5, <3>2
    <3> QED BY <2>13, <3>1, <3>2, <3>3
  <2>15. CASE ~(result = "CANCEL" /\ ~d.user_canceled) /\ ~d.user_cb
    <3>1. data' = G!Freed(d) /\ UNCHANGED calls
      BY <1>6, <2>15 DEF G!Conclude
    <3>2. d.r = {}
      BY <2>1, <2>5, <2>15
    <3> QED BY <2>1, <2>13, <2>15, <3>1, <3>2
  <2>16. CASE d.user_cb /\ d.r # {} /\ (err \/ ~d.user_canceled) /\ ~(result = "CANCEL" /\ ~d.user_canceled)
    <3>1. G!Await(d, f, err, result)
      BY <1>6, <2>16 DEF G!Conclude
    <3>2. CASE err
      <4>1. data' = [d EXCEPT !.pending_error = TRUE, !.timeout = @ \/ result # "SHUTDOWN"] /\ UNCHANGED calls
        BY <3>1, <3>2 DEF G!Await
      <4>2. /\ data' \in DataType /\ data'.r = d.r /\ data'.alive = d.alive /\ data'.user_cb = d.user_cb
            /\ data'.user_canceled = d.user_canceled /\ data'.pending_result = d.pending_result
        BY <2>1, <4>1 DEF DataType
      <4>3. answered' = {} /\ data'.pending_result = {}
        BY <1>6, <2>1, <2>5, <2>16, <3>2, <4>2
      <4> QED BY <1>6, <2>1, <2>11, <2>16, <4>1, <4>2, <4>3
    <3>3. CASE ~err
      <4>1. data' = [d EXCEPT !.pending_result = {f}, !.timeout = TRUE] /\ UNCHANGED calls
        BY <3>1, <3>3 DEF G!Await
      <4>2. /\ data' \in DataType /\ data'.r = d.r /\ data'.alive = d.alive /\ data'.user_cb = d.user_cb
            /\ data'.user_canceled = d.user_canceled /\ data'.pending_result = {f}
        BY <2>1, <4>1 DEF DataType
      <4>3. answered' = {f}
        BY <1>6, <2>5, <2>16, <3>3
      <4> QED BY <1>6, <2>1, <2>11, <2>16, <4>1, <4>2, <4>3
    <3> QED BY <3>2, <3>3
  <2>17. CASE d.user_cb /\ d.r # {} /\ ~(err \/ ~d.user_canceled)
    <3>1. data' = d /\ UNCHANGED calls
      BY <1>6, <2>17 DEF G!Conclude
    <3>2. ~data'.timeout /\ data'.pending_result = {} /\ data.user_canceled
      BY <2>1, <2>5, <2>17, <3>1
    <3> QED BY <1>6, <2>1, <2>11, <2>17, <3>1, <3>2
  <2>18. CASE d.user_cb /\ d.r = {} /\ ~(result = "CANCEL" /\ ~d.user_canceled)
    <3>1. G!Report(d, f, err)
      BY <1>6, <2>18 DEF G!Conclude
    <3>2. data' = G!Freed(d) /\ calls = <<>> /\ d.pending_result \in SUBSET Sub
      BY <2>1, <2>6, <2>18, <3>1 DEF G!Report, DataType
    <3>3. CASE d.user_canceled
      <4>1. G!Tell("canceled", {})
        BY <3>1, <3>3 DEF G!Report
      <4>2. calls' \in Seq(CallType) /\ Len(calls') = 1 /\ G!AddressesAreHandedOver'
        BY <3>2, <4>1, TellOK DEF HandedOver
      <4> QED BY <2>12, <2>18, <3>2, <4>2
    <3>4. ASSUME ~d.user_canceled PROVE d.pending_result = answered
      BY <1>6, <2>1, <2>9, <3>2, <3>4
    <3>5. CASE ~d.user_canceled /\ ~err
      <4>1. G!Tell("ok", {f} \cup d.pending_result)
        BY <3>1, <3>5 DEF G!Report
      <4>2. answered' = {f} \cup d.pending_result /\ answered' \in SUBSET Sub
        BY <1>6, <2>8, <3>2, <3>4, <3>5
      <4>3. HandedOver([err |-> "ok", addrs |-> {f} \cup d.pending_result, now |-> FALSE], answered')
        BY <4>2 DEF HandedOver
      <4>4. calls' \in Seq(CallType) /\ Len(calls') = 1 /\ G!AddressesAreHandedOver'
        BY <3>2, <4>1, <4>2, <4>3, TellOK
      <4> QED BY <2>12, <2>18, <3>2, <4>4
    <3>6. CASE ~d.user_canceled /\ err /\ d.pending_result # {}
      <4>1. G!Tell("ok", d.pending_result)
        BY <3>1, <3>6 DEF G!Report
      <4>2. answered' = d.pending_result
        BY <1>6, <3>4, <3>6
      <4>3. HandedOver([err |-> "ok", addrs |-> d.pending_result, now |-> FALSE], answered')
        BY <3>6, <4>2 DEF HandedOver
      <4>4. calls' \in Seq(CallType) /\ Len(calls') = 1 /\ G!AddressesAreHandedOver'
        BY <3>2, <4>1, <4>2, <4>3, TellOK
      <4> QED BY <2>12, <2>18, <3>2, <4>4
    <3>7. CASE ~d.user_canceled /\ err /\ d.pending_result = {}
      <4>1. G!Tell("failed", {})
        BY <3>1, <3>7 DEF G!Report
      <4>2. answered' = {}
        BY <1>6, <3>4, <3>7
      <4>3. HandedOver([err |-> "failed", addrs |-> {}, now |-> FALSE], answered')
        BY <4>2 DEF HandedOver
      <4>4. calls' \in Seq(CallType) /\ Len(calls') = 1 /\ G!AddressesAreHandedOver'
        BY <3>2, <4>1, <4>3, TellOK
      <4> QED BY <2>12, <2>18, <3>2, <4>4
    <3> QED BY <3>3, <3>5, <3>6, <3>7
  <2> HIDE DEF d, err, result
  <2> QED BY <2>14, <2>15, <2>16, <2>17, <2>18
<1> QED BY <1>4, <1>5, <1>6

\* What cancelling the subrequests that are out does to the resolver.
LEMMA CancelOut ==
  ASSUME LookupTypes, SubrequestsOnce, settled' = settled \o G!Cancelled(data.r), asked' = asked \ data.r
  PROVE  /\ asked' = {} /\ settled' \in Seq(Entries) /\ OncePerRequest(settled')
         /\ FirstsOf(settled') = data.r
<1>1. asked \in SUBSET Sub /\ data.r \in SUBSET Sub /\ settled \in Seq(Entries)
  BY DEF LookupTypes, DataType
<1>2. asked \subseteq data.r /\ data.r \cap asked = asked
  BY DEF SubrequestsOnce
<1> DEFINE s == G!Cancelled(data.r)
<1>3. s \in Seq(Entries) /\ FirstsOf(s) = data.r \cap asked /\ OncePerRequest(s)
  BY <1>1, CancelledEntries
<1> HIDE DEF s
<1>4. FirstsOf(settled) \cap FirstsOf(s) = {} /\ OncePerRequest(settled)
  BY <1>2, <1>3 DEF SubrequestsOnce
<1>5. settled' = settled \o s
  BY DEF s
<1>6. /\ settled' \in Seq(Entries) /\ FirstsOf(settled') = FirstsOf(settled) \cup FirstsOf(s)
      /\ OncePerRequest(settled')
  BY <1>1, <1>3, <1>4, <1>5, FirstsOfConcat
<1>7. FirstsOf(settled') = data.r
  BY <1>2, <1>3, <1>6 DEF SubrequestsOnce
<1> QED BY <1>2, <1>6, <1>7

LEMMA TimeoutOK ==
  ASSUME LookupInv, G!evdns_getaddrinfo_timeout_cb
  PROVE  LookupInv'
<1>1. /\ LookupTypes /\ SubrequestsOnce /\ CallbackState /\ ~dangling /\ data.timeout
      /\ UNCHANGED <<told, answered, resolver>>
  BY DEF LookupInv, G!evdns_getaddrinfo_timeout_cb
<1>2. /\ data.alive /\ data.user_cb /\ data.r # Sub /\ calls = <<>> /\ data.pending_result = answered
      /\ data.r # {}
  BY <1>1 DEF CallbackState, SubrequestsOnce
<1>3. CASE resolver = "shut"
  <2>1. dangling' = TRUE /\ UNCHANGED <<asked, settled, data, calls>>
    BY <1>2, <1>3 DEF G!evdns_getaddrinfo_timeout_cb
  <2>2. LookupTypes'
    BY <1>1, <2>1 DEF LookupTypes
  <2>3. G!AddressesAreHandedOver'
    BY <1>1, <2>1 DEF LookupInv, G!AddressesAreHandedOver
  <2> QED BY <2>1, <2>2, <2>3 DEF LookupInv
<1>4. CASE resolver # "shut"
  <2>1. /\ settled' = settled \o G!Cancelled(data.r) /\ asked' = asked \ data.r
        /\ G!Tell(IF data.pending_result = {} THEN "failed" ELSE "ok", data.pending_result)
        /\ data' = [data EXCEPT !.user_cb = FALSE, !.pending_result = {}, !.timeout = FALSE]
        /\ dangling' = dangling
    BY <1>2, <1>4 DEF G!evdns_getaddrinfo_timeout_cb
  <2>2. /\ asked' = {} /\ settled' \in Seq(Entries) /\ OncePerRequest(settled')
        /\ FirstsOf(settled') = data.r
    BY <1>1, <2>1, CancelOut
  <2>3. /\ data' \in DataType /\ data'.r = data.r /\ data'.alive = data.alive /\ ~data'.user_cb
        /\ data'.pending_result = {} /\ ~data'.timeout
    BY <1>1, <2>1 DEF LookupTypes, DataType
  <2>4. calls' \in Seq(CallType) /\ Len(calls') = 1 /\ G!AddressesAreHandedOver'
    <3> DEFINE e == IF data.pending_result = {} THEN "failed" ELSE "ok"
    <3>1. e \in {"ok", "failed", "canceled"} /\ data.pending_result \in SUBSET Sub
      BY <1>1, <1>2 DEF LookupTypes
    <3>2. HandedOver([err |-> e, addrs |-> data.pending_result, now |-> FALSE], answered')
      BY <1>1, <1>2 DEF HandedOver
    <3> HIDE DEF e
    <3> QED BY <1>2, <2>1, <3>1, <3>2, TellOK DEF e
  <2>5. LookupTypes'
    BY <1>1, <2>1, <2>2, <2>3, <2>4 DEF LookupTypes
  <2>6. SubrequestsOnce'
    BY <1>1, <2>2, <2>3 DEF SubrequestsOnce
  <2>7. calls' # <<>> /\ Len(calls') =< 1 /\ data'.r # Sub
    <3>1. Len(calls') =< 1 /\ Len(calls') # 0
      BY <2>4
    <3>2. calls' # <<>>
      BY <3>1
    <3> QED BY <1>2, <2>3, <3>1, <3>2
  <2>8. CallbackState'
    BY <2>3, <2>4, <2>7, Zenon DEF CallbackState
  <2> QED BY <2>4, <2>5, <2>6, <2>8 DEF LookupInv
<1> QED BY <1>3, <1>4

LEMMA CancelOK ==
  ASSUME LookupInv, G!evdns_getaddrinfo_cancel
  PROVE  LookupInv'
<1>1. /\ LookupTypes /\ SubrequestsOnce /\ CallbackState /\ ~dangling /\ data.alive /\ data.user_cb
      /\ settled' = settled \o G!Cancelled(data.r) /\ asked' = asked \ data.r
      /\ data' = [data EXCEPT !.timeout = FALSE, !.user_canceled = TRUE]
      /\ UNCHANGED <<told, calls, answered, resolver, dangling>>
  BY DEF LookupInv, G!evdns_getaddrinfo_cancel
<1>2. /\ asked' = {} /\ settled' \in Seq(Entries) /\ OncePerRequest(settled')
      /\ FirstsOf(settled') = data.r
  BY <1>1, CancelOut
<1>3. /\ data' \in DataType /\ data'.r = data.r /\ data'.alive = data.alive
      /\ data'.user_cb = data.user_cb /\ data'.user_canceled
      /\ data'.pending_result = data.pending_result /\ ~data'.timeout
  BY <1>1 DEF LookupTypes, DataType
<1>4. LookupTypes'
  BY <1>1, <1>2, <1>3 DEF LookupTypes
<1>5. SubrequestsOnce'
  BY <1>1, <1>2, <1>3 DEF SubrequestsOnce
<1>6. CallbackState'
  BY <1>1, <1>3 DEF CallbackState
<1>7. G!AddressesAreHandedOver'
  BY <1>1 DEF LookupInv, G!AddressesAreHandedOver
<1> QED BY <1>4, <1>5, <1>6, <1>7 DEF LookupInv

LEMMA LookupStep ==
  ASSUME Families \subseteq SUBSET Sub, LookupInv, G!Next \/ UNCHANGED gvars
  PROVE  LookupInv'
<1>1. ASSUME G!AnswerNow PROVE LookupInv'
  BY <1>1, NowOK DEF G!AnswerNow
<1>2. G!Subrequests = Sub
  BY DEF G!Subrequests, Sub
<1>3. CASE UNCHANGED gvars
  <2>1. UNCHANGED <<asked, settled, told, data, calls, answered, resolver, dangling>>
    BY <1>3 DEF gvars
  <2> QED BY <2>1 DEF LookupInv, LookupTypes, SubrequestsOnce, CallbackState, G!AddressesAreHandedOver
<1>4. CASE G!Next
  BY <1>1, <1>2, <1>4, StartOK, AnswerOK, ResolvedOK, ShutdownOK, TimeoutOK, CancelOK DEF G!Next
<1> QED BY <1>3, <1>4

LEMMA LookupInvImplies ==
  ASSUME LookupInv
  PROVE  LookupsEndOnce
<1>1. G!AddressesAreHandedOver
  BY DEF LookupInv
<1>2. ASSUME ~dangling
      PROVE  /\ Len(calls) <= 1
             /\ asked # {} \/ settled # <<>> \/ data.timeout => data.alive
             /\ data.r = asked \cup {settled[i][1] : i \in DOMAIN settled}
             /\ data.alive /\ data.r = {} => FALSE
             /\ told # {} /\ ~data.alive => Len(calls) = 1
             /\ data.alive => (data.user_cb <=> calls = <<>>)
             /\ data.timeout => G!Cardinality(data.r) <= 1
  <2>1. LookupTypes /\ SubrequestsOnce /\ CallbackState
    BY <1>2 DEF LookupInv
  <2>2. settled \in Seq(Entries) /\ DOMAIN settled = 1 .. Len(settled) /\ data.r \in SUBSET Sub
    BY <2>1 DEF LookupTypes, DataType
  <2>3. {settled[i][1] : i \in DOMAIN settled} = FirstsOf(settled)
    BY <2>2 DEF FirstsOf
  <2>4. settled # <<>> => FirstsOf(settled) # {}
    BY <2>2, FirstsEmpty
  <2>5. asked # {} \/ settled # <<>> \/ data.timeout => data.alive
    BY <2>1, <2>4 DEF SubrequestsOnce, CallbackState
  <2>6. data.timeout => G!Cardinality(data.r) <= 1
    <3>1. G!Cardinality(data.r) = Cardinality(data.r)
      BY DEF G!Cardinality, Cardinality
    <3>2. ASSUME data.timeout PROVE data.r # Sub
      BY <2>1, <3>2 DEF CallbackState
    <3>3. Cardinality({}) = 0
      BY FS_EmptySet
    <3>4. ASSUME data.timeout PROVE Cardinality(data.r) = 0 \/ Cardinality(data.r) = 1
      BY <2>2, <3>2, <3>3, <3>4, SubCounts
    <3> QED BY <3>1, <3>4
  <2> QED BY <2>1, <2>3, <2>5, <2>6 DEF SubrequestsOnce, CallbackState
<1>3. G!CalledBackOnceAndFreed
  BY <1>2 DEF G!CalledBackOnceAndFreed
<1> QED BY <1>1, <1>3 DEF LookupsEndOnce

\* A call of evdns_getaddrinfo calls back once, with all addresses that came in
\* time, and frees its request when both subrequests have called back and never
\* before, whenever answers, timeouts, cancelling and the shutdown come; for any
\* choice of families.
THEOREM LookupsAlwaysEndOnce ==
  ASSUME Families \subseteq SUBSET {"v4", "v6"}
  PROVE  SuiteSpec => []LookupsEndOnce
<1>1. SuiteInit => LookupInv
  BY LookupInit DEF SuiteInit
<1>2. LookupInv /\ [SuiteNext]_<<part, base, gvars, svars>> => LookupInv'
  <2>1. SuiteNext => G!Next \/ UNCHANGED gvars
    BY DEF SuiteNext
  <2>2. UNCHANGED <<part, base, gvars, svars>> => UNCHANGED gvars
    OBVIOUS
  <2> QED BY <2>1, <2>2, LookupStep DEF Sub
<1>3. LookupInv => LookupsEndOnce
  BY LookupInvImplies
<1> QED BY <1>1, <1>2, <1>3, PTL DEF SuiteSpec

-----------------------------------------------------------------------------
(* The client: lists, as rings of evdns.c are kept here.                   *)

Joined(X, t, u, v) ==
  /\ t \in Seq(X) /\ Len(t) = Len(u) + Len(v)
  /\ \A j \in 1 .. Len(t) : t[j] = IF j <= Len(u) THEN u[j] ELSE v[j - Len(u)]

LEMMA JoinedFacts ==
  ASSUME NEW X, NEW u \in Seq(X), NEW v \in Seq(X)
  PROVE  Joined(X, u \o v, u, v)
BY DEF Joined

LEMMA MembersFacts ==
  ASSUME NEW X, NEW s \in Seq(X)
  PROVE  /\ \A x : x \in Members(s) <=> Lists(s, x)
         /\ \A x : Lists(s, x) => x \in X
         /\ (s = <<>>) <=> (\A x : ~Lists(s, x))
         /\ s # <<>> => Len(s) > 0 /\ Head(s) \in X /\ Lists(s, Head(s)) /\ Tail(s) \in Seq(X)
<1>1. DOMAIN s = 1 .. Len(s) /\ Len(s) \in Nat /\ \A i \in 1 .. Len(s) : s[i] \in X
  OBVIOUS
<1>2. s # <<>> => Len(s) > 0 /\ Head(s) = s[1] /\ Tail(s) \in Seq(X)
  OBVIOUS
<1>3. s = <<>> => Len(s) = 0
  OBVIOUS
<1>4. s # <<>> => Head(s) \in X /\ Lists(s, Head(s))
  <2>1. s # <<>> => 1 \in 1 .. Len(s) /\ s[1] = Head(s)
    BY <1>1, <1>2
  <2> QED BY <2>1, <1>1 DEF Lists
<1>5. (s = <<>>) <=> (\A x : ~Lists(s, x))
  <2>1. s = <<>> => (\A x : ~Lists(s, x))
    BY <1>3 DEF Lists
  <2> QED BY <2>1, <1>4
<1>6. \A x : (x \in Members(s) <=> Lists(s, x)) /\ (Lists(s, x) => x \in X)
  BY <1>1 DEF Members, Lists
<1> QED BY <1>2, <1>4, <1>5, <1>6

LEMMA AppendFacts ==
  ASSUME NEW X, NEW s \in Seq(X), NEW x \in X, NEW t, t = Append(s, x)
  PROVE  /\ t \in Seq(X) /\ Len(t) = Len(s) + 1
         /\ \A y : Lists(t, y) <=> Lists(s, y) \/ y = x
         /\ Distinct(s) /\ ~Lists(s, x) => Distinct(t)
<1>1. /\ t \in Seq(X) /\ Len(t) = Len(s) + 1 /\ Len(s) \in Nat
      /\ \A i \in 1 .. Len(t) : t[i] = IF i = Len(s) + 1 THEN x ELSE s[i]
  OBVIOUS
<1>2. ASSUME NEW y PROVE Lists(t, y) <=> Lists(s, y) \/ y = x
  <2>1. ASSUME Lists(t, y) PROVE Lists(s, y) \/ y = x
    BY <1>1, <2>1 DEF Lists
  <2>2. ASSUME Lists(s, y) PROVE Lists(t, y)
    <3>1. PICK i \in 1 .. Len(s) : s[i] = y
      BY <2>2 DEF Lists
    <3>2. i \in 1 .. Len(t) /\ t[i] = y
      BY <3>1, <1>1
    <3> QED BY <3>2 DEF Lists
  <2>3. Lists(t, x)
    <3>1. Len(s) + 1 \in 1 .. Len(t) /\ t[Len(s) + 1] = x
      BY <1>1
    <3> QED BY <3>1 DEF Lists
  <2> QED BY <2>1, <2>2, <2>3
<1>3. Distinct(s) /\ ~Lists(s, x) => Distinct(t)
  BY <1>1 DEF Distinct, Lists
<1> QED BY <1>1, <1>2, <1>3

LEMMA TailFacts ==
  ASSUME NEW X, NEW s \in Seq(X), s # <<>>, Distinct(s), NEW t, t = Tail(s)
  PROVE  /\ t \in Seq(X) /\ Distinct(t) /\ Len(t) = Len(s) - 1
         /\ Lists(s, Head(s)) /\ Head(s) \in X
         /\ \A y : Lists(t, y) <=> Lists(s, y) /\ y # Head(s)
<1>1. /\ t \in Seq(X) /\ Len(t) = Len(s) - 1 /\ Len(s) \in Nat \ {0} /\ Head(s) = s[1]
      /\ \A i \in 1 .. Len(t) : t[i] = s[i + 1]
  OBVIOUS
<1>2. Distinct(t)
  <2> SUFFICES ASSUME NEW i \in 1 .. Len(t), NEW j \in 1 .. Len(t), t[i] = t[j] PROVE i = j
    BY DEF Distinct
  <2>1. i + 1 \in 1 .. Len(s) /\ j + 1 \in 1 .. Len(s) /\ s[i + 1] = s[j + 1]
    BY <1>1
  <2>2. i + 1 = j + 1
    BY <2>1 DEF Distinct
  <2> QED BY <2>2
<1>3. ASSUME NEW y PROVE Lists(t, y) <=> Lists(s, y) /\ y # Head(s)
  <2>1. ASSUME Lists(t, y) PROVE Lists(s, y) /\ y # Head(s)
    <3>1. PICK i \in 1 .. Len(t) : t[i] = y
      BY <2>1 DEF Lists
    <3>2. i + 1 \in 1 .. Len(s) /\ 1 \in 1 .. Len(s) /\ s[i + 1] = y /\ i + 1 # 1
      BY <3>1, <1>1
    <3> QED BY <3>2, <1>1 DEF Lists, Distinct
  <2>2. ASSUME Lists(s, y), y # Head(s) PROVE Lists(t, y)
    <3>1. PICK i \in 1 .. Len(s) : s[i] = y
      BY <2>2 DEF Lists
    <3>2. i - 1 \in 1 .. Len(t) /\ t[i - 1] = y
      BY <3>1, <2>2, <1>1
    <3> QED BY <3>2 DEF Lists
  <2> QED BY <2>1, <2>2
<1>4. Lists(s, Head(s)) /\ Head(s) \in X
  BY MembersFacts
<1> QED BY <1>1, <1>2, <1>3, <1>4

LEMMA WithoutFacts ==
  ASSUME NEW X, NEW s \in Seq(X), Distinct(s), NEW x, Lists(s, x), NEW t, t = Without(s, x)
  PROVE  /\ t \in Seq(X) /\ Distinct(t) /\ Len(t) = Len(s) - 1
         /\ \A y : Lists(t, y) <=> Lists(s, y) /\ y # x
<1>1. PICK i : i = CHOOSE j \in DOMAIN s : s[j] = x
  OBVIOUS
<1>2. i \in 1 .. Len(s) /\ s[i] = x /\ Len(s) \in Nat /\ \A j \in 1 .. Len(s) : s[j] \in X
  BY <1>1 DEF Lists
<1>3. t = SubSeq(s, 1, i - 1) \o SubSeq(s, i + 1, Len(s))
  <2>1. x \in Members(s)
    BY MembersFacts
  <2> QED BY <1>1, <2>1, Zenon DEF Without
<1> DEFINE u == SubSeq(s, 1, i - 1)
           v == SubSeq(s, i + 1, Len(s))
<1>7. /\ u \in Seq(X) /\ Len(u) = i - 1 /\ \A j \in 1 .. Len(u) : u[j] = s[j]
      /\ v \in Seq(X) /\ Len(v) = Len(s) - i /\ \A j \in 1 .. Len(v) : v[j] = s[i + j]
  BY <1>2
<1> HIDE DEF u, v
<1>9. t = u \o v
  BY <1>3 DEF u, v
<1>11. Joined(X, t, u, v)
  BY <1>7, <1>9, JoinedFacts, Zenon
<1>10. /\ t \in Seq(X) /\ Len(t) = Len(u) + Len(v)
       /\ \A j \in 1 .. Len(t) : t[j] = IF j <= Len(u) THEN u[j] ELSE v[j - Len(u)]
  BY <1>11 DEF Joined
<1>8. /\ t \in Seq(X) /\ Len(t) = Len(s) - 1
      /\ \A j \in 1 .. Len(t) : t[j] = IF j <= Len(u) THEN u[j] ELSE v[j - Len(u)]
  BY <1>2, <1>7, <1>10
<1>4. /\ t \in Seq(X) /\ Len(t) = Len(s) - 1
      /\ \A j \in 1 .. Len(t) : t[j] = IF j < i THEN s[j] ELSE s[j + 1]
  <2>1. ASSUME NEW j \in 1 .. Len(t) PROVE t[j] = IF j < i THEN s[j] ELSE s[j + 1]
    <3>1. CASE j < i
      BY <1>2, <1>7, <1>8, <3>1
    <3>2. CASE j >= i
      <4>1. j - Len(u) \in 1 .. Len(v) /\ i + (j - Len(u)) = j + 1 /\ ~(j <= Len(u)) /\ ~(j < i)
        BY <1>2, <1>7, <1>8, <3>2
      <4> QED BY <1>7, <1>8, <4>1
    <3> QED BY <1>2, <3>1, <3>2
  <2> QED BY <1>8, <2>1
<1>5. Distinct(t)
  BY <1>2, <1>4 DEF Distinct
<1>6. ASSUME NEW y PROVE Lists(t, y) <=> Lists(s, y) /\ y # x
  <2>1. ASSUME Lists(t, y) PROVE Lists(s, y) /\ y # x
    BY <1>2, <1>4, <2>1 DEF Lists, Distinct
  <2>2. ASSUME Lists(s, y), y # x PROVE Lists(t, y)
    <3>1. PICK k \in 1 .. Len(s) : s[k] = y
      BY <2>2 DEF Lists
    <3>2. CASE k < i
      BY <3>1, <3>2, <1>2, <1>4 DEF Lists
    <3>3. CASE k > i
      <4>1. k - 1 \in 1 .. Len(t) /\ t[k - 1] = s[k]
        BY <3>1, <3>3, <1>2, <1>4
      <4> QED BY <4>1, <3>1 DEF Lists
    <3> QED BY <3>1, <3>2, <3>3, <2>2, <1>2
  <2> QED BY <2>1, <2>2
<1> QED BY <1>4, <1>5, <1>6

\* Turning the ring of servers keeps what is in it.
LEMMA RotatedFacts ==
  ASSUME NEW X, NEW s \in Seq(X), Distinct(s), NEW i \in 1 .. Len(s), NEW t, t = RotatedBy(s, i)
  PROVE  /\ t \in Seq(X) /\ Distinct(t) /\ Len(t) = Len(s)
         /\ \A y : Lists(t, y) <=> Lists(s, y)
<1> DEFINE u == SubSeq(s, i + 1, Len(s))
           v == SubSeq(s, 1, i)
           k == Len(s) - i
<1>4. k \in Nat /\ i \in Nat \ {0} /\ Len(s) = k + i
  OBVIOUS
<1>5. /\ u \in Seq(X) /\ Len(u) = k /\ \A j \in 1 .. Len(u) : u[j] = s[j + i]
      /\ v \in Seq(X) /\ Len(v) = i /\ \A j \in 1 .. Len(v) : v[j] = s[j]
  OBVIOUS
<1>6. t = u \o v
  BY DEF RotatedBy
<1> HIDE DEF u, v, k
<1>11. Joined(X, t, u, v)
  BY <1>5, <1>6, JoinedFacts, Zenon
<1>10. /\ t \in Seq(X) /\ Len(t) = Len(u) + Len(v)
       /\ \A j \in 1 .. Len(t) : t[j] = IF j <= Len(u) THEN u[j] ELSE v[j - Len(u)]
  BY <1>11 DEF Joined
<1>7. t \in Seq(X) /\ Len(t) = k + i
  BY <1>5, <1>10
<1>8. ASSUME NEW j \in 1 .. k PROVE j \in 1 .. Len(t) /\ j + i \in 1 .. Len(s) /\ t[j] = s[j + i]
  BY <1>4, <1>5, <1>7, <1>10
<1>9. ASSUME NEW j \in 1 .. i PROVE k + j \in 1 .. Len(t) /\ j \in 1 .. Len(s) /\ t[k + j] = s[j]
  <2>1. k + j \in 1 .. Len(t) /\ j \in 1 .. Len(s) /\ ~(k + j <= k) /\ (k + j) - k = j
    BY <1>4, <1>7
  <2> QED BY <2>1, <1>5, <1>10
<1>1. ASSUME NEW j \in 1 .. Len(t)
      PROVE  \/ j \in 1 .. k /\ j + i \in 1 .. Len(s) /\ t[j] = s[j + i]
             \/ j - k \in 1 .. i /\ j - k \in 1 .. Len(s) /\ t[j] = s[j - k]
  <2>1. CASE j <= k
    <3>1. j \in 1 .. k
      BY <1>4, <1>7, <2>1
    <3> QED BY <3>1, <1>8
  <2>2. CASE j > k
    <3>1. j - k \in 1 .. i /\ k + (j - k) = j
      BY <1>4, <1>7, <2>2
    <3> QED BY <3>1, <1>9
  <2> QED BY <2>1, <2>2, <1>4
<1>2. Distinct(t)
  <2> SUFFICES ASSUME NEW a \in 1 .. Len(t), NEW d \in 1 .. Len(t), t[a] = t[d] PROVE a = d
    BY DEF Distinct
  <2> QED BY <1>1, <1>4, <1>7 DEF Distinct
<1>3. ASSUME NEW y PROVE Lists(t, y) <=> Lists(s, y)
  <2>1. ASSUME Lists(t, y) PROVE Lists(s, y)
    <3>1. PICK j \in 1 .. Len(t) : t[j] = y
      BY <2>1 DEF Lists
    <3> QED BY <3>1, <1>1 DEF Lists
  <2>2. ASSUME Lists(s, y) PROVE Lists(t, y)
    <3>1. PICK j \in 1 .. Len(s) : s[j] = y
      BY <2>2 DEF Lists
    <3>2. CASE j <= i
      <4>1. j \in 1 .. i
        BY <3>2, <1>4
      <4> QED BY <3>1, <4>1, <1>9 DEF Lists
    <3>3. CASE j > i
      <4>1. j - i \in 1 .. k /\ (j - i) + i = j
        BY <3>3, <1>4
      <4> QED BY <3>1, <4>1, <1>8 DEF Lists
    <3> QED BY <3>2, <3>3, <1>4
  <2> QED BY <2>1, <2>2
<1> QED BY <1>2, <1>3, <1>4, <1>7

\* The least of some numbers.
LEMMA LeastExists ==
  ASSUME NEW T \in SUBSET Nat, T # {}
  PROVE  \E x \in T : \A y \in T : x <= y
<1> DEFINE R == OpToRel(<, Nat)
<1>1. \A x, y \in Nat : x < y <=> <<x, y>> \in R
  BY DEF OpToRel
<1>2. \E x \in T : \A y \in T : ~(<<y, x>> \in R)
  BY NatLessThanWellFounded, WFMin
<1> HIDE DEF R
<1>3. PICK x \in T : \A y \in T : ~(<<y, x>> \in R)
  BY <1>2
<1>4. ASSUME NEW y \in T PROVE x <= y
  <2>1. x \in Nat /\ y \in Nat /\ ~(<<y, x>> \in R)
    BY <1>3
  <2>2. ~(y < x)
    BY <2>1, <1>1
  <2> QED BY <2>1, <2>2
<1> QED BY <1>3, <1>4

-----------------------------------------------------------------------------
(* The client: what its fields hold.                                       *)

Fields == {"servers", "good", "ns", "inflight", "waiting", "ninflight", "nwaiting",
           "max_inflight", "probes", "hnd", "req", "search", "global", "deferred", "told",
           "asked", "net", "draw", "faults", "config", "suspended", "halfFreed",
           "dangling", "freed"}

Ids == 0 .. NIds - 1
Names == ((Handles \cup {None}) \X (Domains \cup {None})) \cup {None}

Server == [state : BOOLEAN, timedout : Nat, choked : BOOLEAN, write_waiting : BOOLEAN,
           timeout : BOOLEAN, probe : Probes \cup {None}, requests_inflight : Int,
           event : BOOLEAN]
Request == [ns : Servers \cup {None}, tx_count : Nat, reissue_count : Nat,
            transmit_me : BOOLEAN, trans_id : 0 .. NIds, name : Names, timeout : BOOLEAN]
Handle == [current_req : BOOLEAN, pending_cb : BOOLEAN, ns : Servers \cup {None},
           search_index : Nat \cup {-1}, search_state : States \cup {None}]

\* The parts that sending and choosing servers work on.
NetTyped(b) ==
  /\ DOMAIN b = Fields
  /\ b.servers \in Seq(Servers) /\ b.inflight \in Seq(Handles) /\ b.waiting \in Seq(Handles)
  /\ b.ns \in [Servers -> Server] /\ b.req \in [Handles -> Request]
  /\ b.draw \in Seq(Ids) /\ b.draw # <<>>

\* A step that changes at most the fields of F; what choosing and sending leave alone.
Changes(b, c, F) == DOMAIN c = Fields /\ \A f \in Fields \ F : c[f] = b[f]

ListFields == {"servers", "good", "inflight", "waiting", "ninflight", "nwaiting"}
ClientFields == {"max_inflight", "probes", "hnd", "search", "global", "deferred", "told",
                 "asked", "config", "suspended", "halfFreed", "freed"}
Same(b, c, F) == \A f \in F : c[f] = b[f]

\* The lists are what the requests' fields say.  The requests of U are in hand: they are
\* between two lists, or in none yet.
ListedOK(b, x, U) ==
  /\ ~(Lists(b.inflight, x) /\ Lists(b.waiting, x))
  /\ b.req[x].ns # None => Lists(b.servers, b.req[x].ns)
  /\ b.req[x].ns = None => ~b.req[x].timeout
  /\ x \in U => ~Lists(b.inflight, x) /\ ~Lists(b.waiting, x)
  /\ x \notin U => /\ Lists(b.inflight, x) \/ Lists(b.waiting, x) <=> b.hnd[x].current_req
                   /\ b.req[x].ns # None <=> Lists(b.inflight, x)

ListsOK(b, U) ==
  /\ Distinct(b.inflight) /\ Distinct(b.waiting) /\ Distinct(b.servers)
  /\ b.ninflight = Len(b.inflight) /\ b.nwaiting = Len(b.waiting)
  /\ \A x \in Handles : ListedOK(b, x, U)

UpServers(b) == {n \in Servers : Lists(b.servers, n) /\ b.ns[n].state}
Load(b, n) == {x \in Handles : Lists(b.inflight, x) /\ b.req[x].ns = n}
CountsOK(b) ==
  /\ b.good = Cardinality(UpServers(b))
  /\ \A n \in Servers :
        Lists(b.servers, n) => b.ns[n].requests_inflight = Cardinality(Load(b, n))

SearchedOn(b, x) == IF x \in Dotted THEN b.hnd[x].search_state # None /\ b.hnd[x].search_index # -1
                    ELSE b.hnd[x].search_index # 0
IdsOK(b) ==
  \A x, y \in Handles : Lists(b.inflight, x) /\ Lists(b.inflight, y)
                        /\ b.req[x].trans_id = b.req[y].trans_id
                        => x = y \/ SearchedOn(b, x) \/ SearchedOn(b, y)

Core(b, U) == NetTyped(b) /\ b.hnd \in [Handles -> Handle] /\ ListsOK(b, U) /\ CountsOK(b) /\ IdsOK(b)

\* What choosing and sending do to the rest: servers may fail, nothing else.
ServerKept(k, m) ==
  /\ m.probe = k.probe
  /\ (m.state = k.state /\ m.timeout = k.timeout) \/ (k.state /\ ~m.state /\ m.timeout)
Kept(b, c) ==
  /\ Same(b, c, ClientFields)
  /\ \A n \in Servers : (Lists(c.servers, n) <=> Lists(b.servers, n)) /\ ServerKept(b.ns[n], c.ns[n])
  /\ \A x \in Handles : ~Lists(b.inflight, x) /\ ~Lists(b.waiting, x) => c.req[x] = b.req[x]
SameQueues(b, c) ==
  /\ c.inflight = b.inflight /\ c.waiting = b.waiting
  /\ c.ninflight = b.ninflight /\ c.nwaiting = b.nwaiting

\* A request in flight is watched: its timer runs, or it is to be transmitted and some
\* socket is waited for.
ServerWatched(k) == (k.choked => k.write_waiting) /\ (k.write_waiting => k.event)
SomeWaits(b) == \E n \in Servers : Lists(b.servers, n) /\ b.ns[n].write_waiting
Watched(b, X) ==
  /\ \A n \in Servers : ServerWatched(b.ns[n])
  /\ \A x \in Handles : Lists(b.inflight, x) /\ x \notin X =>
        b.req[x].timeout \/ (b.req[x].transmit_me /\ SomeWaits(b))

\* A change that no list, count or choice depends on.
QuietServer(k, m) ==
  /\ m.state = k.state /\ m.requests_inflight = k.requests_inflight
  /\ m.probe = k.probe /\ m.timeout = k.timeout
QuietRequest(r, q) == q.ns = r.ns /\ q.trans_id = r.trans_id

Quiet(b, c) ==
  /\ NetTyped(c) /\ Same(b, c, ClientFields) /\ Same(b, c, ListFields)
  /\ \A n \in Servers : QuietServer(b.ns[n], c.ns[n])
  /\ \A x \in Handles : QuietRequest(b.req[x], c.req[x])
  /\ \A x \in Handles : ~Lists(b.inflight, x) => c.req[x] = b.req[x]

LEMMA QuietKeeps ==
  ASSUME NEW b, NEW U, Core(b, U), NEW c, Quiet(b, c)
  PROVE  Core(c, U) /\ Kept(b, c) /\ SameQueues(b, c)
<1>1. /\ c.servers = b.servers /\ c.inflight = b.inflight /\ c.waiting = b.waiting /\ c.hnd = b.hnd
      /\ c.ninflight = b.ninflight /\ c.nwaiting = b.nwaiting /\ c.good = b.good
  BY DEF Quiet, Same, ListFields, ClientFields
<1>2. ListsOK(c, U)
  <2>1. ASSUME NEW x \in Handles PROVE ListedOK(c, x, U)
    BY <1>1 DEF Core, ListsOK, ListedOK, Quiet, QuietRequest
  <2> QED BY <1>1, <2>1 DEF Core, ListsOK
<1>3. CountsOK(c)
  <2>1. UpServers(c) = UpServers(b)
    BY <1>1 DEF UpServers, Quiet, QuietServer
  <2>2. \A n \in Servers : Load(c, n) = Load(b, n)
    BY <1>1 DEF Load, Quiet, QuietRequest
  <2> QED BY <1>1, <2>1, <2>2 DEF CountsOK, Core, Quiet, QuietServer
<1>4. IdsOK(c)
  BY <1>1 DEF Core, IdsOK, Quiet, QuietRequest, SearchedOn
<1>5. Kept(b, c)
  BY <1>1 DEF Kept, ServerKept, Quiet, QuietServer
<1>6. SameQueues(b, c)
  BY <1>1 DEF SameQueues
<1> QED BY <1>1, <1>2, <1>3, <1>4, <1>5, <1>6 DEF Core, Quiet

\* One server, or one request, is changed in a quiet way.
ServerPut(b, c, n, k) == c.ns = [b.ns EXCEPT ![n] = k] /\ k \in Server
RequestPut(b, c, x, r) == c.req = [b.req EXCEPT ![x] = r] /\ r \in Request

ServerPutQuietly(b, c, n, k) ==
  /\ Quiet(b, c) /\ c.req = b.req /\ c.ns[n] = k
  /\ \A m \in Servers : m # n => c.ns[m] = b.ns[m]

LEMMA QuietServerPut ==
  ASSUME NEW b, NetTyped(b), NEW c, Changes(b, c, {"ns", "net", "faults"}), NEW n \in Servers,
         NEW k, ServerPut(b, c, n, k), QuietServer(b.ns[n], k)
  PROVE  ServerPutQuietly(b, c, n, k)
<1>1. Same(b, c, ClientFields) /\ Same(b, c, ListFields) /\ c.req = b.req /\ c.draw = b.draw
  BY DEF Changes, Same, ClientFields, ListFields, Fields
<1>2. /\ c.ns \in [Servers -> Server] /\ \A m \in Servers : QuietServer(b.ns[m], c.ns[m])
      /\ c.ns[n] = k /\ \A m \in Servers : m # n => c.ns[m] = b.ns[m]
  BY DEF ServerPut, QuietServer, NetTyped
<1>3. NetTyped(c)
  BY <1>1, <1>2 DEF NetTyped, Changes, Same, ListFields
<1> QED BY <1>1, <1>2, <1>3 DEF Quiet, QuietRequest, ServerPutQuietly

LEMMA QuietServerStep ==
  ASSUME NEW b, NetTyped(b), NEW c, Changes(b, c, {"ns", "net", "faults"}), NEW n \in Servers,
         NEW k, ServerPut(b, c, n, k), QuietServer(b.ns[n], k)
  PROVE  /\ Quiet(b, c) /\ c.req = b.req /\ c.ns[n] = k
         /\ \A m \in Servers : m # n => c.ns[m] = b.ns[m]
<1>1. ServerPutQuietly(b, c, n, k)
  BY QuietServerPut
<1> QED BY <1>1, Zenon DEF ServerPutQuietly

LEMMA QuietRequestStep ==
  ASSUME NEW b, NetTyped(b), NEW c, Changes(b, c, {"req", "net", "faults"}), NEW x \in Handles,
         NEW r, RequestPut(b, c, x, r), QuietRequest(b.req[x], r), Lists(b.inflight, x)
  PROVE  /\ Quiet(b, c) /\ c.ns = b.ns /\ c.req[x] = r
         /\ \A y \in Handles : y # x => c.req[y] = b.req[y]
<1>1. Same(b, c, ClientFields) /\ Same(b, c, ListFields) /\ c.ns = b.ns /\ c.draw = b.draw
  BY DEF Changes, Same, ClientFields, ListFields, Fields
<1>2. /\ c.req \in [Handles -> Request] /\ \A y \in Handles : QuietRequest(b.req[y], c.req[y])
      /\ c.req[x] = r /\ \A y \in Handles : y # x => c.req[y] = b.req[y]
  BY DEF RequestPut, QuietRequest, NetTyped
<1>3. NetTyped(c)
  BY <1>1, <1>2 DEF NetTyped, Changes, Same, ListFields
<1> QED BY <1>1, <1>2, <1>3 DEF Quiet, QuietServer

LEMMA QuietOther ==
  ASSUME NEW b, NetTyped(b), NEW c, Changes(b, c, {"net", "faults"})
  PROVE  Quiet(b, c) /\ c.ns = b.ns /\ c.req = b.req
<1>1. /\ Same(b, c, ClientFields) /\ Same(b, c, ListFields) /\ c.req = b.req /\ c.draw = b.draw
      /\ c.ns = b.ns
  BY DEF Changes, Same, ClientFields, ListFields, Fields
<1>3. NetTyped(c)
  BY <1>1 DEF NetTyped, Changes, Same, ListFields
<1> QED BY <1>1, <1>3 DEF Quiet, QuietServer, QuietRequest

LEMMA QuietTwice ==
  ASSUME NEW b, NEW c, NEW d, Quiet(b, c), Quiet(c, d)
  PROVE  Quiet(b, d)
<1>1. c.inflight = b.inflight
  BY DEF Quiet, Same, ListFields
<1> QED BY <1>1 DEF Quiet, Same, QuietServer, QuietRequest

LEMMA QuietSelf ==
  ASSUME NEW b, NetTyped(b)
  PROVE  Quiet(b, b)
BY DEF Quiet, Same, QuietServer, QuietRequest

-----------------------------------------------------------------------------
(* The client: choosing a server.                                          *)

LEMMA FirstUpFacts ==
  ASSUME NEW b, NetTyped(b), b.good = Cardinality(UpServers(b)), b.good # 0
  PROVE  FirstUp(b) \in 1 .. Len(b.servers) /\ b.ns[b.servers[FirstUp(b)]].state
<1> DEFINE T == {i \in 1 .. Len(b.servers) : b.ns[b.servers[i]].state}
<1>1. b.servers \in Seq(Servers) /\ DOMAIN b.servers = 1 .. Len(b.servers) /\ Len(b.servers) \in Nat
  BY DEF NetTyped
<1>2. UpServers(b) # {}
  BY FS_EmptySet
<1>3. T # {}
  BY <1>2 DEF UpServers, Lists
<1>4. T \in SUBSET Nat
  BY <1>1
<1>5. PICK i \in T : \A j \in T : i <= j
  <2> HIDE DEF T
  <2> QED BY <1>3, <1>4, LeastExists
<1>6. \A j \in 1 .. i - 1 : ~b.ns[b.servers[j]].state
  <2> SUFFICES ASSUME NEW j \in 1 .. i - 1, b.ns[b.servers[j]].state PROVE FALSE
    OBVIOUS
  <2>1. i \in 1 .. Len(b.servers)
    OBVIOUS
  <2>2. j \in T /\ ~(i <= j)
    BY <2>1, <1>1
  <2> QED BY <2>2, <1>5
<1>7. i \in DOMAIN b.servers /\ b.ns[b.servers[i]].state
  BY <1>1
<1>8. \E k \in DOMAIN b.servers : b.ns[b.servers[k]].state /\ \A j \in 1 .. k - 1 : ~b.ns[b.servers[j]].state
  BY <1>6, <1>7
<1>9. FirstUp(b) \in DOMAIN b.servers /\ b.ns[b.servers[FirstUp(b)]].state
  BY <1>8, Zenon DEF FirstUp
<1> QED BY <1>1, <1>9

\* nameserver_pick gives a server of the ring and only turns the ring.
Turned(b, c) ==
  /\ Changes(b, c, {"servers", "dangling"}) /\ c.servers \in Seq(Servers) /\ Distinct(c.servers)
  /\ \A n : Lists(c.servers, n) <=> Lists(b.servers, n)

LEMMA TurnedKeeps ==
  ASSUME NEW b, NEW U, Core(b, U), NEW c, Turned(b, c)
  PROVE  /\ Core(c, U) /\ Kept(b, c) /\ SameQueues(b, c) /\ c.ns = b.ns /\ c.req = b.req
         /\ c.good = b.good /\ c.draw = b.draw
<1>1. /\ c.inflight = b.inflight /\ c.waiting = b.waiting /\ c.hnd = b.hnd /\ c.ns = b.ns
      /\ c.ninflight = b.ninflight /\ c.nwaiting = b.nwaiting /\ c.good = b.good /\ c.req = b.req
      /\ c.draw = b.draw /\ Same(b, c, ClientFields)
  BY DEF Turned, Changes, Fields, Same, ClientFields
<1>2. ListsOK(c, U)
  BY <1>1 DEF Core, ListsOK, ListedOK, Turned
<1>3. UpServers(c) = UpServers(b) /\ \A n \in Servers : Load(c, n) = Load(b, n)
  BY <1>1 DEF UpServers, Load, Turned
<1>4. CountsOK(c)
  BY <1>1, <1>3 DEF CountsOK, Core, Turned
<1>5. IdsOK(c)
  BY <1>1 DEF Core, IdsOK, SearchedOn
<1>6. NetTyped(c)
  BY <1>1 DEF Core, NetTyped, Turned, Changes
<1>7. Kept(b, c) /\ SameQueues(b, c)
  BY <1>1 DEF Kept, SameQueues, ServerKept, Turned
<1> QED BY <1>1, <1>2, <1>4, <1>5, <1>6, <1>7 DEF Core

LEMMA PickFacts ==
  ASSUME NEW b, NEW U, Core(b, U)
  PROVE  /\ b.servers = <<>> => nameserver_pick(b) = None
         /\ b.servers # <<>> => nameserver_pick(b) \in Servers /\ Lists(b.servers, nameserver_pick(b))
         /\ Turned(b, AfterPick(b))
<1>1. /\ b.servers \in Seq(Servers) /\ Len(b.servers) \in Nat /\ Distinct(b.servers)
      /\ DOMAIN b = Fields
  BY DEF Core, NetTyped, ListsOK
<1>2. CASE b.servers = <<>>
  <2>1. AfterPick(b) = b /\ nameserver_pick(b) = None
    BY <1>2 DEF AfterPick, nameserver_pick
  <2> QED BY <1>1, <1>2, <2>1 DEF Turned, Changes
<1>3. CASE b.servers # <<>>
  <2> DEFINE i == IF b.good = 0 THEN 1 ELSE FirstUp(b)
             t == RotatedBy(b.servers, i)
  <2>1. i \in 1 .. Len(b.servers)
    <3>1. 1 \in 1 .. Len(b.servers)
      BY <1>1, <1>3
    <3>2. b.good # 0 => FirstUp(b) \in 1 .. Len(b.servers)
      BY FirstUpFacts DEF Core, CountsOK
    <3> QED BY <3>1, <3>2
  <2>2. /\ t \in Seq(Servers) /\ Distinct(t) /\ Len(t) = Len(b.servers)
        /\ \A n : Lists(t, n) <=> Lists(b.servers, n)
    BY <1>1, <2>1, RotatedFacts
  <2>3. Changes(b, AfterPick(b), {"servers", "dangling"}) /\ AfterPick(b).servers = t
    BY <1>1, <1>3 DEF AfterPick, Changes, Fields
  <2>4. Turned(b, AfterPick(b))
    <3> HIDE DEF t
    <3> QED BY <2>2, <2>3 DEF Turned
  <2>5. nameserver_pick(b) \in Servers /\ Lists(b.servers, nameserver_pick(b))
    <3>1. CASE b.good = 0
      <4>1. nameserver_pick(b) = Head(t)
        BY <1>3, <3>1 DEF nameserver_pick
      <4>2. t # <<>>
        <5> HIDE DEF t
        <5> QED BY <1>1, <1>3, <2>2
      <4>3. Head(t) \in Servers /\ Lists(t, Head(t))
        <5> HIDE DEF t
        <5> QED BY <2>2, <4>2, MembersFacts
      <4> QED BY <4>1, <4>3, <2>2
    <3>2. CASE b.good # 0
      <4>1. nameserver_pick(b) = b.servers[i]
        BY <1>3, <3>2 DEF nameserver_pick
      <4> HIDE DEF i
      <4> QED BY <4>1, <2>1, <1>1 DEF Lists
    <3> QED BY <3>1, <3>2
  <2> QED BY <1>3, <2>4, <2>5
<1> QED BY <1>2, <1>3

\* Neither timers and transmissions nor sockets are touched.
Steady(b, c) ==
  /\ \A n \in Servers : /\ c.ns[n].choked = b.ns[n].choked /\ c.ns[n].event = b.ns[n].event
                        /\ c.ns[n].write_waiting = b.ns[n].write_waiting
  /\ \A x \in Handles : /\ c.req[x].timeout = b.req[x].timeout
                        /\ c.req[x].transmit_me = b.req[x].transmit_me

LEMMA SteadyWatched ==
  ASSUME NEW b, NEW c, NEW X, Steady(b, c), Kept(b, c), SameQueues(b, c), Watched(b, X)
  PROVE  Watched(c, X)
BY DEF Steady, Kept, SameQueues, Watched, ServerWatched, SomeWaits

LEMMA KeptTwice ==
  ASSUME NEW b, NEW c, NEW d, Kept(b, c), Kept(c, d), SameQueues(b, c)
  PROVE  Kept(b, d)
<1>1. Same(b, d, ClientFields)
  BY DEF Kept, Same
<1>2. \A n \in Servers : (Lists(d.servers, n) <=> Lists(b.servers, n)) /\ ServerKept(b.ns[n], d.ns[n])
  BY DEF Kept, ServerKept
<1>3. \A x \in Handles : ~Lists(b.inflight, x) /\ ~Lists(b.waiting, x) => d.req[x] = b.req[x]
  BY DEF Kept, SameQueues
<1> QED BY <1>1, <1>2, <1>3 DEF Kept

LEMMA SteadyTwice ==
  ASSUME NEW b, NEW c, NEW d, Steady(b, c), Steady(c, d)
  PROVE  Steady(b, d)
BY DEF Steady

\* Everything that a step of choosing a server keeps.
Moved(b, c, U) == Core(c, U) /\ Kept(b, c) /\ SameQueues(b, c) /\ Steady(b, c)

LEMMA MovedTwice ==
  ASSUME NEW b, NEW c, NEW d, NEW U, Moved(b, c, U), Moved(c, d, U)
  PROVE  Moved(b, d, U)
<1>1. SameQueues(b, d)
  BY DEF Moved, SameQueues
<1> QED BY <1>1, KeptTwice, SteadyTwice DEF Moved

LEMMA MovedSelf ==
  ASSUME NEW b, NEW U, Core(b, U)
  PROVE  Moved(b, b, U)
BY DEF Moved, Kept, SameQueues, Steady, Same, ServerKept

LEMMA TurnedMoved ==
  ASSUME NEW b, NEW U, Core(b, U), NEW c, Turned(b, c)
  PROVE  Moved(b, c, U)
BY TurnedKeeps DEF Moved, Steady

-----------------------------------------------------------------------------
(* The client: counts.                                                     *)

LEMMA FiniteHandles ==
  ASSUME NEW T \in SUBSET Handles
  PROVE  IsFiniteSet(T) /\ Cardinality(T) \in Nat
BY FS_Subset, FS_CardinalityType, LimitAssumption DEF Handles

LEMMA FiniteServers ==
  ASSUME NEW T \in SUBSET Servers
  PROVE  IsFiniteSet(T) /\ Cardinality(T) \in Nat
BY FS_Subset, FS_CardinalityType, ServersAssumption

LEMMA OneMore ==
  ASSUME NEW T, IsFiniteSet(T), NEW x, x \notin T
  PROVE  Cardinality(T \cup {x}) = Cardinality(T) + 1
BY FS_AddElement

LEMMA OneFewer ==
  ASSUME NEW T, IsFiniteSet(T), NEW x, x \in T
  PROVE  Cardinality(T \ {x}) = Cardinality(T) - 1
BY FS_RemoveElement

LEMMA LoadFinite ==
  ASSUME NEW b, NEW n
  PROVE  IsFiniteSet(Load(b, n)) /\ Cardinality(Load(b, n)) \in Nat
<1>1. Load(b, n) \in SUBSET Handles
  BY DEF Load
<1> QED BY <1>1, FiniteHandles

LEMMA UpFinite ==
  ASSUME NEW b
  PROVE  IsFiniteSet(UpServers(b)) /\ Cardinality(UpServers(b)) \in Nat
<1>1. UpServers(b) \in SUBSET Servers
  BY DEF UpServers
<1> QED BY <1>1, FiniteServers

-----------------------------------------------------------------------------
(* The client: moving requests to other servers.                           *)

\* The fields of a server that is given, or loses, a request.
Loaded(k, d) == [k EXCEPT !.requests_inflight = @ + d]

LoadedOK(k, m, d) ==
  /\ m \in Server /\ m.requests_inflight = k.requests_inflight + d
  /\ m.state = k.state /\ m.timeout = k.timeout /\ m.probe = k.probe /\ m.choked = k.choked
  /\ m.write_waiting = k.write_waiting /\ m.event = k.event

LEMMA LoadedFacts ==
  ASSUME NEW k \in Server, NEW d \in Int
  PROVE  LoadedOK(k, Loaded(k, d), d)
BY DEF Loaded, LoadedOK, Server

LEMMA SwapFields ==
  ASSUME NEW b, NetTyped(b), NEW x \in Handles, NEW m \in Servers, m = b.req[x].ns,
         NEW n \in Servers, n # m, NEW c, c = request_swap_ns(b, x, n)
  PROVE  /\ Changes(b, c, {"ns", "req"})
         /\ c.ns = [b.ns EXCEPT ![m] = Loaded(b.ns[m], -1), ![n] = Loaded(b.ns[n], 1)]
         /\ c.req = [b.req EXCEPT ![x] = [b.req[x] EXCEPT !.ns = n]]
<1>1. DOMAIN b = Fields /\ b.ns \in [Servers -> Server] /\ b.req \in [Handles -> Request] /\ n # None
  BY NoneAssumption DEF NetTyped
<1>2. c = [b EXCEPT !.ns[b.req[x].ns].requests_inflight = @ - 1,
                   !.ns[n].requests_inflight = @ + 1,
                   !.req[x].ns = n]
  BY <1>1 DEF request_swap_ns
<1>3. Changes(b, c, {"ns", "req"})
  BY <1>1, <1>2 DEF Changes
<1>4. c.req = [b.req EXCEPT ![x] = [b.req[x] EXCEPT !.ns = n]]
  BY <1>1, <1>2 DEF Fields
<1>5. c.ns = [b.ns EXCEPT ![m] = Loaded(b.ns[m], -1), ![n] = Loaded(b.ns[n], 1)]
  BY <1>1, <1>2 DEF Fields, Loaded
<1> QED BY <1>3, <1>4, <1>5

LEMMA SwapMoved ==
  ASSUME NEW b, NEW U, Core(b, U), NEW x \in Handles, Lists(b.inflight, x),
         NEW n \in Servers, Lists(b.servers, n), NEW c, c = request_swap_ns(b, x, n)
  PROVE  Moved(b, c, U)
<1>1. /\ NetTyped(b) /\ b.ns \in [Servers -> Server] /\ b.req \in [Handles -> Request]
      /\ x \notin U /\ b.req[x].ns # None /\ Lists(b.servers, b.req[x].ns)
  BY DEF Core, NetTyped, ListsOK, ListedOK
<1>2. CASE b.req[x].ns = n
  <2>1. c = b
    BY <1>2 DEF request_swap_ns
  <2> QED BY <2>1, MovedSelf
<1>3. CASE b.req[x].ns # n
  <2>1. PICK m \in Servers : m = b.req[x].ns
    BY <1>1 DEF Request
  <2> DEFINE q == [b.req[x] EXCEPT !.ns = n]
  <2>2. /\ Changes(b, c, {"ns", "req"})
        /\ c.ns = [b.ns EXCEPT ![m] = Loaded(b.ns[m], -1), ![n] = Loaded(b.ns[n], 1)]
        /\ c.req = [b.req EXCEPT ![x] = q]
    BY <1>1, <1>3, <2>1, SwapFields
  <2>3. /\ q \in Request /\ q.ns = n /\ q.timeout = b.req[x].timeout
        /\ q.transmit_me = b.req[x].transmit_me /\ q.trans_id = b.req[x].trans_id
    BY <1>1 DEF Request
  <2>4. /\ c.req \in [Handles -> Request] /\ c.req[x] = q
        /\ \A y \in Handles : y # x => c.req[y] = b.req[y]
    <3> HIDE DEF q
    <3> QED BY <1>1, <2>2, <2>3
  <2> HIDE DEF q
  <2> DEFINE km == Loaded(b.ns[m], -1)
             kn == Loaded(b.ns[n], 1)
  <2>13. b.ns[m] \in Server /\ b.ns[n] \in Server /\ -1 \in Int /\ 1 \in Int
    BY <1>1
  <2>14. LoadedOK(b.ns[m], km, -1) /\ LoadedOK(b.ns[n], kn, 1)
    BY <2>13, LoadedFacts, Zenon
  <2> HIDE DEF km, kn
  <2>16. c.ns = [b.ns EXCEPT ![m] = km, ![n] = kn]
    BY <2>2 DEF km, kn
  <2>5. /\ c.ns \in [Servers -> Server] /\ c.ns[m] = km /\ c.ns[n] = kn
        /\ \A k \in Servers : k # m /\ k # n => c.ns[k] = b.ns[k]
    BY <1>1, <1>3, <2>1, <2>14, <2>16 DEF LoadedOK
  <2>6. /\ c.servers = b.servers /\ c.inflight = b.inflight /\ c.waiting = b.waiting /\ c.hnd = b.hnd
        /\ c.ninflight = b.ninflight /\ c.nwaiting = b.nwaiting /\ c.good = b.good /\ c.draw = b.draw
        /\ DOMAIN c = Fields /\ Same(b, c, ClientFields)
    BY <2>2 DEF Changes, Fields, Same, ClientFields
  <2>7. NetTyped(c)
    BY <1>1, <2>4, <2>5, <2>6 DEF NetTyped
  <2>8. /\ c.ns[m].requests_inflight = b.ns[m].requests_inflight - 1
        /\ c.ns[n].requests_inflight = b.ns[n].requests_inflight + 1
        /\ \A k \in Servers : /\ c.ns[k].state = b.ns[k].state /\ c.ns[k].timeout = b.ns[k].timeout
                              /\ c.ns[k].probe = b.ns[k].probe /\ c.ns[k].choked = b.ns[k].choked
                              /\ c.ns[k].write_waiting = b.ns[k].write_waiting
                              /\ c.ns[k].event = b.ns[k].event
    BY <1>1, <2>5, <2>14 DEF LoadedOK, Server
  <2>9. ListsOK(c, U)
    <3>1. ASSUME NEW y \in Handles PROVE ListedOK(c, y, U)
      BY <1>1, <2>3, <2>4, <2>6, NoneAssumption DEF Core, ListsOK, ListedOK
    <3> QED BY <2>6, <3>1 DEF Core, ListsOK
  <2>10. CountsOK(c)
    <3>1. UpServers(c) = UpServers(b)
      BY <2>6, <2>8 DEF UpServers
    <3>2. Load(c, m) = Load(b, m) \ {x} /\ x \in Load(b, m)
      BY <1>3, <2>1, <2>3, <2>4, <2>6 DEF Load
    <3>3. Load(c, n) = Load(b, n) \cup {x} /\ x \notin Load(b, n)
      BY <1>3, <2>1, <2>3, <2>4, <2>6 DEF Load
    <3>4. \A k \in Servers : k # m /\ k # n => Load(c, k) = Load(b, k)
      BY <2>1, <2>3, <2>4, <2>6 DEF Load
    <3>5. /\ Cardinality(Load(c, m)) = Cardinality(Load(b, m)) - 1
          /\ Cardinality(Load(c, n)) = Cardinality(Load(b, n)) + 1
      BY <3>2, <3>3, LoadFinite, OneMore, OneFewer
    <3>6. \A k \in Servers : Lists(b.servers, k) => b.ns[k].requests_inflight = Cardinality(Load(b, k))
      BY DEF Core, CountsOK
    <3>7. ASSUME NEW k \in Servers, Lists(c.servers, k)
          PROVE  c.ns[k].requests_inflight = Cardinality(Load(c, k))
      BY <3>4, <3>5, <3>6, <3>7, <2>5, <2>6, <2>8
    <3> QED BY <3>1, <3>7, <2>6 DEF Core, CountsOK
  <2>11. IdsOK(c)
    BY <2>3, <2>4, <2>6 DEF Core, IdsOK, SearchedOn
  <2>12. Kept(b, c) /\ SameQueues(b, c) /\ Steady(b, c)
    BY <2>3, <2>4, <2>6, <2>8 DEF Kept, SameQueues, Steady, ServerKept
  <2> QED BY <1>1, <2>6, <2>7, <2>9, <2>10, <2>11, <2>12 DEF Core, Moved
<1> QED BY <1>2, <1>3

LEMMA SwapToPickedMoved ==
  ASSUME NEW b, NEW U, Core(b, U), NEW x \in Handles, Lists(b.inflight, x),
         NEW c, c = SwapToPicked(b, x)
  PROVE  Moved(b, c, U)
<1> DEFINE d == AfterPick(b)
           n == nameserver_pick(b)
<1>1. Turned(b, d) /\ Moved(b, d, U)
  BY PickFacts, TurnedMoved
<1>2. c = request_swap_ns(d, x, n)
  BY DEF SwapToPicked
<1>3. b.servers # <<>>
  BY NoneAssumption DEF Core, ListsOK, ListedOK, Lists
<1>4. n \in Servers /\ Lists(b.servers, n)
  BY <1>3, PickFacts
<1> HIDE DEF d, n
<1>5. Core(d, U) /\ Lists(d.inflight, x) /\ Lists(d.servers, n)
  BY <1>1, <1>4 DEF Moved, SameQueues, Turned
<1>6. Moved(d, c, U)
  BY <1>2, <1>4, <1>5, SwapMoved
<1> QED BY <1>1, <1>6, MovedTwice

LEMMA ReassignedSteps ==
  ASSUME NEW b, NEW n, Len(b.inflight) \in Nat
  PROVE  /\ Reassigned(b, n)[0] = b
         /\ \A i \in 1 .. Len(b.inflight) :
               Reassigned(b, n)[i] = ReassignOne(Reassigned(b, n)[i - 1], b.inflight[i], n)
<1> DEFINE Is(m, g) == g = [i \in 0 .. m |-> IF i = 0 THEN b ELSE ReassignOne(g[i - 1], b.inflight[i], n)]
           W == {m \in Nat : \E g : Is(m, g)}
<1>1. ASSUME NEW m \in Nat, \A j \in 0 .. (m - 1) : j \in W PROVE m \in W
  <2>1. CASE m = 0
    <3>1. [i \in 0 .. 0 |-> b] = [i \in 0 .. 0 |-> IF i = 0 THEN b
              ELSE ReassignOne([i_1 \in 0 .. 0 |-> b][i - 1], b.inflight[i], n)]
      OBVIOUS
    <3>2. Is(m, [i \in 0 .. 0 |-> b])
      BY <2>1, <3>1
    <3> QED BY <3>2
  <2>2. CASE m > 0
    <3>1. m - 1 \in W
      BY <1>1, <2>2
    <3>2. PICK g : Is(m - 1, g)
      BY <3>1
    <3> DEFINE h == [i \in 0 .. m |-> IF i < m THEN g[i] ELSE ReassignOne(g[m - 1], b.inflight[m], n)]
    <3>3. ASSUME NEW i \in 0 .. m
          PROVE  h[i] = IF i = 0 THEN b ELSE ReassignOne(h[i - 1], b.inflight[i], n)
      <4>1. CASE i = 0
        BY <2>2, <3>2, <4>1
      <4>2. CASE i > 0 /\ i < m
        <5>1. i \in 0 .. (m - 1) /\ i - 1 \in 0 .. m /\ i - 1 < m /\ i # 0
          BY <4>2
        <5>2. h[i] = g[i] /\ h[i - 1] = g[i - 1]
          BY <4>2, <5>1
        <5>3. g[i] = ReassignOne(g[i - 1], b.inflight[i], n)
          BY <3>2, <5>1
        <5> QED BY <5>1, <5>2, <5>3
      <4>3. CASE i = m
        <5>1. h[i - 1] = g[m - 1] /\ h[i] = ReassignOne(g[m - 1], b.inflight[m], n)
          BY <2>2, <4>3
        <5> QED BY <5>1, <2>2, <4>3
      <4> QED BY <4>1, <4>2, <4>3
    <3>4. h = [i \in 0 .. m |-> IF i = 0 THEN b ELSE ReassignOne(h[i - 1], b.inflight[i], n)]
      <4>1. h = [i \in 0 .. m |-> h[i]]
        OBVIOUS
      <4> HIDE DEF h
      <4> QED BY <3>3, <4>1
    <3> HIDE DEF h
    <3>5. Is(m, h)
      BY <3>4
    <3> HIDE DEF Is
    <3> QED BY <3>5
  <2> QED BY <2>1, <2>2
<1>2. Nat \subseteq W
  <2> HIDE DEF W
  <2> QED BY <1>1, StrongInduction
<1>3. \E g : Is(Len(b.inflight), g)
  <2> HIDE DEF Is
  <2> QED BY <1>2
<1>4. Is(Len(b.inflight), Reassigned(b, n))
  BY <1>3, Zenon DEF Reassigned
<1> HIDE DEF W
<1>5. 0 \in 0 .. Len(b.inflight) /\ Reassigned(b, n)[0] = b
  BY <1>4
<1>6. ASSUME NEW i \in 1 .. Len(b.inflight)
      PROVE  Reassigned(b, n)[i] = ReassignOne(Reassigned(b, n)[i - 1], b.inflight[i], n)
  <2>1. i \in 0 .. Len(b.inflight) /\ i # 0
    OBVIOUS
  <2> QED BY <1>4, <2>1
<1> QED BY <1>5, <1>6

LEMMA ReassignMoved ==
  ASSUME NEW b, NEW U, Core(b, U), NEW n
  PROVE  Moved(b, ReassignUnsent(b, n), U)
<1> DEFINE k == Len(b.inflight)
           R(i) == Reassigned(b, n)[i]
           W == {i \in Nat : i <= k => Moved(b, R(i), U)}
<1>1. k \in Nat /\ b.inflight \in Seq(Handles)
  BY DEF Core, NetTyped
<1>2. R(0) = b /\ \A i \in 1 .. k : R(i) = ReassignOne(R(i - 1), b.inflight[i], n)
  BY <1>1, ReassignedSteps
<1> HIDE DEF k, R
<1>3. ASSUME NEW i \in Nat, \A j \in 0 .. (i - 1) : j \in W PROVE i \in W
  <2>1. CASE i = 0
    BY <2>1, <1>2, MovedSelf
  <2>2. CASE i > 0 /\ i <= k
    <3>1. i - 1 \in Nat /\ i - 1 <= k /\ i - 1 \in W /\ i \in 1 .. k
      BY <1>1, <1>3, <2>2
    <3>2. Moved(b, R(i - 1), U)
      BY <3>1
    <3> DEFINE d == R(i - 1)
               x == b.inflight[i]
    <3>3. x \in Handles /\ Lists(b.inflight, x)
      BY <1>1, <3>1 DEF Lists, k
    <3>4. R(i) = ReassignOne(d, x, n)
      BY <1>2, <3>1
    <3> HIDE DEF d, x
    <3>5. Core(d, U) /\ Lists(d.inflight, x) /\ Moved(b, d, U)
      BY <3>2, <3>3 DEF Moved, SameQueues, d
    <3>6. Moved(d, R(i), U)
      <4>1. CASE R(i) = d
        BY <3>5, <4>1, MovedSelf
      <4>2. CASE R(i) = SwapToPicked(d, x)
        BY <3>3, <3>5, <4>2, SwapToPickedMoved
      <4> QED BY <3>4, <4>1, <4>2 DEF ReassignOne
    <3>7. Moved(b, R(i), U)
      BY <3>5, <3>6, MovedTwice
    <3> QED BY <3>7
  <2>3. CASE i > k
    BY <1>1, <2>3
  <2> QED BY <1>1, <2>1, <2>2, <2>3
<1>4. k \in W
  <2> HIDE DEF W
  <2> QED BY <1>1, <1>3, StrongInduction
<1>5. Moved(b, R(k), U)
  BY <1>4
<1> QED BY <1>5 DEF ReassignUnsent, R, k

\* The fields of a server that fails.
Failed(k) == [k EXCEPT !.state = FALSE, !.timeout = TRUE]

LEMMA FailedFacts ==
  ASSUME NEW k \in Server
  PROVE  /\ Failed(k) \in Server /\ Failed(k).requests_inflight = k.requests_inflight
         /\ ~Failed(k).state /\ Failed(k).timeout
         /\ Failed(k).probe = k.probe /\ Failed(k).choked = k.choked
         /\ Failed(k).write_waiting = k.write_waiting /\ Failed(k).event = k.event
BY DEF Failed, Server

LEMMA MarkFailedMoved ==
  ASSUME NEW b, NEW U, Core(b, U), NEW n \in Servers, Lists(b.servers, n), b.ns[n].state,
         NEW c, c = MarkFailed(b, n)
  PROVE  Moved(b, c, U)
<1> DEFINE k == Failed(b.ns[n])
<1>1. NetTyped(b) /\ b.ns \in [Servers -> Server] /\ b.ns[n] \in Server /\ DOMAIN b = Fields
  BY DEF Core, NetTyped
<1>2. Changes(b, c, {"ns", "good"}) /\ c.ns = [b.ns EXCEPT ![n] = k] /\ c.good = b.good - 1
  <2>1. Changes(b, c, {"ns", "good"})
    BY <1>1 DEF MarkFailed, Changes
  <2>2. c.ns = [b.ns EXCEPT ![n] = k] /\ c.good = b.good - 1
    BY <1>1 DEF MarkFailed, Fields, Failed
  <2> QED BY <2>1, <2>2
<1>3. /\ k \in Server /\ k.requests_inflight = b.ns[n].requests_inflight /\ ~k.state /\ k.timeout
      /\ k.probe = b.ns[n].probe /\ k.choked = b.ns[n].choked
      /\ k.write_waiting = b.ns[n].write_waiting /\ k.event = b.ns[n].event
  BY <1>1, FailedFacts
<1> HIDE DEF k
<1>4. /\ c.servers = b.servers /\ c.inflight = b.inflight /\ c.waiting = b.waiting /\ c.hnd = b.hnd
      /\ c.ninflight = b.ninflight /\ c.nwaiting = b.nwaiting /\ c.req = b.req /\ c.draw = b.draw
      /\ DOMAIN c = Fields /\ Same(b, c, ClientFields)
  BY <1>2 DEF Changes, Fields, Same, ClientFields
<1>5. /\ c.ns \in [Servers -> Server] /\ c.ns[n] = k
      /\ \A m \in Servers : m # n => c.ns[m] = b.ns[m]
  BY <1>1, <1>2, <1>3
<1>6. NetTyped(c)
  BY <1>1, <1>4, <1>5 DEF NetTyped
<1>7. ListsOK(c, U)
  BY <1>4 DEF Core, ListsOK, ListedOK
<1>8. CountsOK(c)
  <2>1. UpServers(c) = UpServers(b) \ {n} /\ n \in UpServers(b)
    BY <1>3, <1>4, <1>5 DEF UpServers
  <2>2. Cardinality(UpServers(c)) = Cardinality(UpServers(b)) - 1
    BY <2>1, UpFinite, OneFewer
  <2>3. \A m \in Servers : Load(c, m) = Load(b, m)
    BY <1>4 DEF Load
  <2>4. \A m \in Servers : c.ns[m].requests_inflight = b.ns[m].requests_inflight
    BY <1>3, <1>5
  <2> QED BY <1>2, <1>4, <2>2, <2>3, <2>4 DEF Core, CountsOK
<1>9. IdsOK(c)
  BY <1>4 DEF Core, IdsOK, SearchedOn
<1>10. Kept(b, c) /\ SameQueues(b, c) /\ Steady(b, c)
  BY <1>3, <1>4, <1>5 DEF Kept, SameQueues, Steady, ServerKept
<1> QED BY <1>4, <1>6, <1>7, <1>8, <1>9, <1>10 DEF Core, Moved

\* nameserver_failed leaves every list as it was.
LEMMA ServerFailedMoved ==
  ASSUME NEW b, NEW U, Core(b, U), NEW n \in Servers, Lists(b.servers, n),
         NEW c, c = nameserver_failed(b, n)
  PROVE  Moved(b, c, U)
<1>1. CASE ~b.ns[n].state
  BY <1>1, MovedSelf DEF nameserver_failed
<1>2. CASE b.ns[n].state
  <2> DEFINE d == MarkFailed(b, n)
  <2>1. Moved(b, d, U)
    BY <1>2, MarkFailedMoved
  <2>2. c = d \/ c = ReassignUnsent(d, n)
    BY <1>2 DEF nameserver_failed
  <2> HIDE DEF d
  <2>3. Moved(d, ReassignUnsent(d, n), U)
    BY <2>1, ReassignMoved DEF Moved
  <2> QED BY <2>1, <2>2, <2>3, MovedTwice
<1> QED BY <1>1, <1>2

-----------------------------------------------------------------------------
(* The client: sending.                                                    *)

WaitsAfter(b, c, n, w) ==
  /\ Quiet(b, c) /\ c.req = b.req /\ c.ns[n].write_waiting = w
  /\ \A m \in Servers : m # n => c.ns[m] = b.ns[m]
  /\ c.ns[n].choked = b.ns[n].choked
  /\ (b.ns[n].write_waiting => b.ns[n].event) => (w => c.ns[n].event)

LEMMA WriteWaitingQuiet ==
  ASSUME NEW b, NetTyped(b), NEW n \in Servers, NEW w \in BOOLEAN
  PROVE  WaitsAfter(b, nameserver_write_waiting(b, n, w), n, w)
<1> DEFINE c == nameserver_write_waiting(b, n, w)
<1> SUFFICES WaitsAfter(b, c, n, w)
  OBVIOUS
<1> DEFINE k == [b.ns[n] EXCEPT !.write_waiting = w, !.event = TRUE]
<1>0. DOMAIN b = Fields /\ b.ns \in [Servers -> Server] /\ b.ns[n] \in Server
  BY DEF NetTyped
<1>1. CASE b.ns[n].write_waiting = w
  <2>1. c = b
    BY <1>1 DEF nameserver_write_waiting
  <2> QED BY <1>1, <2>1, QuietSelf DEF WaitsAfter
<1>2. CASE b.ns[n].write_waiting # w
  <2>1. c.ns = [b.ns EXCEPT ![n] = k]
    BY <1>0, <1>2 DEF nameserver_write_waiting, Fields
  <2>2. Changes(b, c, {"ns", "net", "faults"})
    BY <1>0, <1>2 DEF nameserver_write_waiting, Changes
  <2>3. k \in Server /\ QuietServer(b.ns[n], k) /\ k.write_waiting = w /\ k.event /\ k.choked = b.ns[n].choked
    BY <1>0 DEF Server, QuietServer
  <2>4. ServerPut(b, c, n, k)
    BY <2>1, <2>3 DEF ServerPut
  <2> HIDE DEF k, c
  <2> QED BY <1>0, <2>2, <2>3, <2>4, QuietServerStep DEF WaitsAfter
<1> QED BY <1>1, <1>2

\* A step of sending: the lists stay, and x is watched after it if it was not before.
Sending(b, c, U, x) ==
  /\ Core(c, U) /\ Kept(b, c) /\ SameQueues(b, c)
  /\ Watched(b, {x}) => Watched(c, {})

LEMMA QuietSending ==
  ASSUME NEW b, NEW U, Core(b, U), NEW c, Quiet(b, c), NEW x,
         Watched(b, {x}) => Watched(c, {})
  PROVE  Sending(b, c, U, x)
BY QuietKeeps DEF Sending

LEMMA SentFacts ==
  ASSUME NEW r \in Request, NEW q,
         q = [r EXCEPT !.timeout = TRUE, !.tx_count = @ + 1, !.transmit_me = FALSE]
  PROVE  q \in Request /\ QuietRequest(r, q) /\ q.timeout
<1>1. r.tx_count \in Nat /\ r.tx_count + 1 \in Nat
  BY DEF Request
<1>2. PICK k \in Nat : k = r.tx_count + 1
  BY <1>1
<1>3. q = [r EXCEPT !.timeout = TRUE, !.tx_count = k, !.transmit_me = FALSE]
  BY <1>2
<1> QED BY <1>3 DEF Request, QuietRequest

LEMMA SentOrLostSending ==
  ASSUME NEW b, NEW U, Core(b, U), NEW x \in Handles, Lists(b.inflight, x),
         NEW c, c = SentOrLost(b, x)
  PROVE  Sending(b, c, U, x)
<1> DEFINE r == [b.req[x] EXCEPT !.timeout = TRUE, !.tx_count = @ + 1, !.transmit_me = FALSE]
<1>1. NetTyped(b) /\ DOMAIN b = Fields /\ b.req \in [Handles -> Request] /\ b.req[x] \in Request
  BY DEF Core, NetTyped
<1>2. Changes(b, c, {"req", "net", "faults"})
  BY <1>1 DEF SentOrLost, Changes
<1>3. c.req = [b.req EXCEPT ![x] = r]
  BY <1>1 DEF SentOrLost, Fields
<1>4. r \in Request /\ QuietRequest(b.req[x], r) /\ r.timeout
  BY <1>1, SentFacts
<1>5. RequestPut(b, c, x, r)
  BY <1>3, <1>4 DEF RequestPut
<1> HIDE DEF r
<1>6. /\ Quiet(b, c) /\ c.ns = b.ns /\ c.req[x] = r
      /\ \A y \in Handles : y # x => c.req[y] = b.req[y]
  BY <1>1, <1>2, <1>4, <1>5, QuietRequestStep
<1>7. c.inflight = b.inflight /\ c.servers = b.servers
  BY <1>6 DEF Quiet, Same, ListFields
<1>8. Watched(b, {x}) => Watched(c, {})
  BY <1>4, <1>6, <1>7 DEF Watched, SomeWaits
<1> QED BY <1>6, <1>8, QuietSending

LEMMA AgainSending ==
  ASSUME NEW b, NEW U, Core(b, U), NEW x \in Handles, Lists(b.inflight, x), b.req[x].transmit_me,
         NEW n \in Servers, Lists(b.servers, n),
         NEW c, c = nameserver_write_waiting([b EXCEPT !.faults = @ - 1, !.ns[n].choked = TRUE], n, TRUE)
  PROVE  Sending(b, c, U, x)
<1> DEFINE d == [b EXCEPT !.faults = @ - 1, !.ns[n].choked = TRUE]
           k == [b.ns[n] EXCEPT !.choked = TRUE]
<1>1. NetTyped(b) /\ DOMAIN b = Fields /\ b.ns \in [Servers -> Server] /\ b.ns[n] \in Server
  BY DEF Core, NetTyped
<1>2. Changes(b, d, {"ns", "net", "faults"})
  BY <1>1 DEF Changes
<1>3. d.ns = [b.ns EXCEPT ![n] = k]
  BY <1>1 DEF Fields
<1>4. /\ k \in Server /\ QuietServer(b.ns[n], k) /\ k.write_waiting = b.ns[n].write_waiting
      /\ k.event = b.ns[n].event
  BY <1>1 DEF Server, QuietServer
<1>5. ServerPut(b, d, n, k)
  BY <1>3, <1>4 DEF ServerPut
<1> HIDE DEF d, k
<1>6. /\ Quiet(b, d) /\ d.req = b.req /\ d.ns[n] = k
      /\ \A m \in Servers : m # n => d.ns[m] = b.ns[m]
  BY <1>1, <1>2, <1>4, <1>5, QuietServerStep
<1>7. c = nameserver_write_waiting(d, n, TRUE) /\ NetTyped(d)
  BY <1>6 DEF d, Quiet
<1>12. WaitsAfter(d, c, n, TRUE)
  BY <1>7, WriteWaitingQuiet, Zenon
<1>8. /\ Quiet(d, c) /\ c.req = d.req /\ c.ns[n].write_waiting
      /\ \A m \in Servers : m # n => c.ns[m] = d.ns[m]
      /\ (d.ns[n].write_waiting => d.ns[n].event) => c.ns[n].event
  BY <1>12 DEF WaitsAfter
<1>9. Quiet(b, c)
  BY <1>6, <1>8, QuietTwice
<1>10. c.inflight = b.inflight /\ c.servers = b.servers
  BY <1>9 DEF Quiet, Same, ListFields
<1>11. ASSUME Watched(b, {x}) PROVE Watched(c, {})
  <2>1. \A m \in Servers : ServerWatched(c.ns[m])
    BY <1>4, <1>6, <1>8, <1>11 DEF Watched, ServerWatched
  <2>2. SomeWaits(c)
    BY <1>8, <1>10 DEF SomeWaits
  <2> QED BY <1>6, <1>8, <1>10, <1>11, <2>1, <2>2 DEF Watched
<1> QED BY <1>9, <1>11, QuietSending


LEMMA SendingAfter ==
  ASSUME NEW b, NEW c, NEW d, NEW U, NEW x, Sending(c, d, U, x), Kept(b, c), SameQueues(b, c),
         Watched(b, {x}) => Watched(c, {x})
  PROVE  Sending(b, d, U, x)
<1>1. Kept(b, d)
  BY KeptTwice DEF Sending
<1>2. SameQueues(b, d)
  BY DEF SameQueues, Sending
<1> QED BY <1>1, <1>2 DEF Sending

LEMMA TransmitToSending ==
  ASSUME NEW b, NEW U, Core(b, U), NEW x \in Handles, Lists(b.inflight, x), b.req[x].transmit_me,
         NEW n \in Servers, Lists(b.servers, n), NEW send \in [Servers -> Sent],
         NEW c, c = evdns_request_transmit_to(b, x, n, send)
  PROVE  Sending(b, c, U, x)
<1>1. NetTyped(b) /\ DOMAIN b = Fields
  BY DEF Core, NetTyped
<1>2. send[n] = "ok" \/ send[n] = "again" \/ send[n] = "error"
  BY DEF Sent
<1>3. CASE send[n] = "again"
  <2>1. c = nameserver_write_waiting([b EXCEPT !.faults = @ - 1, !.ns[n].choked = TRUE], n, TRUE)
    BY <1>3 DEF evdns_request_transmit_to
  <2> QED BY <2>1, AgainSending
<1>4. CASE send[n] = "error"
  <2> DEFINE d == [b EXCEPT !.faults = @ - 1]
             e == nameserver_failed(d, n)
  <2>1. c = SentOrLost(e, x)
    BY <1>4 DEF evdns_request_transmit_to
  <2>2. Changes(b, d, {"net", "faults"})
    BY <1>1 DEF Changes
  <2> HIDE DEF d
  <2>3. Quiet(b, d) /\ d.ns = b.ns /\ d.req = b.req
    BY <1>1, <2>2, QuietOther
  <2>4. Core(d, U) /\ Kept(b, d) /\ SameQueues(b, d) /\ d.servers = b.servers /\ d.inflight = b.inflight
    BY <2>3, QuietKeeps DEF Quiet, Same, ListFields
  <2>5. Watched(b, {x}) => Watched(d, {x})
    BY <2>3, <2>4 DEF Watched, SomeWaits
  <2>6. Moved(d, e, U)
    BY <2>4, ServerFailedMoved
  <2> HIDE DEF e
  <2>7. Core(e, U) /\ Lists(e.inflight, x)
    BY <2>4, <2>6 DEF Moved, SameQueues
  <2>8. Sending(e, c, U, x)
    BY <2>1, <2>7, SentOrLostSending
  <2>9. Watched(d, {x}) => Watched(e, {x})
    BY <2>6, SteadyWatched DEF Moved
  <2>10. Kept(b, e) /\ SameQueues(b, e)
    BY <2>4, <2>6, KeptTwice DEF Moved, SameQueues
  <2> QED BY <2>5, <2>8, <2>9, <2>10, SendingAfter
<1>5. CASE send[n] = "ok"
  <2> DEFINE d == [b EXCEPT !.net = Carry(@, [ns |-> n, id |-> b.req[x].trans_id, name |-> b.req[x].name])]
  <2>1. c = SentOrLost(d, x)
    BY <1>5 DEF evdns_request_transmit_to
  <2>2. Changes(b, d, {"net", "faults"})
    BY <1>1 DEF Changes
  <2> HIDE DEF d
  <2>3. Quiet(b, d) /\ d.ns = b.ns /\ d.req = b.req
    BY <1>1, <2>2, QuietOther
  <2>4. Core(d, U) /\ Kept(b, d) /\ SameQueues(b, d) /\ d.servers = b.servers /\ d.inflight = b.inflight
    BY <2>3, QuietKeeps DEF Quiet, Same, ListFields
  <2>5. Watched(b, {x}) => Watched(d, {x})
    BY <2>3, <2>4 DEF Watched, SomeWaits
  <2>6. Sending(d, c, U, x)
    BY <2>1, <2>4, SentOrLostSending
  <2> QED BY <2>4, <2>5, <2>6, SendingAfter
<1> QED BY <1>2, <1>3, <1>4, <1>5

LEMMA WatchFirstQuiet ==
  ASSUME NEW b, NetTyped(b), NEW n \in Servers, NEW c, c = WatchFirst(b, n)
  PROVE  /\ Quiet(b, c) /\ c.req = b.req
         /\ \A X : Watched(b, X) => Watched(c, X)
<1>1. CASE c = b
  BY <1>1, QuietSelf
<1>2. CASE c = [b EXCEPT !.ns[n].event = TRUE]
  <2> DEFINE k == [b.ns[n] EXCEPT !.event = TRUE]
  <2>1. DOMAIN b = Fields /\ b.ns \in [Servers -> Server] /\ b.ns[n] \in Server
    BY DEF NetTyped
  <2>2. Changes(b, c, {"ns", "net", "faults"}) /\ c.ns = [b.ns EXCEPT ![n] = k]
    <3>1. Changes(b, c, {"ns", "net", "faults"})
      BY <1>2, <2>1 DEF Changes
    <3>2. c.ns = [b.ns EXCEPT ![n] = k]
      BY <1>2, <2>1 DEF Fields
    <3> QED BY <3>1, <3>2
  <2>3. /\ k \in Server /\ QuietServer(b.ns[n], k) /\ k.event /\ k.choked = b.ns[n].choked
        /\ k.write_waiting = b.ns[n].write_waiting
    BY <2>1 DEF Server, QuietServer
  <2>4. ServerPut(b, c, n, k)
    BY <2>2, <2>3 DEF ServerPut
  <2> HIDE DEF k
  <2>8. NetTyped(b) /\ QuietServer(b.ns[n], k) /\ Changes(b, c, {"ns", "net", "faults"})
    BY <2>2, <2>3
  <2>9. ServerPutQuietly(b, c, n, k)
    BY <2>4, <2>8, QuietServerPut, Zenon
  <2>5. /\ Quiet(b, c) /\ c.req = b.req /\ c.ns[n] = k
        /\ \A m \in Servers : m # n => c.ns[m] = b.ns[m]
    BY <2>9 DEF ServerPutQuietly
  <2>6. c.inflight = b.inflight /\ c.servers = b.servers
    BY <2>5 DEF Quiet, Same, ListFields
  <2>7. ASSUME NEW X, Watched(b, X) PROVE Watched(c, X)
    BY <2>3, <2>5, <2>6, <2>7 DEF Watched, ServerWatched, SomeWaits
  <2> QED BY <2>5, <2>7
<1> QED BY <1>1, <1>2 DEF WatchFirst

LEMMA TransmitSending ==
  ASSUME NEW b, NEW U, Core(b, U), NEW x \in Handles, Lists(b.inflight, x),
         NEW send \in [Servers -> Sent], NEW c, c = evdns_request_transmit(b, x, send)
  PROVE  Sending(b, c, U, x)
<1> DEFINE d == [b EXCEPT !.req[x].transmit_me = TRUE]
           r == [b.req[x] EXCEPT !.transmit_me = TRUE]
           n == d.req[x].ns
<1>1. NetTyped(b) /\ DOMAIN b = Fields /\ b.req \in [Handles -> Request] /\ b.req[x] \in Request
  BY DEF Core, NetTyped
<1>2. Changes(b, d, {"req", "net", "faults"})
  BY <1>1 DEF Changes
<1>3. d.req = [b.req EXCEPT ![x] = r]
  BY <1>1 DEF Fields
<1>4. /\ r \in Request /\ QuietRequest(b.req[x], r) /\ r.transmit_me
      /\ r.timeout = b.req[x].timeout
  BY <1>1 DEF Request, QuietRequest
<1>5. c = IF n = None THEN d ELSE IF d.ns[n].choked THEN d
          ELSE evdns_request_transmit_to(WatchFirst(d, n), x, n, send)
  BY DEF evdns_request_transmit
<1>6. RequestPut(b, d, x, r)
  BY <1>3, <1>4 DEF RequestPut
<1> HIDE DEF d, r
<1>7. /\ Quiet(b, d) /\ d.ns = b.ns /\ d.req[x] = r
      /\ \A y \in Handles : y # x => d.req[y] = b.req[y]
  BY <1>1, <1>2, <1>4, <1>6, QuietRequestStep
<1>8. Core(d, U) /\ Kept(b, d) /\ SameQueues(b, d) /\ d.servers = b.servers /\ d.inflight = b.inflight
  BY <1>7, QuietKeeps DEF Quiet, Same, ListFields
<1>9. Watched(b, {x}) => Watched(d, {x})
  BY <1>7, <1>8 DEF Watched, SomeWaits
<1>10. n \in Servers /\ Lists(d.servers, n) /\ NetTyped(d)
  BY <1>1, <1>4, <1>7, <1>8 DEF Core, ListsOK, ListedOK, QuietRequest, Request
<1>11. CASE d.ns[n].choked
  <2>1. c = d
    BY <1>5, <1>10, <1>11, NoneAssumption
  <2>2. Watched(b, {x}) => Watched(c, {})
    BY <1>4, <1>7, <1>8, <1>10, <1>11, <2>1 DEF Watched, SomeWaits, ServerWatched
  <2> QED BY <1>7, <2>1, <2>2, QuietSending
<1>12. CASE ~d.ns[n].choked
  <2> DEFINE e == WatchFirst(d, n)
  <2>1. c = evdns_request_transmit_to(e, x, n, send)
    BY <1>5, <1>10, <1>12, NoneAssumption
  <2>2. Quiet(d, e) /\ e.req = d.req /\ (Watched(d, {x}) => Watched(e, {x}))
    BY <1>10, WatchFirstQuiet
  <2> HIDE DEF e
  <2>3. Core(e, U) /\ Kept(d, e) /\ SameQueues(d, e) /\ e.servers = d.servers /\ e.inflight = d.inflight
    BY <1>8, <2>2, QuietKeeps DEF Quiet, Same, ListFields
  <2>4. Lists(e.inflight, x) /\ Lists(e.servers, n) /\ e.req[x].transmit_me
    BY <1>4, <1>7, <1>8, <1>10, <2>2, <2>3
  <2> HIDE DEF n
  <2>5. Sending(e, c, U, x)
    BY <1>10, <2>1, <2>3, <2>4, TransmitToSending
  <2>6. Kept(b, e) /\ SameQueues(b, e)
    BY <1>8, <2>3, KeptTwice DEF SameQueues
  <2> QED BY <1>9, <2>2, <2>5, <2>6, SendingAfter
<1> QED BY <1>11, <1>12

LEMMA TransmittedSteps ==
  ASSUME NEW b, NEW send, Len(b.inflight) \in Nat
  PROVE  /\ Transmitted(b, send)[0] = b
         /\ \A i \in 1 .. Len(b.inflight) :
               Transmitted(b, send)[i] = TransmitOne(Transmitted(b, send)[i - 1], b.inflight[i], send)
<1> DEFINE Is(m, g) == g = [i \in 0 .. m |-> IF i = 0 THEN b ELSE TransmitOne(g[i - 1], b.inflight[i], send)]
           W == {m \in Nat : \E g : Is(m, g)}
<1>1. ASSUME NEW m \in Nat, \A j \in 0 .. (m - 1) : j \in W PROVE m \in W
  <2>1. CASE m = 0
    <3>1. [i \in 0 .. 0 |-> b] = [i \in 0 .. 0 |-> IF i = 0 THEN b
              ELSE TransmitOne([i_1 \in 0 .. 0 |-> b][i - 1], b.inflight[i], send)]
      OBVIOUS
    <3>2. Is(m, [i \in 0 .. 0 |-> b])
      BY <2>1, <3>1
    <3> QED BY <3>2
  <2>2. CASE m > 0
    <3>1. m - 1 \in W
      BY <1>1, <2>2
    <3>2. PICK g : Is(m - 1, g)
      BY <3>1
    <3> DEFINE h == [i \in 0 .. m |-> IF i < m THEN g[i] ELSE TransmitOne(g[m - 1], b.inflight[m], send)]
    <3>3. ASSUME NEW i \in 0 .. m
          PROVE  h[i] = IF i = 0 THEN b ELSE TransmitOne(h[i - 1], b.inflight[i], send)
      <4>1. CASE i = 0
        BY <2>2, <3>2, <4>1
      <4>2. CASE i > 0 /\ i < m
        <5>1. i \in 0 .. (m - 1) /\ i - 1 \in 0 .. m /\ i - 1 < m /\ i # 0
          BY <4>2
        <5>2. h[i] = g[i] /\ h[i - 1] = g[i - 1]
          BY <4>2, <5>1
        <5>3. g[i] = TransmitOne(g[i - 1], b.inflight[i], send)
          BY <3>2, <5>1
        <5> QED BY <5>1, <5>2, <5>3
      <4>3. CASE i = m
        <5>1. h[i - 1] = g[m - 1] /\ h[i] = TransmitOne(g[m - 1], b.inflight[m], send)
          BY <2>2, <4>3
        <5> QED BY <5>1, <2>2, <4>3
      <4> QED BY <4>1, <4>2, <4>3
    <3>4. h = [i \in 0 .. m |-> IF i = 0 THEN b ELSE TransmitOne(h[i - 1], b.inflight[i], send)]
      <4>1. h = [i \in 0 .. m |-> h[i]]
        OBVIOUS
      <4> HIDE DEF h
      <4> QED BY <3>3, <4>1
    <3> HIDE DEF h
    <3>5. Is(m, h)
      BY <3>4
    <3> HIDE DEF Is
    <3> QED BY <3>5
  <2> QED BY <2>1, <2>2
<1>2. Nat \subseteq W
  <2> HIDE DEF W
  <2> QED BY <1>1, StrongInduction
<1>3. \E g : Is(Len(b.inflight), g)
  <2> HIDE DEF Is
  <2> QED BY <1>2
<1>4. Is(Len(b.inflight), Transmitted(b, send))
  BY <1>3, Zenon DEF Transmitted
<1> HIDE DEF W
<1>5. 0 \in 0 .. Len(b.inflight) /\ Transmitted(b, send)[0] = b
  BY <1>4
<1>6. ASSUME NEW i \in 1 .. Len(b.inflight)
      PROVE  Transmitted(b, send)[i] = TransmitOne(Transmitted(b, send)[i - 1], b.inflight[i], send)
  <2>1. i \in 0 .. Len(b.inflight) /\ i # 0
    OBVIOUS
  <2> QED BY <1>4, <2>1
<1> QED BY <1>5, <1>6

\* A step of sending that puts no request in danger.
Carried(b, c, U) ==
  /\ Core(c, U) /\ Kept(b, c) /\ SameQueues(b, c)
  /\ Watched(b, {}) => Watched(c, {})

LEMMA CarriedTwice ==
  ASSUME NEW b, NEW c, NEW d, NEW U, Carried(b, c, U), Carried(c, d, U)
  PROVE  Carried(b, d, U)
<1>1. Kept(b, d)
  BY KeptTwice DEF Carried
<1>2. SameQueues(b, d)
  BY DEF SameQueues, Carried
<1> QED BY <1>1, <1>2 DEF Carried

LEMMA CarriedSelf ==
  ASSUME NEW b, NEW U, Core(b, U)
  PROVE  Carried(b, b, U)
BY DEF Carried, Kept, SameQueues, Same, ServerKept

LEMMA SendingCarried ==
  ASSUME NEW b, NEW c, NEW U, NEW x, Sending(b, c, U, x)
  PROVE  Carried(b, c, U)
<1>1. Watched(b, {}) => Watched(b, {x})
  BY DEF Watched
<1> QED BY <1>1 DEF Carried, Sending

\* evdns_transmit leaves every list as it was.
LEMMA TransmitCarried ==
  ASSUME NEW b, NEW U, Core(b, U), NEW send \in [Servers -> Sent]
  PROVE  Carried(b, evdns_transmit(b, send), U)
<1> DEFINE k == Len(b.inflight)
           R(i) == Transmitted(b, send)[i]
           W == {i \in Nat : i <= k => Carried(b, R(i), U)}
<1>1. k \in Nat /\ b.inflight \in Seq(Handles)
  BY DEF Core, NetTyped
<1>2. R(0) = b /\ \A i \in 1 .. k : R(i) = TransmitOne(R(i - 1), b.inflight[i], send)
  BY <1>1, TransmittedSteps
<1> HIDE DEF k, R
<1>3. ASSUME NEW i \in Nat, \A j \in 0 .. (i - 1) : j \in W PROVE i \in W
  <2>1. CASE i = 0
    BY <2>1, <1>2, CarriedSelf
  <2>2. CASE i > 0 /\ i <= k
    <3>1. i - 1 \in Nat /\ i - 1 <= k /\ i - 1 \in W /\ i \in 1 .. k
      BY <1>1, <1>3, <2>2
    <3>2. Carried(b, R(i - 1), U)
      BY <3>1
    <3> DEFINE d == R(i - 1)
               x == b.inflight[i]
    <3>3. x \in Handles /\ Lists(b.inflight, x)
      BY <1>1, <3>1 DEF Lists, k
    <3>4. R(i) = TransmitOne(d, x, send)
      BY <1>2, <3>1
    <3> HIDE DEF d, x
    <3>5. Core(d, U) /\ Lists(d.inflight, x) /\ Carried(b, d, U)
      BY <3>2, <3>3 DEF Carried, SameQueues, d
    <3>6. Carried(d, R(i), U)
      <4>1. CASE R(i) = d
        BY <3>5, <4>1, CarriedSelf
      <4>2. CASE R(i) = evdns_request_transmit(d, x, send)
        <5>1. Sending(d, R(i), U, x)
          BY <3>3, <3>5, <4>2, TransmitSending
        <5> QED BY <5>1, SendingCarried
      <4> QED BY <3>4, <4>1, <4>2 DEF TransmitOne
    <3>7. Carried(b, R(i), U)
      BY <3>5, <3>6, CarriedTwice
    <3> QED BY <3>7
  <2>3. CASE i > k
    BY <1>1, <2>3
  <2> QED BY <1>1, <2>1, <2>2, <2>3
<1>4. k \in W
  <2> HIDE DEF W
  <2> QED BY <1>1, <1>3, StrongInduction
<1>5. Carried(b, R(k), U)
  BY <1>4
<1> QED BY <1>5 DEF evdns_transmit, R, k

-----------------------------------------------------------------------------
(* The client: transaction ids.                                            *)

LEMMA ModTwo ==
  ASSUME NEW N \in Nat \ {0}, NEW h \in 0 .. N - 1, NEW k \in 0 .. N - 1
  PROVE  (h + k) % N = IF h + k < N THEN h + k ELSE h + k - N
OBVIOUS

\* There are more ids than handles, so one is free.
LEMMA SomeIdIsFree ==
  ASSUME NEW b, NetTyped(b), NEW h \in Ids
  PROVE  \E k \in Ids : (h + k) % NIds \notin UsedIds(b)
<1> DEFINE Id(k) == (h + k) % NIds
           T == {x \in Handles : Lists(b.inflight, x)}
           f == [x \in T |-> b.req[x].trans_id]
           g == [k \in Ids |-> Id(k)]
<1>1. NIds \in Nat \ {0} /\ Cardinality(Handles) \in Nat /\ NIds > Cardinality(Handles)
  BY LimitAssumption, FS_CardinalityType DEF Handles
<1>2. T \subseteq Handles /\ IsFiniteSet(Handles) /\ IsFiniteSet(T) /\ Cardinality(T) <= Cardinality(Handles)
  <2>1. T \subseteq Handles /\ IsFiniteSet(Handles)
    BY LimitAssumption DEF Handles
  <2> QED BY <2>1, FS_Subset
<1>3. Members(b.inflight) = T
  BY MembersFacts DEF NetTyped
<1>4. UsedIds(b) = {b.req[x].trans_id : x \in T}
  BY <1>3 DEF UsedIds
<1>5. f \in Surjection(T, UsedIds(b))
  BY <1>4 DEF Surjection
<1>6. /\ IsFiniteSet(UsedIds(b)) /\ Cardinality(UsedIds(b)) <= Cardinality(T)
  <2> HIDE DEF f, T
  <2> QED BY <1>2, <1>5, FS_Surjection
<1>7. Cardinality(UsedIds(b)) < NIds
  <2>1. Cardinality(T) \in Nat /\ Cardinality(UsedIds(b)) \in Nat
    BY <1>2, <1>6, FS_CardinalityType
  <2> HIDE DEF T
  <2> QED BY <1>1, <1>2, <1>6, <2>1
<1>8. \A k \in Ids : Id(k) = IF h + k < NIds THEN h + k ELSE h + k - NIds
  BY <1>1, ModTwo DEF Ids
<1>9. SUFFICES ASSUME \A k \in Ids : Id(k) \in UsedIds(b) PROVE FALSE
  OBVIOUS
<1>10. g \in Injection(Ids, UsedIds(b))
  <2>1. \A j, k \in Ids : Id(j) = Id(k) => j = k
    <3> HIDE DEF Id
    <3> QED BY <1>1, <1>8 DEF Ids
  <2>2. g \in [Ids -> UsedIds(b)]
    BY <1>9
  <2>3. \A j, k \in Ids : g[j] = g[k] => j = k
    BY <2>1
  <2> HIDE DEF g
  <2>4. DOMAIN g = Ids
    BY <2>2
  <2> QED BY <2>2, <2>3, <2>4 DEF Injection, IsInjective
<1>11. Cardinality(Ids) <= Cardinality(UsedIds(b))
  <2> HIDE DEF g
  <2> QED BY <1>6, <1>10, FS_Injection
<1>12. Cardinality(Ids) = NIds
  BY <1>1, FS_Interval DEF Ids
<1>13. Cardinality(UsedIds(b)) \in Nat
  BY <1>6, FS_CardinalityType
<1> QED BY <1>1, <1>7, <1>11, <1>12, <1>13

Picks(b, id) == id \in Ids /\ \A x \in Handles : Lists(b.inflight, x) => b.req[x].trans_id # id

LEMMA PickedIdIsFresh ==
  ASSUME NEW b, NetTyped(b)
  PROVE  Picks(b, transaction_id_pick(b))
<1> DEFINE h == Head(b.draw)
           T == {k \in Ids : (h + k) % NIds \notin UsedIds(b)}
           i == CHOOSE k \in 0 .. NIds - 1 : /\ (h + k) % NIds \notin UsedIds(b)
                                             /\ \A j \in 0 .. k - 1 : (h + j) % NIds \in UsedIds(b)
<1>1. NIds \in Nat \ {0}
  BY LimitAssumption, FS_CardinalityType DEF Handles
<1>2. h \in Ids
  BY DEF NetTyped
<1>3. T # {} /\ T \in SUBSET Nat
  <2>1. \E k \in Ids : (h + k) % NIds \notin UsedIds(b)
    <3> HIDE DEF h
    <3> QED BY <1>2, SomeIdIsFree
  <2>2. Ids \subseteq Nat
    BY <1>1 DEF Ids
  <2> QED BY <2>1, <2>2
<1> HIDE DEF h
<1>4. PICK k \in T : \A j \in T : k <= j
  <2> HIDE DEF T
  <2> QED BY <1>3, LeastExists
<1>5. k \in 0 .. NIds - 1 /\ (h + k) % NIds \notin UsedIds(b)
  BY DEF Ids
<1>6. \A j \in 0 .. k - 1 : (h + j) % NIds \in UsedIds(b)
  <2> SUFFICES ASSUME NEW j \in 0 .. k - 1, (h + j) % NIds \notin UsedIds(b) PROVE FALSE
    OBVIOUS
  <2>1. j \in Ids /\ ~(k <= j)
    BY <1>1, <1>5 DEF Ids
  <2> QED BY <1>4, <2>1
<1>7. i \in 0 .. NIds - 1 /\ (h + i) % NIds \notin UsedIds(b)
  BY <1>5, <1>6, Zenon
<1>8. transaction_id_pick(b) = (h + i) % NIds
  BY Zenon DEF transaction_id_pick, h
<1>9. (h + i) % NIds \in Ids
  <2> HIDE DEF i
  <2> QED BY <1>1, <1>2, <1>7 DEF Ids
<1>10. \A x \in Handles : Lists(b.inflight, x) => b.req[x].trans_id \in UsedIds(b)
  BY MembersFacts DEF UsedIds, NetTyped
<1> HIDE DEF i
<1> QED BY <1>7, <1>8, <1>9, <1>10 DEF Picks


-----------------------------------------------------------------------------
(* The client: a request moves between hand and lists.                     *)

\* What lists and sending do to the rest: servers may fail, nothing else.
Calm(b, c) ==
  /\ Same(b, c, ClientFields)
  /\ \A n \in Servers : (Lists(c.servers, n) <=> Lists(b.servers, n)) /\ ServerKept(b.ns[n], c.ns[n])

LEMMA KeptCalm ==
  ASSUME NEW b, NEW c, Kept(b, c)
  PROVE  Calm(b, c)
BY DEF Kept, Calm

LEMMA CalmTwice ==
  ASSUME NEW b, NEW c, NEW d, Calm(b, c), Calm(c, d)
  PROVE  Calm(b, d)
BY DEF Calm, Same, ServerKept

Grown(X, s, x, t) ==
  /\ t \in Seq(X) /\ Len(t) = Len(s) + 1
  /\ \A y : Lists(t, y) <=> Lists(s, y) \/ y = x
  /\ Distinct(s) /\ ~Lists(s, x) => Distinct(t)

LEMMA AppendGrows ==
  ASSUME NEW X, NEW s \in Seq(X), NEW x \in X
  PROVE  Grown(X, s, x, Append(s, x))
BY AppendFacts DEF Grown

\* The first waiting request leaves its queue.
LeavesWaiting(b, c) ==
  /\ Changes(b, c, {"waiting", "nwaiting"})
  /\ c.waiting = Tail(b.waiting) /\ c.nwaiting = b.nwaiting - 1

LEMMA LeaveWaitingKeeps ==
  ASSUME NEW b, NEW U, Core(b, U), NEW c, b.waiting # <<>>, LeavesWaiting(b, c)
  PROVE  /\ Core(c, U \cup {Head(b.waiting)}) /\ Calm(b, c)
         /\ Watched(b, {}) => Watched(c, {})
<1> DEFINE x == Head(b.waiting)
           V == U \cup {x}
<1>1. /\ c.servers = b.servers /\ c.inflight = b.inflight /\ c.hnd = b.hnd /\ c.ns = b.ns
      /\ c.ninflight = b.ninflight /\ c.good = b.good /\ c.draw = b.draw /\ c.req = b.req
      /\ DOMAIN c = Fields /\ Same(b, c, ClientFields)
  BY DEF LeavesWaiting, Changes, Fields, Same, ClientFields
<1>2. /\ b.waiting \in Seq(Handles) /\ Distinct(b.waiting) /\ b.nwaiting = Len(b.waiting)
  BY DEF Core, NetTyped, ListsOK
<1>3. /\ c.waiting \in Seq(Handles) /\ Distinct(c.waiting) /\ Len(c.waiting) = Len(b.waiting) - 1
      /\ \A y : Lists(c.waiting, y) <=> Lists(b.waiting, y) /\ y # x
      /\ Lists(b.waiting, x) /\ x \in Handles
  BY <1>2, TailFacts DEF LeavesWaiting
<1> HIDE DEF x
<1>4. ListsOK(c, V)
  <2>1. ASSUME NEW y \in Handles PROVE ListedOK(c, y, V)
    BY <1>1, <1>3 DEF Core, ListsOK, ListedOK
  <2>2. c.nwaiting = Len(c.waiting)
    BY <1>2, <1>3 DEF LeavesWaiting
  <2> QED BY <1>1, <1>3, <2>1, <2>2 DEF Core, ListsOK
<1>5. NetTyped(c)
  BY <1>1, <1>3 DEF Core, NetTyped
<1>6. CountsOK(c) /\ IdsOK(c)
  <2>1. UpServers(c) = UpServers(b) /\ \A n \in Servers : Load(c, n) = Load(b, n)
    BY <1>1 DEF UpServers, Load
  <2>2. CountsOK(c)
    BY <1>1, <2>1 DEF Core, CountsOK
  <2>3. IdsOK(c)
    BY <1>1 DEF Core, IdsOK, SearchedOn
  <2> QED BY <2>2, <2>3
<1>7. Core(c, V)
  BY <1>1, <1>4, <1>5, <1>6 DEF Core
<1>8. Calm(b, c)
  BY <1>1 DEF Calm, ServerKept
<1>9. Watched(b, {}) => Watched(c, {})
  BY <1>1 DEF Watched, SomeWaits
<1> QED BY <1>7, <1>8, <1>9 DEF x

\* The fields of a request in hand are set.
SetsRequest(b, c, x, r) ==
  /\ Changes(b, c, {"req", "draw"}) /\ c.draw \in Seq(Ids) /\ c.draw # <<>>
  /\ c.req = [b.req EXCEPT ![x] = r] /\ r \in Request
  /\ r.ns # None => Lists(b.servers, r.ns)
  /\ r.ns = None => ~r.timeout

RequestSet(b, c, V, x, r) ==
  /\ Core(c, V) /\ Calm(b, c) /\ c.inflight = b.inflight /\ c.waiting = b.waiting
  /\ c.servers = b.servers /\ c.ns = b.ns /\ c.ninflight = b.ninflight /\ c.nwaiting = b.nwaiting
  /\ c.req[x] = r /\ \A y \in Handles : y # x => c.req[y] = b.req[y]
  /\ Watched(b, {}) => Watched(c, {})

LEMMA SetRequestKeeps ==
  ASSUME NEW b, NEW V, Core(b, V), NEW x \in V \cap Handles, NEW c, NEW r, SetsRequest(b, c, x, r)
  PROVE  RequestSet(b, c, V, x, r)
<1>1. /\ c.servers = b.servers /\ c.inflight = b.inflight /\ c.hnd = b.hnd /\ c.ns = b.ns
      /\ c.ninflight = b.ninflight /\ c.good = b.good /\ c.waiting = b.waiting /\ c.nwaiting = b.nwaiting
      /\ DOMAIN c = Fields /\ Same(b, c, ClientFields)
  BY DEF SetsRequest, Changes, Fields, Same, ClientFields
<1>2. /\ c.req \in [Handles -> Request] /\ c.req[x] = r
      /\ \A y \in Handles : y # x => c.req[y] = b.req[y]
  BY DEF SetsRequest, Core, NetTyped
<1>3. ~Lists(b.inflight, x) /\ ~Lists(b.waiting, x)
  BY DEF Core, ListsOK, ListedOK
<1>4. ListsOK(c, V)
  <2>1. ASSUME NEW y \in Handles PROVE ListedOK(c, y, V)
    <3>1. CASE y = x
      BY <1>1, <1>2, <1>3, <3>1 DEF SetsRequest, ListedOK
    <3>2. CASE y # x
      BY <1>1, <1>2, <3>2 DEF Core, ListsOK, ListedOK
    <3> QED BY <3>1, <3>2
  <2> QED BY <1>1, <2>1 DEF Core, ListsOK
<1>5. NetTyped(c)
  BY <1>1, <1>2 DEF Core, NetTyped, SetsRequest
<1>6. UpServers(c) = UpServers(b) /\ \A n \in Servers : Load(c, n) = Load(b, n)
  BY <1>1, <1>2, <1>3 DEF UpServers, Load
<1>7. CountsOK(c)
  BY <1>1, <1>6 DEF Core, CountsOK
<1>8. IdsOK(c)
  BY <1>1, <1>2, <1>3 DEF Core, IdsOK, SearchedOn
<1>9. Calm(b, c)
  BY <1>1 DEF Calm, ServerKept
<1>10. Watched(b, {}) => Watched(c, {})
  BY <1>1, <1>2, <1>3 DEF Watched, SomeWaits
<1> QED BY <1>1, <1>2, <1>4, <1>5, <1>7, <1>8, <1>9, <1>10 DEF Core, RequestSet

\* A request in hand joins those in flight.
JoinsInflight(b, c, x, n) ==
  /\ Changes(b, c, {"ns", "inflight", "ninflight"})
  /\ c.inflight = Append(b.inflight, x) /\ c.ninflight = b.ninflight + 1
  /\ c.ns = [b.ns EXCEPT ![n] = Loaded(b.ns[n], 1)]

MayJoin(b, x) ==
  \/ SearchedOn(b, x)
  \/ \A y \in Handles : Lists(b.inflight, y) => b.req[y].trans_id # b.req[x].trans_id

HasJoined(b, c, V, x) ==
  /\ Core(c, V) /\ Calm(b, c) /\ c.req = b.req /\ c.waiting = b.waiting /\ Lists(c.inflight, x)
  /\ \A y : Lists(c.inflight, y) <=> Lists(b.inflight, y) \/ y = x
  /\ \A X : Watched(b, X) => Watched(c, X \cup {x})

LEMMA JoinInflightKeeps ==
  ASSUME NEW b, NEW V, Core(b, V), NEW x \in V \cap Handles, b.hnd[x].current_req,
         NEW n \in Servers, n = b.req[x].ns, MayJoin(b, x), NEW c, JoinsInflight(b, c, x, n)
  PROVE  HasJoined(b, c, V \ {x}, x)
<1>1. /\ c.servers = b.servers /\ c.waiting = b.waiting /\ c.hnd = b.hnd /\ c.req = b.req
      /\ c.nwaiting = b.nwaiting /\ c.good = b.good /\ c.draw = b.draw
      /\ DOMAIN c = Fields /\ Same(b, c, ClientFields)
  BY DEF JoinsInflight, Changes, Fields, Same, ClientFields
<1>2. /\ b.inflight \in Seq(Handles) /\ Distinct(b.inflight) /\ b.ninflight = Len(b.inflight)
      /\ ~Lists(b.inflight, x) /\ ~Lists(b.waiting, x) /\ n # None /\ Lists(b.servers, n)
      /\ b.ns \in [Servers -> Server] /\ b.ns[n] \in Server
  BY NoneAssumption DEF Core, NetTyped, ListsOK, ListedOK
<1>3. /\ c.inflight \in Seq(Handles) /\ Distinct(c.inflight) /\ Len(c.inflight) = Len(b.inflight) + 1
      /\ \A y : Lists(c.inflight, y) <=> Lists(b.inflight, y) \/ y = x
  <2>1. x \in Handles /\ c.inflight = Append(b.inflight, x)
    BY DEF JoinsInflight
  <2>2. b.inflight \in Seq(Handles)
    BY <1>2
  <2>3. Grown(Handles, b.inflight, x, c.inflight)
    BY <2>1, <2>2, AppendGrows
  <2> QED BY <1>2, <2>3 DEF Grown
<1> DEFINE k == Loaded(b.ns[n], 1)
<1>4. LoadedOK(b.ns[n], k, 1)
  BY <1>2, LoadedFacts
<1>5. c.ns = [b.ns EXCEPT ![n] = k]
  BY DEF JoinsInflight
<1> HIDE DEF k
<1>6. /\ c.ns \in [Servers -> Server] /\ c.ns[n] = k
      /\ \A m \in Servers : m # n => c.ns[m] = b.ns[m]
  BY <1>2, <1>4, <1>5 DEF LoadedOK
<1>7. ListsOK(c, V \ {x})
  <2>1. ASSUME NEW y \in Handles PROVE ListedOK(c, y, V \ {x})
    <3>1. CASE y = x
      BY <1>1, <1>2, <1>3, <3>1 DEF Core, ListsOK, ListedOK
    <3>2. CASE y # x
      BY <1>1, <1>3, <3>2 DEF Core, ListsOK, ListedOK
    <3> QED BY <3>1, <3>2
  <2>2. c.ninflight = Len(c.inflight)
    BY <1>2, <1>3 DEF JoinsInflight
  <2> QED BY <1>1, <1>3, <2>1, <2>2 DEF Core, ListsOK
<1>8. NetTyped(c)
  BY <1>1, <1>3, <1>6 DEF Core, NetTyped
<1>9. CountsOK(c)
  <2>1. UpServers(c) = UpServers(b)
    BY <1>1, <1>4, <1>6 DEF UpServers, LoadedOK
  <2>2. Load(c, n) = Load(b, n) \cup {x} /\ x \notin Load(b, n)
    BY <1>1, <1>2, <1>3 DEF Load
  <2>3. \A m \in Servers : m # n => Load(c, m) = Load(b, m)
    BY <1>1, <1>3 DEF Load
  <2>4. Cardinality(Load(c, n)) = Cardinality(Load(b, n)) + 1
    BY <2>2, LoadFinite, OneMore
  <2>5. c.ns[n].requests_inflight = b.ns[n].requests_inflight + 1
    BY <1>4, <1>6 DEF LoadedOK
  <2>6. \A m \in Servers : Lists(b.servers, m) => b.ns[m].requests_inflight = Cardinality(Load(b, m))
    BY DEF Core, CountsOK
  <2>7. ASSUME NEW m \in Servers, Lists(c.servers, m)
        PROVE  c.ns[m].requests_inflight = Cardinality(Load(c, m))
    BY <1>1, <1>6, <2>3, <2>4, <2>5, <2>6, <2>7
  <2> QED BY <1>1, <2>1, <2>7 DEF Core, CountsOK
<1>10. IdsOK(c)
  BY <1>1, <1>3 DEF Core, IdsOK, SearchedOn, MayJoin
<1>11. Calm(b, c)
  BY <1>1, <1>4, <1>6 DEF Calm, ServerKept, LoadedOK
<1>12. ASSUME NEW X, Watched(b, X) PROVE Watched(c, X \cup {x})
  <2>1. \A m \in Servers : ServerWatched(c.ns[m]) /\ c.ns[m].write_waiting = b.ns[m].write_waiting
    BY <1>4, <1>6, <1>12 DEF Watched, ServerWatched, LoadedOK
  <2>2. SomeWaits(b) => SomeWaits(c)
    BY <1>1, <2>1 DEF SomeWaits
  <2> QED BY <1>1, <1>3, <1>12, <2>1, <2>2 DEF Watched
<1> QED BY <1>1, <1>3, <1>7, <1>8, <1>9, <1>10, <1>11, <1>12 DEF Core, HasJoined


\* From the waiting queue into flight: the same requests are in the two lists, and those
\* that were in flight still are.
Pumping(b, c, U) ==
  /\ Core(c, U) /\ Calm(b, c) /\ Unfinished(c) = Unfinished(b)
  /\ \A y : Lists(b.inflight, y) => Lists(c.inflight, y)
  /\ \A y \in Handles : Lists(c.inflight, y) \/ Lists(c.waiting, y) <=> Lists(b.inflight, y) \/ Lists(b.waiting, y)
  /\ \A y \in Handles : ~Lists(b.inflight, y) /\ ~Lists(b.waiting, y) => c.req[y] = b.req[y]
  /\ Watched(b, {}) => Watched(c, {})

LEMMA PumpingTwice ==
  ASSUME NEW b, NEW c, NEW d, NEW U, Pumping(b, c, U), Pumping(c, d, U)
  PROVE  Pumping(b, d, U)
<1>1. Calm(b, d)
  BY CalmTwice DEF Pumping
<1> QED BY <1>1 DEF Pumping

LEMMA CarriedPumping ==
  ASSUME NEW b, NEW c, NEW U, Carried(b, c, U)
  PROVE  Pumping(b, c, U)
<1>1. Calm(b, c)
  BY KeptCalm DEF Carried
<1>2. c.inflight = b.inflight /\ c.waiting = b.waiting
  BY DEF Carried, SameQueues
<1> QED BY <1>1, <1>2 DEF Pumping, Carried, Kept, Unfinished

LEMMA PumpingSelf ==
  ASSUME NEW b, NEW U, Core(b, U)
  PROVE  Pumping(b, b, U)
BY CarriedSelf, CarriedPumping

LaunchFields(b, g, x, n, id) ==
  /\ Changes(b, g, {"req", "draw", "ns", "waiting", "nwaiting", "inflight", "ninflight"})
  /\ g.req = [b.req EXCEPT ![x] = [b.req[x] EXCEPT !.trans_id = id, !.ns = n]]
  /\ g.draw = (IF Len(b.draw) > 1 THEN Tail(b.draw) ELSE b.draw)
  /\ g.ns = [b.ns EXCEPT ![n] = Loaded(b.ns[n], 1)]
  /\ g.waiting = Tail(b.waiting) /\ g.nwaiting = b.nwaiting - 1
  /\ g.inflight = Append(b.inflight, x) /\ g.ninflight = b.ninflight + 1

Launched(b, x, n) ==
  [SetTransId(b, x, transaction_id_pick(b)) EXCEPT
      !.req[x].ns = n, !.ns[n].requests_inflight = @ + 1,
      !.waiting = Tail(@), !.nwaiting = @ - 1,
      !.inflight = Append(@, x), !.ninflight = @ + 1]

LEMMA LaunchedFields ==
  ASSUME NEW b, NetTyped(b), NEW x \in Handles, NEW n \in Servers
  PROVE  LaunchFields(b, Launched(b, x, n), x, n, transaction_id_pick(b))
<1> DEFINE id == transaction_id_pick(b)
           s == SetTransId(b, x, id)
           g == Launched(b, x, n)
<1>1. DOMAIN b = Fields /\ b.ns \in [Servers -> Server] /\ b.req \in [Handles -> Request]
  BY DEF NetTyped
<1> HIDE DEF id
<1>2. /\ Changes(b, s, {"req", "draw"}) /\ DOMAIN s = Fields
      /\ s.req = [b.req EXCEPT ![x] = [b.req[x] EXCEPT !.trans_id = id]]
      /\ s.draw = (IF Len(b.draw) > 1 THEN Tail(b.draw) ELSE b.draw)
  <2>1. Changes(b, s, {"req", "draw"}) /\ DOMAIN s = Fields
    BY <1>1 DEF SetTransId, Changes
  <2>2. /\ s.req = [b.req EXCEPT ![x] = [b.req[x] EXCEPT !.trans_id = id]]
        /\ s.draw = (IF Len(b.draw) > 1 THEN Tail(b.draw) ELSE b.draw)
    BY <1>1 DEF SetTransId, Fields
  <2> QED BY <2>1, <2>2
<1>3. g = [s EXCEPT !.req[x].ns = n, !.ns[n].requests_inflight = @ + 1,
              !.waiting = Tail(@), !.nwaiting = @ - 1,
              !.inflight = Append(@, x), !.ninflight = @ + 1]
  BY DEF Launched, id
<1> HIDE DEF s, g
<1>4. /\ s.ns = b.ns /\ s.waiting = b.waiting /\ s.nwaiting = b.nwaiting /\ s.inflight = b.inflight
      /\ s.ninflight = b.ninflight
  BY <1>2 DEF Changes, Fields
<1>5. Changes(s, g, {"req", "draw", "ns", "waiting", "nwaiting", "inflight", "ninflight"})
  BY <1>2, <1>3 DEF Changes
<1>6. Changes(b, g, {"req", "draw", "ns", "waiting", "nwaiting", "inflight", "ninflight"})
  BY <1>2, <1>5 DEF Changes
<1>7. g.draw = s.draw /\ g.req = [s.req EXCEPT ![x] = [s.req[x] EXCEPT !.ns = n]]
  BY <1>2, <1>3 DEF Fields
<1>8. g.ns = [b.ns EXCEPT ![n] = Loaded(b.ns[n], 1)]
  BY <1>2, <1>3, <1>4 DEF Fields, Loaded
<1>9. /\ g.waiting = Tail(b.waiting) /\ g.nwaiting = b.nwaiting - 1
      /\ g.inflight = Append(b.inflight, x) /\ g.ninflight = b.ninflight + 1
  BY <1>2, <1>3, <1>4 DEF Fields
<1>10. s.req[x] = [b.req[x] EXCEPT !.trans_id = id]
  BY <1>1, <1>2
<1>11. [s.req[x] EXCEPT !.ns = n] = [b.req[x] EXCEPT !.trans_id = id, !.ns = n]
  BY <1>10
<1>12. g.req = [b.req EXCEPT ![x] = [b.req[x] EXCEPT !.trans_id = id, !.ns = n]]
  BY <1>1, <1>2, <1>7, <1>11
<1> QED BY <1>2, <1>6, <1>7, <1>8, <1>9, <1>12 DEF LaunchFields, id, g

LEMMA DrawFacts ==
  ASSUME NEW b, NetTyped(b), NEW d, d = IF Len(b.draw) > 1 THEN Tail(b.draw) ELSE b.draw
  PROVE  d \in Seq(Ids) /\ d # <<>>
<1>1. PICK s \in Seq(Ids) : s = b.draw /\ s # <<>>
  BY DEF NetTyped
<1>2. CASE Len(s) > 1
  <2>1. Tail(s) \in Seq(Ids) /\ Len(Tail(s)) = Len(s) - 1 /\ Len(s) \in Nat
    BY <1>2
  <2>2. PICK t \in Seq(Ids) : t = Tail(s) /\ Len(t) = Len(s) - 1
    BY <2>1
  <2>3. Len(t) > 0
    BY <1>2, <2>1, <2>2
  <2>4. t # <<>>
    BY <2>3
  <2> QED BY <1>1, <1>2, <2>2, <2>4
<1> QED BY <1>1, <1>2


LEMMA LaunchedKeeps ==
  ASSUME NEW b, NEW U, Core(b, U), b.waiting # <<>>, NEW n \in Servers, Lists(b.servers, n),
         NEW x, x = Head(b.waiting), NEW id, Picks(b, id), NEW g, LaunchFields(b, g, x, n, id)
  PROVE  /\ Core(g, U) /\ Calm(b, g) /\ x \in Handles /\ Lists(g.inflight, x)
         /\ \A y : Lists(b.inflight, y) => Lists(g.inflight, y)
         /\ \A y \in Handles : Lists(g.inflight, y) \/ Lists(g.waiting, y)
                               <=> Lists(b.inflight, y) \/ Lists(b.waiting, y)
         /\ \A y \in Handles : ~Lists(b.inflight, y) /\ ~Lists(b.waiting, y) => g.req[y] = b.req[y]
         /\ Watched(b, {}) => Watched(g, {x})
<1> DEFINE r == [b.req[x] EXCEPT !.trans_id = id, !.ns = n]
           c == [b EXCEPT !.waiting = Tail(@), !.nwaiting = @ - 1]
           d == [c EXCEPT !.req = [b.req EXCEPT ![x] = r], !.draw = g.draw]
           V == U \cup {x}
<1>1. /\ NetTyped(b) /\ b.req \in [Handles -> Request] /\ DOMAIN b = Fields
      /\ b.waiting \in Seq(Handles) /\ Distinct(b.waiting) /\ n # None
  BY NoneAssumption DEF Core, NetTyped, ListsOK
<1>2. x \in Handles /\ Lists(b.waiting, x)
  BY <1>1, MembersFacts
<1>3. /\ x \notin U /\ ~Lists(b.inflight, x) /\ b.hnd[x].current_req /\ b.req[x] \in Request
  BY <1>1, <1>2 DEF Core, ListsOK, ListedOK
<1>4. r \in Request /\ r.ns = n /\ r.trans_id = id
  <2>1. id \in 0 .. NIds
    BY LimitAssumption DEF Picks, Ids
  <2> QED BY <1>3, <2>1 DEF Request
<1>5. LeavesWaiting(b, c) /\ c.req = b.req /\ c.servers = b.servers /\ DOMAIN c = Fields
      /\ c.hnd = b.hnd /\ c.inflight = b.inflight /\ c.ninflight = b.ninflight /\ c.ns = b.ns
  <2>1. Changes(b, c, {"waiting", "nwaiting"})
    BY <1>1 DEF Changes
  <2>2. c.waiting = Tail(b.waiting) /\ c.nwaiting = b.nwaiting - 1
    BY <1>1 DEF Fields
  <2> HIDE DEF c
  <2> QED BY <2>1, <2>2 DEF LeavesWaiting, Changes, Fields
<1>6. Core(c, V) /\ Calm(b, c) /\ (Watched(b, {}) => Watched(c, {}))
  <2> HIDE DEF c
  <2> QED BY <1>5, LeaveWaitingKeeps
<1>7. g.draw \in Seq(Ids) /\ g.draw # <<>>
  BY <1>1, DrawFacts DEF LaunchFields
<1>8. SetsRequest(c, d, x, r)
  <2>1. Changes(c, d, {"req", "draw"})
    BY <1>5 DEF Changes
  <2>2. d.draw = g.draw /\ d.req = [c.req EXCEPT ![x] = r]
    BY <1>5 DEF Fields
  <2> HIDE DEF c, d, r
  <2> QED BY <1>1, <1>4, <1>5, <1>7, <2>1, <2>2 DEF SetsRequest
<1>9. RequestSet(c, d, V, x, r)
  <2> HIDE DEF c, d, r
  <2>1. x \in V \cap Handles
    BY <1>2
  <2> QED BY <1>6, <1>8, <2>1, SetRequestKeeps
<1>10. JoinsInflight(d, g, x, n)
  <2>1. Changes(d, g, {"ns", "inflight", "ninflight"})
    <3>1. /\ \A f \in Fields : f # "waiting" /\ f # "nwaiting" /\ f # "req" /\ f # "draw" => d[f] = b[f]
          /\ d.waiting = Tail(b.waiting) /\ d.nwaiting = b.nwaiting - 1 /\ d.draw = g.draw
          /\ d.req = [b.req EXCEPT ![x] = r]
      BY <1>1 DEF Fields
    <3> HIDE DEF d, c
    <3> QED BY <3>1 DEF LaunchFields, Changes
  <2>2. d.inflight = b.inflight /\ d.ninflight = b.ninflight /\ d.ns = b.ns
    <3> HIDE DEF c, d
    <3> QED BY <1>5, <1>9 DEF RequestSet
  <2> HIDE DEF c, d
  <2> QED BY <2>1, <2>2 DEF LaunchFields, JoinsInflight
<1> HIDE DEF c, r
<1>11. /\ d.inflight = b.inflight /\ d.req[x] = r /\ (\A y \in Handles : y # x => d.req[y] = b.req[y])
       /\ d.hnd = b.hnd /\ d.waiting = c.waiting /\ Core(d, V) /\ Calm(c, d)
       /\ Watched(c, {}) => Watched(d, {})
  <2>1. d.hnd = c.hnd
    BY <1>8 DEF SetsRequest, Changes, Fields
  <2> HIDE DEF d
  <2> QED BY <1>5, <1>9, <2>1 DEF RequestSet
<1> HIDE DEF d
<1>12. MayJoin(d, x)
  BY <1>3, <1>4, <1>11 DEF MayJoin, Picks
<1>13. x \in V \cap Handles /\ n = d.req[x].ns /\ d.hnd[x].current_req
  BY <1>2, <1>3, <1>4, <1>11
<1>14. HasJoined(d, g, V \ {x}, x)
  <2> HIDE DEF V
  <2> QED BY <1>10, <1>11, <1>12, <1>13, JoinInflightKeeps
<1>15. V \ {x} = U
  BY <1>3
<1>16. HasJoined(d, g, U, x)
  BY <1>14, <1>15
<1> HIDE DEF V
<1>17. Calm(b, g)
  BY <1>6, <1>11, <1>16, CalmTwice DEF HasJoined
<1>18. Watched(b, {}) => Watched(g, {x})
  <2>1. Watched(d, {}) => Watched(g, {} \cup {x})
    BY <1>16 DEF HasJoined
  <2>2. {} \cup {x} = {x}
    OBVIOUS
  <2> QED BY <1>6, <1>11, <2>1, <2>2
<1>19. \A y : Lists(c.waiting, y) <=> Lists(b.waiting, y) /\ y # x
  <2>1. PICK s \in Seq(Handles) : s = b.waiting /\ Distinct(s) /\ s # <<>>
    BY <1>1
  <2>2. \A y : Lists(Tail(s), y) <=> Lists(s, y) /\ y # Head(s)
    BY <2>1, TailFacts
  <2> QED BY <1>5, <2>1, <2>2 DEF LeavesWaiting
<1> QED BY <1>2, <1>11, <1>16, <1>17, <1>18, <1>19 DEF HasJoined

LEMMA LaunchPumping ==
  ASSUME NEW b, NEW U, Core(b, U), b.waiting # <<>>, NEW n \in Servers, Lists(b.servers, n),
         NEW x, x = Head(b.waiting), NEW send \in [Servers -> Sent], NEW c, c = Launch(b, x, n, send)
  PROVE  /\ Pumping(b, c, U)
         /\ Len(c.waiting) = Len(b.waiting) - 1 /\ c.max_inflight = b.max_inflight
<1> DEFINE g == Launched(b, x, n)
           e == evdns_request_transmit(g, x, send)
           id == transaction_id_pick(b)
<1>1. NetTyped(b) /\ b.waiting \in Seq(Handles)
  BY DEF Core, NetTyped
<1>2. x \in Handles
  BY <1>1
<1>3. c = evdns_transmit(e, send)
  BY DEF Launch, Launched
<1>4. LaunchFields(b, g, x, n, id)
  BY <1>1, <1>2, LaunchedFields
<1>5. Picks(b, id)
  BY <1>1, PickedIdIsFresh
<1> HIDE DEF g, id, e
<1>6. /\ Core(g, U) /\ Calm(b, g) /\ Lists(g.inflight, x)
      /\ \A y : Lists(b.inflight, y) => Lists(g.inflight, y)
      /\ \A y \in Handles : Lists(g.inflight, y) \/ Lists(g.waiting, y)
                            <=> Lists(b.inflight, y) \/ Lists(b.waiting, y)
      /\ \A y \in Handles : ~Lists(b.inflight, y) /\ ~Lists(b.waiting, y) => g.req[y] = b.req[y]
      /\ Watched(b, {}) => Watched(g, {x})
  BY <1>4, <1>5, LaunchedKeeps
<1>7. Sending(g, e, U, x)
  BY <1>2, <1>6, TransmitSending DEF e
<1>8. Carried(e, c, U)
  BY <1>3, <1>7, TransmitCarried DEF Sending
<1>9. Pumping(b, e, U)
  <2>1. Calm(b, e)
    BY <1>6, <1>7, KeptCalm, CalmTwice DEF Sending
  <2>2. e.waiting = Tail(b.waiting) /\ e.inflight = Append(b.inflight, x)
    BY <1>4, <1>7 DEF LaunchFields, Sending, SameQueues
  <2>3. /\ Len(Tail(b.waiting)) = Len(b.waiting) - 1 /\ Len(Append(b.inflight, x)) = Len(b.inflight) + 1
        /\ Len(b.waiting) \in Nat /\ Len(b.inflight) \in Nat
    BY <1>1 DEF NetTyped
  <2>5. Len(e.waiting) = Len(b.waiting) - 1 /\ Len(e.inflight) = Len(b.inflight) + 1
    BY <2>2, <2>3
  <2>6. PICK i \in Nat, j \in Nat : i = Len(b.waiting) /\ j = Len(b.inflight)
    BY <2>3
  <2>7. Unfinished(b) = i + j
    BY <2>6, Zenon DEF Unfinished
  <2>8. Unfinished(e) = Len(e.waiting) + Len(e.inflight)
    BY Zenon DEF Unfinished
  <2>9. Len(e.waiting) = i - 1 /\ Len(e.inflight) = j + 1
    BY <2>5, <2>6
  <2>4. Unfinished(e) = Unfinished(b)
    BY <2>7, <2>8, <2>9
  <2> QED BY <1>6, <1>7, <2>1, <2>4 DEF Pumping, Sending, SameQueues, Kept
<1>10. Pumping(b, c, U)
  BY <1>8, <1>9, CarriedPumping, PumpingTwice
<1>11. c.waiting = Tail(b.waiting)
  BY <1>4, <1>7, <1>8 DEF LaunchFields, Sending, Carried, SameQueues
<1>12. c.max_inflight = b.max_inflight
  BY <1>10 DEF Pumping, Calm, Same, ClientFields
<1>13. Len(Tail(b.waiting)) = Len(b.waiting) - 1
  BY <1>1
<1> QED BY <1>10, <1>11, <1>12, <1>13


LEMMA PumpedSteps ==
  ASSUME NEW b, NEW send, Len(b.waiting) \in Nat
  PROVE  /\ Pumped(b, send)[0] = b
         /\ \A i \in 1 .. Len(b.waiting) :
               Pumped(b, send)[i] = PumpOne(Pumped(b, send)[i - 1], send)
<1> DEFINE Is(m, g) == g = [i \in 0 .. m |-> IF i = 0 THEN b ELSE PumpOne(g[i - 1], send)]
           W == {m \in Nat : \E g : Is(m, g)}
<1>1. ASSUME NEW m \in Nat, \A j \in 0 .. (m - 1) : j \in W PROVE m \in W
  <2>1. CASE m = 0
    <3>1. [i \in 0 .. 0 |-> b] = [i \in 0 .. 0 |-> IF i = 0 THEN b
              ELSE PumpOne([i_1 \in 0 .. 0 |-> b][i - 1], send)]
      OBVIOUS
    <3>2. Is(m, [i \in 0 .. 0 |-> b])
      BY <2>1, <3>1
    <3> QED BY <3>2
  <2>2. CASE m > 0
    <3>1. m - 1 \in W
      BY <1>1, <2>2
    <3>2. PICK g : Is(m - 1, g)
      BY <3>1
    <3> DEFINE h == [i \in 0 .. m |-> IF i < m THEN g[i] ELSE PumpOne(g[m - 1], send)]
    <3>3. ASSUME NEW i \in 0 .. m
          PROVE  h[i] = IF i = 0 THEN b ELSE PumpOne(h[i - 1], send)
      <4>1. CASE i = 0
        BY <2>2, <3>2, <4>1
      <4>2. CASE i > 0 /\ i < m
        <5>1. i \in 0 .. (m - 1) /\ i - 1 \in 0 .. m /\ i - 1 < m /\ i # 0
          BY <4>2
        <5>2. h[i] = g[i] /\ h[i - 1] = g[i - 1]
          BY <4>2, <5>1
        <5>3. g[i] = PumpOne(g[i - 1], send)
          BY <3>2, <5>1
        <5> QED BY <5>1, <5>2, <5>3
      <4>3. CASE i = m
        <5>1. h[i - 1] = g[m - 1] /\ h[i] = PumpOne(g[m - 1], send)
          BY <2>2, <4>3
        <5> QED BY <5>1, <2>2, <4>3
      <4> QED BY <4>1, <4>2, <4>3
    <3>4. h = [i \in 0 .. m |-> IF i = 0 THEN b ELSE PumpOne(h[i - 1], send)]
      <4>1. h = [i \in 0 .. m |-> h[i]]
        OBVIOUS
      <4> HIDE DEF h
      <4> QED BY <3>3, <4>1
    <3> HIDE DEF h
    <3>5. Is(m, h)
      BY <3>4
    <3> HIDE DEF Is
    <3> QED BY <3>5
  <2> QED BY <2>1, <2>2
<1>2. Nat \subseteq W
  <2> HIDE DEF W
  <2> QED BY <1>1, StrongInduction
<1>3. \E g : Is(Len(b.waiting), g)
  <2> HIDE DEF Is
  <2> QED BY <1>2
<1>4. Is(Len(b.waiting), Pumped(b, send))
  BY <1>3, Zenon DEF Pumped
<1> HIDE DEF W
<1>5. 0 \in 0 .. Len(b.waiting) /\ Pumped(b, send)[0] = b
  BY <1>4
<1>6. ASSUME NEW i \in 1 .. Len(b.waiting)
      PROVE  Pumped(b, send)[i] = PumpOne(Pumped(b, send)[i - 1], send)
  <2>1. i \in 0 .. Len(b.waiting) /\ i # 0
    OBVIOUS
  <2> QED BY <1>4, <2>1
<1> QED BY <1>5, <1>6

LEMMA MovedPumping ==
  ASSUME NEW b, NEW c, NEW U, Moved(b, c, U)
  PROVE  Pumping(b, c, U)
<1>1. Calm(b, c)
  BY KeptCalm DEF Moved
<1>2. c.inflight = b.inflight /\ c.waiting = b.waiting
  BY DEF Moved, SameQueues
<1>3. Watched(b, {}) => Watched(c, {})
  BY SteadyWatched DEF Moved
<1> QED BY <1>1, <1>2, <1>3 DEF Pumping, Moved, Kept, Unfinished

\* Nothing is left for the pump to do.
Drained(b) == b.servers = <<>> \/ b.waiting = <<>> \/ ~(b.ninflight < b.max_inflight)

PumpStep(b, c, U) == Pumping(b, c, U) /\ ((Drained(b) /\ c = b) \/ Len(c.waiting) = Len(b.waiting) - 1)

LEMMA PumpOneSteps ==
  ASSUME NEW b, NEW U, Core(b, U), NEW send \in [Servers -> Sent], NEW c, c = PumpOne(b, send)
  PROVE  PumpStep(b, c, U)
<1> DEFINE d == AfterPick(b)
           n == nameserver_pick(b)
           x == Head(b.waiting)
<1>1. b.waiting \in Seq(Handles) /\ b.nwaiting = Len(b.waiting) /\ b.servers \in Seq(Servers)
  BY DEF Core, NetTyped, ListsOK
<1>2. b.nwaiting > 0 <=> b.waiting # <<>>
  BY <1>1
<1>3. CASE b.ninflight < b.max_inflight /\ b.nwaiting > 0 /\ b.servers # <<>>
  <2>1. c = Launch(d, x, n, send)
    BY <1>3 DEF PumpOne
  <2>2. Turned(b, d) /\ Moved(b, d, U) /\ n \in Servers /\ Lists(b.servers, n)
    BY <1>3, PickFacts, TurnedMoved
  <2> HIDE DEF d, n
  <2>3. d.waiting = b.waiting /\ Lists(d.servers, n) /\ Core(d, U) /\ d.waiting # <<>>
    BY <1>2, <1>3, <2>2 DEF Moved, SameQueues, Turned
  <2>4. x = Head(d.waiting)
    BY <2>3
  <2> HIDE DEF x
  <2>5. Pumping(d, c, U) /\ Len(c.waiting) = Len(d.waiting) - 1
    BY <2>1, <2>2, <2>3, <2>4, LaunchPumping
  <2>6. Pumping(b, c, U)
    BY <2>2, <2>5, MovedPumping, PumpingTwice
  <2> QED BY <2>3, <2>5, <2>6 DEF PumpStep
<1>4. CASE ~(b.ninflight < b.max_inflight /\ b.nwaiting > 0 /\ b.servers # <<>>)
  <2>1. c = b
    BY <1>4 DEF PumpOne
  <2>2. Drained(b)
    BY <1>2, <1>4 DEF Drained
  <2> QED BY <2>1, <2>2, PumpingSelf DEF PumpStep
<1> QED BY <1>3, <1>4

\* The pump leaves a request waiting only with another one in flight.
Fed(b) == b.servers # <<>> /\ b.waiting # <<>> => b.inflight # <<>>

LEMMA PumpFacts ==
  ASSUME NEW b, NEW U, Core(b, U), NEW send \in [Servers -> Sent], b.max_inflight \in 1 .. 5,
         NEW c, c = evdns_requests_pump_waiting_queue(b, send)
  PROVE  Pumping(b, c, U) /\ Fed(c)
<1> DEFINE k == Len(b.waiting)
           R(i) == Pumped(b, send)[i]
           W == {i \in Nat : i <= k => Pumping(b, R(i), U) /\ (Drained(R(i)) \/ Len(R(i).waiting) = k - i)}
<1>1. k \in Nat
  BY DEF Core, NetTyped
<1>2. R(0) = b /\ \A i \in 1 .. k : R(i) = PumpOne(R(i - 1), send)
  BY <1>1, PumpedSteps
<1>6. k = Len(b.waiting)
  OBVIOUS
<1> HIDE DEF k, R
<1>3. ASSUME NEW i \in Nat, \A j \in 0 .. (i - 1) : j \in W PROVE i \in W
  <2>1. CASE i = 0
    <3>1. Pumping(b, R(i), U)
      BY <2>1, <1>2, PumpingSelf
    <3>2. Len(R(i).waiting) = k - i
      BY <2>1, <1>1, <1>2, <1>6
    <3> QED BY <3>1, <3>2
  <2>2. CASE i > 0 /\ i <= k
    <3>1. i - 1 \in Nat /\ i - 1 <= k /\ i - 1 \in W /\ i \in 1 .. k
      BY <1>1, <1>3, <2>2
    <3> DEFINE d == R(i - 1)
    <3>2. Pumping(b, d, U) /\ (Drained(d) \/ Len(d.waiting) = k - (i - 1))
      BY <3>1
    <3>3. R(i) = PumpOne(d, send)
      BY <1>2, <3>1
    <3> HIDE DEF d
    <3>4. PumpStep(d, R(i), U)
      BY <3>2, <3>3, PumpOneSteps DEF Pumping
    <3>5. Pumping(b, R(i), U)
      BY <3>2, <3>4, PumpingTwice DEF PumpStep
    <3>6. Drained(R(i)) \/ Len(R(i).waiting) = k - i
      <4>1. CASE Drained(d) /\ R(i) = d
        BY <4>1
      <4>2. CASE Len(R(i).waiting) = Len(d.waiting) - 1 /\ ~Drained(d)
        BY <1>1, <3>1, <3>2, <4>2
      <4>3. CASE Len(R(i).waiting) = Len(d.waiting) - 1 /\ Drained(d) /\ R(i) # d
        <5>1. R(i) = d
          <6>1. R(i) = PumpOne(d, send) /\ (d.servers = <<>> \/ d.waiting = <<>> \/ ~(d.ninflight < d.max_inflight))
            BY <3>3, <4>3 DEF Drained
          <6>2. d.nwaiting = Len(d.waiting) /\ d.waiting \in Seq(Handles)
            BY <3>2 DEF Pumping, Core, NetTyped, ListsOK
          <6>3. d.waiting = <<>> => ~(d.nwaiting > 0)
            BY <6>2
          <6> QED BY <6>1, <6>3 DEF PumpOne
        <5> QED BY <4>3, <5>1
      <4> QED BY <3>4, <4>1, <4>2, <4>3 DEF PumpStep
    <3> QED BY <3>5, <3>6
  <2>3. CASE i > k
    BY <1>1, <2>3
  <2> QED BY <1>1, <2>1, <2>2, <2>3
<1>4. k \in W
  <2> HIDE DEF W
  <2> QED BY <1>1, <1>3, StrongInduction
<1>5. c = R(k)
  BY DEF evdns_requests_pump_waiting_queue, R, k
<1>7. Pumping(b, c, U) /\ (Drained(c) \/ Len(c.waiting) = k - k)
  BY <1>1, <1>4, <1>5
<1>8. c.max_inflight = b.max_inflight
  BY <1>7 DEF Pumping, Calm, Same, ClientFields
<1>9. c.waiting \in Seq(Handles) /\ c.inflight \in Seq(Handles) /\ c.ninflight = Len(c.inflight)
  BY <1>7 DEF Pumping, Core, NetTyped, ListsOK
<1>10. Len(c.waiting) = k - k => c.waiting = <<>>
  BY <1>1, <1>9
<1>11. ~(c.ninflight < c.max_inflight) => c.inflight # <<>>
  BY <1>8, <1>9
<1> QED BY <1>7, <1>10, <1>11 DEF Fed, Drained


-----------------------------------------------------------------------------
(* The client: a request leaves its list.                                  *)

\* What finishing requests does to servers: they may fail, and one that has nothing to do
\* may be put to sleep.
Eased(k, m) ==
  /\ m.probe = k.probe
  /\ m.state => k.state
  /\ m.timeout => k.timeout \/ (k.state /\ ~m.state)
  /\ ~DisableWhenInactive /\ ~m.state /\ (k.state \/ k.timeout) => m.timeout

ServersEased(b, c) ==
  \A n \in Servers : (Lists(c.servers, n) <=> Lists(b.servers, n)) /\ Eased(b.ns[n], c.ns[n])

LEMMA CalmEased ==
  ASSUME NEW b, NEW c, Calm(b, c)
  PROVE  ServersEased(b, c) /\ Same(b, c, ClientFields)
BY DEF Calm, ServerKept, ServersEased, Eased

LEMMA EasedTwice ==
  ASSUME NEW b, NEW c, NEW d, ServersEased(b, c), ServersEased(c, d)
  PROVE  ServersEased(b, d)
BY DEF ServersEased, Eased

Unlinked(b, c, x) ==
  /\ Core(c, {x}) /\ Same(b, c, ClientFields) /\ ServersEased(b, c)
  /\ c.req = b.req /\ c.servers = b.servers /\ c.draw = b.draw
  /\ Unfinished(c) = Unfinished(b) - 1
  /\ \A y : Lists(c.inflight, y) <=> Lists(b.inflight, y) /\ y # x
  /\ \A y : Lists(c.waiting, y) <=> Lists(b.waiting, y) /\ y # x
  /\ ~DisableWhenInactive /\ Watched(b, {x}) => Watched(c, {})

Shrunk(X, s, x, t) ==
  /\ t \in Seq(X) /\ Len(t) = Len(s) - 1 /\ Distinct(t)
  /\ \A y : Lists(t, y) <=> Lists(s, y) /\ y # x

LEMMA WithoutShrinks ==
  ASSUME NEW X, NEW s \in Seq(X), Distinct(s), NEW x, Lists(s, x)
  PROVE  Shrunk(X, s, x, Without(s, x))
BY WithoutFacts DEF Shrunk

LEMMA UnlinkWaiting ==
  ASSUME NEW b, Core(b, {}), NEW x \in Handles, Lists(b.waiting, x),
         NEW c, c = Unlink(b, x, None)
  PROVE  Unlinked(b, c, x)
<1>1. DOMAIN b = Fields /\ b.waiting \in Seq(Handles) /\ Distinct(b.waiting) /\ b.nwaiting = Len(b.waiting)
  BY DEF Core, NetTyped, ListsOK
<1>2. /\ Changes(b, c, {"waiting", "nwaiting"}) /\ c.waiting = Without(b.waiting, x)
      /\ c.nwaiting = b.nwaiting - 1
  <2>1. Changes(b, c, {"waiting", "nwaiting"})
    BY <1>1 DEF Unlink, Changes
  <2>2. c.waiting = Without(b.waiting, x) /\ c.nwaiting = b.nwaiting - 1
    BY <1>1 DEF Unlink, Fields
  <2> QED BY <2>1, <2>2
<1>3. Shrunk(Handles, b.waiting, x, c.waiting)
  BY <1>1, <1>2, WithoutShrinks
<1>4. /\ c.servers = b.servers /\ c.inflight = b.inflight /\ c.hnd = b.hnd /\ c.ns = b.ns
      /\ c.ninflight = b.ninflight /\ c.good = b.good /\ c.draw = b.draw /\ c.req = b.req
      /\ DOMAIN c = Fields /\ Same(b, c, ClientFields)
  BY <1>2 DEF Changes, Fields, Same, ClientFields
<1>5. ListsOK(c, {x})
  <2>1. ASSUME NEW y \in Handles PROVE ListedOK(c, y, {x})
    BY <1>3, <1>4 DEF Core, ListsOK, ListedOK, Shrunk
  <2>2. c.nwaiting = Len(c.waiting)
    BY <1>1, <1>2, <1>3 DEF Shrunk
  <2> QED BY <1>3, <1>4, <2>1, <2>2 DEF Core, ListsOK, Shrunk
<1>6. NetTyped(c)
  BY <1>3, <1>4 DEF Core, NetTyped, Shrunk
<1>7. CountsOK(c) /\ IdsOK(c)
  <2>1. UpServers(c) = UpServers(b) /\ \A n \in Servers : Load(c, n) = Load(b, n)
    BY <1>4 DEF UpServers, Load
  <2>2. CountsOK(c)
    BY <1>4, <2>1 DEF Core, CountsOK
  <2>3. IdsOK(c)
    BY <1>4 DEF Core, IdsOK, SearchedOn
  <2> QED BY <2>2, <2>3
<1>8. Core(c, {x})
  BY <1>4, <1>5, <1>6, <1>7 DEF Core
<1>9. ServersEased(b, c)
  BY <1>4 DEF ServersEased, Eased
<1>11. ~Lists(b.inflight, x)
  BY DEF Core, ListsOK, ListedOK
<1>10. Watched(b, {x}) => Watched(c, {})
  BY <1>4, <1>11 DEF Watched, SomeWaits
<1>12. Unfinished(c) = Unfinished(b) - 1
  <2>1. Len(c.waiting) = Len(b.waiting) - 1 /\ Len(b.waiting) \in Nat /\ Len(b.inflight) \in Nat
    BY <1>3 DEF Shrunk, Core, NetTyped
  <2> QED BY <1>4, <2>1 DEF Unfinished
<1> QED BY <1>3, <1>4, <1>8, <1>9, <1>10, <1>11, <1>12 DEF Unlinked, Shrunk

\* The fields of a server that loses a request; it may be disabled.
Left(k) ==
  LET last == DisableWhenInactive /\ k.requests_inflight = 1
  IN [k EXCEPT !.requests_inflight = @ - 1, !.event = @ /\ ~last, !.timeout = @ /\ ~last]

LeftOK(k, m) ==
  /\ m \in Server /\ m.requests_inflight = k.requests_inflight - 1
  /\ m.state = k.state /\ m.probe = k.probe /\ m.choked = k.choked
  /\ m.write_waiting = k.write_waiting
  /\ (m.event => k.event) /\ (m.timeout => k.timeout)
  /\ ~DisableWhenInactive => (m.event <=> k.event) /\ (m.timeout <=> k.timeout)

LEMMA LeftFacts ==
  ASSUME NEW k \in Server
  PROVE  LeftOK(k, Left(k))
<1> DEFINE last == DisableWhenInactive /\ k.requests_inflight = 1
<1>1. PICK i \in Int : i = k.requests_inflight - 1
  BY DEF Server
<1>2. PICK e \in BOOLEAN : e <=> k.event /\ ~last
  OBVIOUS
<1>3. PICK t \in BOOLEAN : t <=> k.timeout /\ ~last
  OBVIOUS
<1>4. k.event \in BOOLEAN /\ k.timeout \in BOOLEAN
  BY DEF Server
<1>5. e = (k.event /\ ~last) /\ t = (k.timeout /\ ~last)
  BY <1>2, <1>3, <1>4, Zenon
<1>6. Left(k) = [k EXCEPT !.requests_inflight = i, !.event = e, !.timeout = t]
  BY <1>1, <1>5 DEF Left
<1>7. ~DisableWhenInactive => ~last
  OBVIOUS
<1> HIDE DEF last
<1> QED BY <1>1, <1>2, <1>3, <1>6, <1>7 DEF LeftOK, Server

UnlinkFields(b, c, x, n) ==
  /\ Changes(b, c, {"inflight", "ninflight", "ns"})
  /\ c.inflight = Without(b.inflight, x) /\ c.ninflight = b.ninflight - 1
  /\ c.ns = [b.ns EXCEPT ![n] = Left(b.ns[n])]

LEMMA UnlinkHasFields ==
  ASSUME NEW b, NetTyped(b), NEW x \in Handles, NEW n \in Servers, NEW c, c = Unlink(b, x, n)
  PROVE  UnlinkFields(b, c, x, n)
<1>1. DOMAIN b = Fields /\ n # None /\ b.ns \in [Servers -> Server]
  BY NoneAssumption DEF NetTyped
<1>2. PICK k : k = Left(b.ns[n])
  OBVIOUS
<1>3. c = [b EXCEPT !.inflight = Without(@, x), !.ninflight = @ - 1, !.ns[n] = k]
  BY <1>1, <1>2 DEF Unlink, Left
<1>4. Changes(b, c, {"inflight", "ninflight", "ns"})
  BY <1>1, <1>3 DEF Changes
<1>5. c.inflight = Without(b.inflight, x) /\ c.ninflight = b.ninflight - 1
  BY <1>1, <1>3 DEF Fields
<1>6. c.ns = [b.ns EXCEPT ![n] = k]
  BY <1>1, <1>3 DEF Fields
<1> QED BY <1>2, <1>4, <1>5, <1>6 DEF UnlinkFields

LEMMA UnlinkInflight ==
  ASSUME NEW b, Core(b, {}), NEW x \in Handles, Lists(b.inflight, x),
         NEW n \in Servers, n = b.req[x].ns, NEW c, c = Unlink(b, x, n)
  PROVE  Unlinked(b, c, x)
<1>1. /\ NetTyped(b) /\ b.inflight \in Seq(Handles) /\ Distinct(b.inflight)
      /\ b.ninflight = Len(b.inflight)
      /\ Lists(b.servers, n) /\ b.ns \in [Servers -> Server] /\ b.ns[n] \in Server
      /\ ~Lists(b.waiting, x) /\ n # None
  BY NoneAssumption DEF Core, NetTyped, ListsOK, ListedOK
<1>2. UnlinkFields(b, c, x, n)
  BY <1>1, UnlinkHasFields
<1>3. Shrunk(Handles, b.inflight, x, c.inflight)
  BY <1>1, <1>2, WithoutShrinks DEF UnlinkFields
<1>4. /\ c.servers = b.servers /\ c.waiting = b.waiting /\ c.hnd = b.hnd /\ c.req = b.req
      /\ c.nwaiting = b.nwaiting /\ c.good = b.good /\ c.draw = b.draw
      /\ DOMAIN c = Fields /\ Same(b, c, ClientFields)
  BY <1>2 DEF UnlinkFields, Changes, Fields, Same, ClientFields
<1> DEFINE k == Left(b.ns[n])
<1>5. LeftOK(b.ns[n], k)
  BY <1>1, LeftFacts
<1>6. c.ns = [b.ns EXCEPT ![n] = k]
  BY <1>2 DEF UnlinkFields
<1> HIDE DEF k
<1>7. /\ c.ns \in [Servers -> Server] /\ c.ns[n] = k
      /\ \A m \in Servers : m # n => c.ns[m] = b.ns[m]
  BY <1>1, <1>5, <1>6 DEF LeftOK
<1>8. ListsOK(c, {x})
  <2>1. ASSUME NEW y \in Handles PROVE ListedOK(c, y, {x})
    <3>1. CASE y = x
      BY <1>1, <1>3, <1>4, <3>1 DEF Core, ListsOK, ListedOK, Shrunk
    <3>2. CASE y # x
      BY <1>3, <1>4, <3>2 DEF Core, ListsOK, ListedOK, Shrunk
    <3> QED BY <3>1, <3>2
  <2>2. c.ninflight = Len(c.inflight)
    BY <1>1, <1>2, <1>3 DEF UnlinkFields, Shrunk
  <2> QED BY <1>3, <1>4, <2>1, <2>2 DEF Core, ListsOK, Shrunk
<1>9. NetTyped(c)
  BY <1>3, <1>4, <1>7 DEF Core, NetTyped, Shrunk
<1>10. CountsOK(c)
  <2>1. UpServers(c) = UpServers(b)
    BY <1>4, <1>5, <1>7 DEF UpServers, LeftOK
  <2>2. Load(c, n) = Load(b, n) \ {x} /\ x \in Load(b, n)
    BY <1>3, <1>4 DEF Load, Shrunk
  <2>3. \A m \in Servers : m # n => Load(c, m) = Load(b, m)
    BY <1>3, <1>4 DEF Load, Shrunk
  <2>4. Cardinality(Load(c, n)) = Cardinality(Load(b, n)) - 1
    BY <2>2, LoadFinite, OneFewer
  <2>5. c.ns[n].requests_inflight = b.ns[n].requests_inflight - 1
    BY <1>5, <1>7 DEF LeftOK
  <2>6. \A m \in Servers : Lists(b.servers, m) => b.ns[m].requests_inflight = Cardinality(Load(b, m))
    BY DEF Core, CountsOK
  <2>7. ASSUME NEW m \in Servers, Lists(c.servers, m)
        PROVE  c.ns[m].requests_inflight = Cardinality(Load(c, m))
    BY <1>4, <1>7, <2>3, <2>4, <2>5, <2>6, <2>7
  <2> QED BY <1>4, <2>1, <2>7 DEF Core, CountsOK
<1>11. IdsOK(c)
  BY <1>3, <1>4 DEF Core, IdsOK, SearchedOn, Shrunk
<1>12. Core(c, {x})
  BY <1>4, <1>8, <1>9, <1>10, <1>11 DEF Core
<1>13. ServersEased(b, c)
  <2>1. Eased(b.ns[n], c.ns[n])
    BY <1>5, <1>7 DEF Eased, LeftOK
  <2> QED BY <1>4, <1>7, <2>1 DEF ServersEased, Eased
<1>14. ~DisableWhenInactive /\ Watched(b, {x}) => Watched(c, {})
  <2> SUFFICES ASSUME ~DisableWhenInactive, Watched(b, {x}) PROVE Watched(c, {})
    OBVIOUS
  <2>1. \A m \in Servers : ServerWatched(c.ns[m]) /\ c.ns[m].write_waiting = b.ns[m].write_waiting
    BY <1>5, <1>7 DEF Watched, ServerWatched, LeftOK
  <2>2. SomeWaits(b) => SomeWaits(c)
    BY <1>4, <2>1 DEF SomeWaits
  <2> QED BY <1>3, <1>4, <2>1, <2>2 DEF Watched, Shrunk
<1>15. Unfinished(c) = Unfinished(b) - 1
  <2>1. Len(c.inflight) = Len(b.inflight) - 1 /\ Len(b.waiting) \in Nat /\ Len(b.inflight) \in Nat
    BY <1>3 DEF Shrunk, Core, NetTyped
  <2> QED BY <1>4, <2>1 DEF Unfinished
<1> QED BY <1>1, <1>3, <1>4, <1>12, <1>13, <1>14, <1>15 DEF Unlinked, Shrunk

LEMMA UnlinkKeeps ==
  ASSUME NEW b, Core(b, {}), NEW x \in Handles, b.hnd[x].current_req,
         NEW c, c = Unlink(b, x, b.req[x].ns)
  PROVE  Unlinked(b, c, x)
<1>1. /\ Lists(b.inflight, x) \/ Lists(b.waiting, x)
      /\ b.req[x].ns # None <=> Lists(b.inflight, x)
      /\ b.req[x].ns \in Servers \cup {None}
  <2>1. b.req[x] \in Request
    BY DEF Core, NetTyped
  <2> QED BY <2>1 DEF Core, ListsOK, ListedOK, Request
<1>2. CASE b.req[x].ns = None
  BY <1>1, <1>2, UnlinkWaiting
<1>3. CASE b.req[x].ns # None
  BY <1>1, <1>3, UnlinkInflight
<1> QED BY <1>2, <1>3

-----------------------------------------------------------------------------
(* The client: the lists of search domains.                                *)

SearchState == [refcount : Int, domains : Seq(Domains)]
Holders(b, k) == {x \in Handles : b.hnd[x].search_state = k}

\* One list is counted right.
CountedOK(b, k) ==
  b.search[k].refcount = Cardinality(Holders(b, k)) + (IF b.global = k THEN 1 ELSE 0)
RefsOK(b) ==
  /\ b.search \in [States -> SearchState] /\ b.global \in States \cup {None}
  /\ \A k \in States : CountedOK(b, k)
  /\ b.global = None => \A x \in Handles : b.hnd[x].search_state = None
  /\ \A x \in Handles : b.hnd[x].search_state # None => x \in Users /\ b.hnd[x].current_req
  /\ \A x \in Handles : x \notin Dotted => b.hnd[x].search_index \in Nat

LEMMA HoldersFinite ==
  ASSUME NEW b, NEW k
  PROVE  IsFiniteSet(Holders(b, k)) /\ Cardinality(Holders(b, k)) \in Nat
<1>1. Holders(b, k) \in SUBSET Handles
  BY DEF Holders
<1> QED BY <1>1, FiniteHandles

\* search_state_decref lowers the count of a list, and frees it with the last.
DecrefFields(b, c, k) ==
  /\ Changes(b, c, {"search"})
  /\ c.search \in [States -> SearchState]
  /\ \A j \in States : j # k => c.search[j] = b.search[j]
  /\ k # None => c.search[k].refcount = b.search[k].refcount - 1

LEMMA DecrefHasFields ==
  ASSUME NEW b, DOMAIN b = Fields, b.search \in [States -> SearchState], NEW k \in States \cup {None},
         NEW c, c = search_state_decref(b, k)
  PROVE  DecrefFields(b, c, k)
<1>1. CASE k = None
  <2>1. c = b
    BY <1>1 DEF search_state_decref
  <2> QED BY <1>1, <2>1 DEF DecrefFields, Changes
<1>2. CASE k # None
  <2>1. k \in States /\ b.search[k] \in SearchState
    BY <1>2
  <2>2. PICK s \in SearchState :
           /\ s.refcount = b.search[k].refcount - 1
           /\ c = [b EXCEPT !.search[k] = s]
    <3>1. CASE b.search[k].refcount = 1
      <4>1. c = [b EXCEPT !.search[k] = NoSearchState]
        BY <1>2, <3>1 DEF search_state_decref
      <4>2. NoSearchState \in SearchState /\ NoSearchState.refcount = 0
        BY DEF NoSearchState, SearchState
      <4>3. NoSearchState.refcount = b.search[k].refcount - 1
        BY <3>1, <4>2
      <4> QED BY <4>1, <4>2, <4>3, Zenon
    <3>2. CASE b.search[k].refcount # 1
      <4>1. PICK i \in Int : i = b.search[k].refcount - 1
        BY <2>1 DEF SearchState
      <4>2. c = [b EXCEPT !.search[k] = [b.search[k] EXCEPT !.refcount = i]]
        BY <1>2, <3>2, <4>1 DEF search_state_decref
      <4>3. [b.search[k] EXCEPT !.refcount = i] \in SearchState /\ [b.search[k] EXCEPT !.refcount = i].refcount = i
        BY <2>1 DEF SearchState
      <4> QED BY <4>1, <4>2, <4>3
    <3> QED BY <3>1, <3>2
  <2>3. Changes(b, c, {"search"})
    BY <2>2 DEF Changes
  <2>4. c.search = [b.search EXCEPT ![k] = s]
    BY <2>2 DEF Fields
  <2> QED BY <2>1, <2>2, <2>3, <2>4 DEF DecrefFields
<1> QED BY <1>1, <1>2


\* A handle lets go of its list of search domains.
SearchDropped(b, c, x) ==
  /\ Changes(b, c, {"search", "hnd"})
  /\ c.hnd = [b.hnd EXCEPT ![x] = [b.hnd[x] EXCEPT !.search_state = None]]
  /\ RefsOK(b) => RefsOK(c)

LEMMA SearchFinishedDrops ==
  ASSUME NEW b, DOMAIN b = Fields, b.hnd \in [Handles -> Handle], RefsOK(b),
         NEW x \in Handles, NEW c, c = search_request_finished(b, x)
  PROVE  SearchDropped(b, c, x)
<1>1. PICK k \in States \cup {None} : k = b.hnd[x].search_state
  BY DEF Handle
<1>2. PICK d : d = search_state_decref(b, k)
  OBVIOUS
<1>3. c = [d EXCEPT !.hnd[x].search_state = None]
  BY <1>1, <1>2 DEF search_request_finished
<1>4. DecrefFields(b, d, k)
  BY <1>2, DecrefHasFields DEF RefsOK
<1>5. d.hnd = b.hnd /\ DOMAIN d = Fields
  BY <1>4 DEF DecrefFields, Changes, Fields
<1> DEFINE h == [b.hnd[x] EXCEPT !.search_state = None]
<1>6. c.hnd = [b.hnd EXCEPT ![x] = h]
  BY <1>3, <1>5 DEF Fields
<1>7. Changes(b, c, {"search", "hnd"}) /\ c.search = d.search /\ c.global = b.global
  <2>1. Changes(d, c, {"hnd"})
    BY <1>3, <1>5 DEF Changes
  <2>2. c.search = d.search /\ c.global = d.global /\ d.global = b.global
    BY <1>4, <2>1 DEF DecrefFields, Changes, Fields
  <2> QED BY <1>4, <2>1, <2>2 DEF DecrefFields, Changes
<1>8. h \in Handle /\ h.search_state = None /\ h.search_index = b.hnd[x].search_index
  BY DEF Handle
<1> HIDE DEF h
<1>9. c.hnd \in [Handles -> Handle] /\ c.hnd[x] = h /\ \A y \in Handles : y # x => c.hnd[y] = b.hnd[y]
  BY <1>6, <1>8
<1>10. None \notin States
  BY NoneAssumption DEF States
<1>11. ASSUME NEW j \in States PROVE CountedOK(c, j)
  <2>1. CountedOK(b, j)
    BY DEF RefsOK
  <2>2. CASE j = k
    <3>1. Holders(c, j) = Holders(b, j) \ {x} /\ x \in Holders(b, j)
      BY <1>1, <1>8, <1>9, <1>10, <2>2 DEF Holders
    <3>2. Cardinality(Holders(c, j)) = Cardinality(Holders(b, j)) - 1
      BY <3>1, HoldersFinite, OneFewer
    <3>3. c.search[j].refcount = b.search[j].refcount - 1
      BY <1>4, <1>7, <1>10, <2>2 DEF DecrefFields
    <3>4. Cardinality(Holders(b, j)) \in Nat
      BY HoldersFinite
    <3> QED BY <1>7, <2>1, <3>2, <3>3, <3>4 DEF CountedOK
  <2>3. CASE j # k
    <3>1. Holders(c, j) = Holders(b, j)
      BY <1>1, <1>8, <1>9, <1>10, <2>3 DEF Holders
    <3>2. c.search[j] = b.search[j]
      BY <1>4, <1>7, <2>3 DEF DecrefFields
    <3> QED BY <1>7, <2>1, <3>1, <3>2 DEF CountedOK
  <2> QED BY <2>2, <2>3
<1>12. c.search \in [States -> SearchState]
  BY <1>4, <1>7 DEF DecrefFields
<1>13. RefsOK(c)
  BY <1>7, <1>8, <1>9, <1>11, <1>12 DEF RefsOK
<1> QED BY <1>6, <1>7, <1>13 DEF SearchDropped, h

\* A handle without a request.
Idled(h) == [h EXCEPT !.search_state = None, !.current_req = FALSE]

Released(b, c, x) ==
  /\ Changes(b, c, {"search", "hnd", "req"})
  /\ c.hnd = [b.hnd EXCEPT ![x] = Idled(b.hnd[x])] /\ c.req = [b.req EXCEPT ![x] = NoRequest]
  /\ Core(c, {}) /\ RefsOK(c)
  /\ Watched(b, {}) => Watched(c, {})

LEMMA NoRequestFacts ==
  NoRequest \in Request /\ NoRequest.ns = None /\ ~NoRequest.timeout
<1>1. NIds \in Nat /\ NIds \in 0 .. NIds /\ None \in Names
  BY LimitAssumption DEF Names
<1> QED BY <1>1 DEF NoRequest, Request

LEMMA ReleaseKeeps ==
  ASSUME NEW b, NEW x \in Handles, Core(b, {x}), RefsOK(b), NEW c, c = ReleaseHandle(b, x)
  PROVE  Released(b, c, x)
<1> DEFINE d == search_request_finished(b, x)
           h == Idled(b.hnd[x])
<1>1. /\ NetTyped(b) /\ DOMAIN b = Fields /\ b.hnd \in [Handles -> Handle] /\ b.hnd[x] \in Handle
      /\ b.req \in [Handles -> Request] /\ ~Lists(b.inflight, x) /\ ~Lists(b.waiting, x)
  BY DEF Core, NetTyped, ListsOK, ListedOK
<1>2. SearchDropped(b, d, x)
  BY <1>1, SearchFinishedDrops
<1>3. c = [d EXCEPT !.hnd[x].current_req = FALSE, !.req[x] = NoRequest]
  BY DEF ReleaseHandle
<1> HIDE DEF d
<1>4. DOMAIN d = Fields /\ d.req = b.req
  BY <1>2 DEF SearchDropped, Changes, Fields
<1>5. Changes(d, c, {"hnd", "req"})
  BY <1>3, <1>4 DEF Changes
<1>6. Changes(b, c, {"search", "hnd", "req"})
  BY <1>2, <1>5 DEF SearchDropped, Changes
<1>7. c.req = [b.req EXCEPT ![x] = NoRequest]
  BY <1>3, <1>4 DEF Fields
<1>8. c.hnd = [b.hnd EXCEPT ![x] = h]
  <2>1. c.hnd = [d.hnd EXCEPT ![x] = [d.hnd[x] EXCEPT !.current_req = FALSE]]
    BY <1>3, <1>4 DEF Fields
  <2>2. d.hnd[x] = [b.hnd[x] EXCEPT !.search_state = None]
    BY <1>1, <1>2 DEF SearchDropped
  <2>3. h = [d.hnd[x] EXCEPT !.current_req = FALSE]
    BY <2>2 DEF Idled
  <2> QED BY <1>1, <1>2, <2>1, <2>3 DEF SearchDropped
<1>9. /\ h \in Handle /\ h.search_state = None /\ ~h.current_req /\ h.search_index = b.hnd[x].search_index
  BY <1>1 DEF Idled, Handle
<1> HIDE DEF h
<1>10. /\ c.hnd \in [Handles -> Handle] /\ c.hnd[x] = h
       /\ \A y \in Handles : y # x => c.hnd[y] = b.hnd[y]
       /\ c.req \in [Handles -> Request] /\ c.req[x] = NoRequest
       /\ \A y \in Handles : y # x => c.req[y] = b.req[y]
  <2>1. /\ c.hnd \in [Handles -> Handle] /\ c.hnd[x] = h
        /\ \A y \in Handles : y # x => c.hnd[y] = b.hnd[y]
    BY <1>1, <1>8, <1>9
  <2>2. /\ c.req \in [Handles -> Request] /\ c.req[x] = NoRequest
        /\ \A y \in Handles : y # x => c.req[y] = b.req[y]
    BY <1>1, <1>7, NoRequestFacts
  <2> QED BY <2>1, <2>2
<1>11. /\ c.servers = b.servers /\ c.inflight = b.inflight /\ c.waiting = b.waiting
       /\ c.ninflight = b.ninflight /\ c.nwaiting = b.nwaiting /\ c.good = b.good /\ c.draw = b.draw
       /\ c.ns = b.ns /\ c.global = b.global /\ DOMAIN c = Fields
  BY <1>6 DEF Changes, Fields
<1>12. ListsOK(c, {})
  <2>1. ASSUME NEW y \in Handles PROVE ListedOK(c, y, {})
    <3>1. CASE y = x
      BY <1>1, <1>9, <1>10, <1>11, <3>1, NoRequestFacts DEF ListedOK
    <3>2. CASE y # x
      BY <1>10, <1>11, <3>2 DEF Core, ListsOK, ListedOK
    <3> QED BY <3>1, <3>2
  <2> QED BY <1>11, <2>1 DEF Core, ListsOK
<1>13. NetTyped(c)
  BY <1>10, <1>11 DEF Core, NetTyped
<1>14. CountsOK(c) /\ IdsOK(c)
  <2>1. UpServers(c) = UpServers(b) /\ \A n \in Servers : Load(c, n) = Load(b, n)
    BY <1>1, <1>10, <1>11 DEF UpServers, Load
  <2>2. CountsOK(c)
    BY <1>11, <2>1 DEF Core, CountsOK
  <2>3. IdsOK(c)
    BY <1>1, <1>10, <1>11 DEF Core, IdsOK, SearchedOn
  <2> QED BY <2>2, <2>3
<1>15. Core(c, {})
  BY <1>10, <1>12, <1>13, <1>14 DEF Core
<1>16. RefsOK(c)
  <2>1. RefsOK(d) /\ c.search = d.search /\ c.global = d.global
    BY <1>2, <1>5 DEF SearchDropped, Changes, Fields
  <2>2. d.hnd[x].search_state = None /\ \A y \in Handles : y # x => d.hnd[y] = b.hnd[y]
    BY <1>1, <1>2 DEF SearchDropped, Handle
  <2>3. \A k : Holders(c, k) = Holders(d, k)
    BY <1>9, <1>10, <2>2 DEF Holders
  <2>4. \A k \in States : CountedOK(c, k)
    BY <2>1, <2>3 DEF RefsOK, CountedOK
  <2>5. \A y \in Handles : y \notin Dotted => c.hnd[y].search_index \in Nat
    BY <1>9, <1>10 DEF RefsOK
  <2> QED BY <1>9, <1>10, <2>1, <2>2, <2>4, <2>5 DEF RefsOK
<1>17. Watched(b, {}) => Watched(c, {})
  BY <1>1, <1>10, <1>11 DEF Watched, SomeWaits
<1> QED BY <1>6, <1>7, <1>8, <1>15, <1>16, <1>17 DEF Released, h


-----------------------------------------------------------------------------
(* The client: a request is finished.                                      *)

OtherFields == ClientFields \ {"hnd", "search"}

Finished(b, c, x) ==
  /\ Core(c, {}) /\ RefsOK(c) /\ Fed(c)
  /\ Same(b, c, OtherFields) /\ ServersEased(b, c)
  /\ c.hnd = [b.hnd EXCEPT ![x] = Idled(b.hnd[x])]
  /\ \A y : Lists(b.inflight, y) /\ y # x => Lists(c.inflight, y)
  /\ Unfinished(c) = Unfinished(b) - 1
  /\ ~DisableWhenInactive /\ Watched(b, {x}) => Watched(c, {})

LEMMA RequestFinished ==
  ASSUME NEW b, Core(b, {}), RefsOK(b), b.max_inflight \in 1 .. 5, NEW send \in [Servers -> Sent],
         NEW x \in Handles, b.hnd[x].current_req, NEW c, c = request_finished(b, x, send)
  PROVE  Finished(b, c, x)
<1>1. PICK d : d = Unlink(b, x, b.req[x].ns)
  OBVIOUS
<1>2. PICK e : e = ReleaseHandle(d, x)
  OBVIOUS
<1>3. c = evdns_requests_pump_waiting_queue(e, send)
  BY <1>1, <1>2 DEF request_finished
<1>4. Unlinked(b, d, x)
  BY <1>1, UnlinkKeeps
<1>5. /\ d.hnd = b.hnd /\ d.search = b.search /\ d.global = b.global /\ d.max_inflight = b.max_inflight
      /\ Same(b, d, OtherFields)
  BY <1>4 DEF Unlinked, Same, ClientFields, OtherFields
<1>6. RefsOK(d)
  <2>1. \A k : Holders(d, k) = Holders(b, k)
    BY <1>5 DEF Holders
  <2> QED BY <1>5, <2>1 DEF RefsOK, CountedOK
<1>7. Released(d, e, x)
  BY <1>2, <1>4, <1>6, ReleaseKeeps DEF Unlinked
<1>8. /\ Core(e, {}) /\ RefsOK(e) /\ Same(d, e, OtherFields) /\ e.max_inflight = b.max_inflight
      /\ e.ns = d.ns /\ e.servers = d.servers /\ e.inflight = d.inflight /\ e.waiting = d.waiting
      /\ e.hnd = [b.hnd EXCEPT ![x] = Idled(b.hnd[x])]
  BY <1>5, <1>7 DEF Released, Changes, Same, OtherFields, ClientFields, Fields
<1>9. Pumping(e, c, {}) /\ Fed(c)
  BY <1>3, <1>8, PumpFacts
<1>10. Same(e, c, ClientFields) /\ ServersEased(e, c) /\ Core(c, {})
  BY <1>9, CalmEased DEF Pumping
<1>11. c.hnd = e.hnd /\ c.search = e.search /\ c.global = e.global /\ Same(e, c, OtherFields)
  BY <1>10 DEF Same, ClientFields, OtherFields
<1>12. RefsOK(c)
  <2>1. \A k : Holders(c, k) = Holders(e, k)
    BY <1>11 DEF Holders
  <2> QED BY <1>8, <1>11, <2>1 DEF RefsOK, CountedOK
<1>13. ServersEased(b, c)
  <2>1. ServersEased(b, d)
    BY <1>4 DEF Unlinked
  <2>2. ServersEased(d, e)
    BY <1>8 DEF ServersEased, Eased
  <2> QED BY <1>10, <2>1, <2>2, EasedTwice
<1>14. Same(b, c, OtherFields)
  BY <1>5, <1>8, <1>11 DEF Same
<1>15. Unfinished(c) = Unfinished(b) - 1
  <2>1. Unfinished(e) = Unfinished(d)
    BY <1>8 DEF Unfinished
  <2> QED BY <1>4, <1>9, <2>1 DEF Unlinked, Pumping
<1>16. \A y : Lists(b.inflight, y) /\ y # x => Lists(c.inflight, y)
  BY <1>4, <1>8, <1>9 DEF Unlinked, Pumping
<1>17. ~DisableWhenInactive /\ Watched(b, {x}) => Watched(c, {})
  BY <1>4, <1>7, <1>9 DEF Unlinked, Released, Pumping
<1> QED BY <1>8, <1>9, <1>10, <1>11, <1>12, <1>13, <1>14, <1>15, <1>16, <1>17 DEF Finished
=============================================================================
