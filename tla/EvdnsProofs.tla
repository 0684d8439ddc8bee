----------------------------- MODULE EvdnsProofs -----------------------------
(***************************************************************************)
(* Proofs about the client of evdns.c (Evdns), for every value of its      *)
(* constants.  IInv is the inductive invariant; each operation of the code *)
(* has a lemma saying that it keeps its parts, built from the lemmas at    *)
(* the end of DnsProofs about lists, requests, servers and sending.        *)
(***************************************************************************)
EXTENDS DnsProofs

-----------------------------------------------------------------------------
(* The client: results on their way, and probes of servers.                *)

StillFields == OtherFields \ {"deferred"}
Active(h) == h.current_req \/ h.pending_cb
HasResult(b, x) == \E i \in 1 .. Len(b.deferred) : b.deferred[i][1] = x
LiveResult(b, x) == \E i \in 1 .. Len(b.deferred) : b.deferred[i][1] = x /\ b.deferred[i][2] # "CANCEL"

\* A handle has one result at most, and the requests of V have theirs before they end.
Pend(b, V) ==
  /\ b.deferred \in Seq(Handles \X Errors)
  /\ \A i, j \in 1 .. Len(b.deferred) : b.deferred[i][1] = b.deferred[j][1] => i = j
  /\ \A x \in Handles : b.hnd[x].pending_cb <=> HasResult(b, x)
  /\ \A x \in Handles : b.hnd[x].pending_cb /\ b.hnd[x].current_req => x \in V
  /\ V \subseteq Handles /\ \A x \in V : b.hnd[x].current_req
  /\ \A x \in Users : x \in b.told => ~Active(b.hnd[x])

\* A server's probe is out for it, or has its result on the way.
ProbeOfServer(b, n) ==
  LET p == b.ns[n].probe IN p # None => b.hnd[p].ns = n /\ Active(b.hnd[p])
\* A probe that is out is the one of a server that is down and waits for nothing else.
ProbeIsOut(b, x) ==
  \E n \in Servers : /\ b.hnd[x].ns = n /\ Lists(b.servers, n) /\ b.ns[n].probe = x
                     /\ ~b.ns[n].state /\ ~b.ns[n].timeout

\* The probes of V are about to end, the servers of Z about to forget theirs.
Rest(b, V, Z) ==
  /\ \A x \in Handles : ~Active(b.hnd[x]) => b.hnd[x] = NewHandle
  /\ \A x \in Users : /\ b.hnd[x].ns = None
                      /\ x \notin b.asked => ~Active(b.hnd[x]) /\ x \notin b.told
  /\ \A n \in Servers : Lists(b.servers, n) => ProbeOfServer(b, n) /\ (b.ns[n].timeout => ~b.ns[n].state)
  /\ \A x \in Probes : b.hnd[x].current_req /\ x \notin V => ProbeIsOut(b, x)
  /\ \A x, y \in Probes : b.hnd[x].ns = b.hnd[y].ns /\ b.hnd[x].ns # None => x = y
  /\ \A x \in Probes : Active(b.hnd[x]) => b.hnd[x].ns # None
  /\ \A i \in 1 .. Len(b.deferred), n \in Servers :
        b.deferred[i][2] = "CANCEL" /\ Lists(b.servers, n) /\ n \notin Z
        => b.ns[n].probe # b.deferred[i][1]

Sound(b, V, Z) ==
  Core(b, {}) /\ RefsOK(b) /\ Pend(b, V) /\ Rest(b, V, Z) /\ b.max_inflight \in 1 .. 5

\* A server that is down is probed again.
ProbeBusy(b, x, V) == (b.hnd[x].current_req /\ x \notin V) \/ LiveResult(b, x)
DownOK(b, V, Z) ==
  \A n \in Servers : Lists(b.servers, n) /\ ~b.ns[n].state /\ n \notin Z =>
     b.ns[n].timeout \/ \E x \in Probes : b.hnd[x].ns = n /\ ProbeBusy(b, x, V)

\* A waiting request waits for one in flight.
FedOK(b) ==
  b.servers # <<>> /\ b.waiting # <<>> /\ ~b.suspended =>
     b.inflight # <<>> \/ \E x \in Handles : Lists(b.waiting, x) /\ SearchedOn(b, x)

\* What holds inside the operations of the client: V and Z as above, the requests of X
\* are about to be sent.
Good(b, V, Z, X) ==
  /\ Sound(b, V, Z) /\ FedOK(b)
  /\ b.servers = <<>> => b.suspended
  /\ ~DisableWhenInactive => Watched(b, X) /\ DownOK(b, V, Z)

\* The invariant of a base that is in use, of one that is freed, and of both.
InUse(b) == Good(b, {}, {}, {})
Gone(b) ==
  /\ Core(b, {}) /\ RefsOK(b) /\ Pend(b, {}) /\ b.servers = <<>>
  /\ \A x \in Handles : ~b.hnd[x].current_req
  /\ \A n \in Servers : ServerWatched(b.ns[n])
IInv == base.dangling \/ InUse(base) \/ (base.freed /\ Gone(base))

\* reply_schedule_callback: the result of x is on its way.
Scheduled(b, c, x, err) ==
  /\ Changes(b, c, {"hnd", "deferred"})
  /\ c.hnd = [b.hnd EXCEPT ![x] = [b.hnd[x] EXCEPT !.pending_cb = TRUE]]
  /\ c.deferred = Append(b.deferred, <<x, err>>)

LEMMA ScheduleFields ==
  ASSUME NEW b, DOMAIN b = Fields, b.hnd \in [Handles -> Handle], NEW x \in Handles, NEW err,
         NEW c, c = reply_schedule_callback(b, x, err)
  PROVE  Scheduled(b, c, x, err)
<1>1. Changes(b, c, {"hnd", "deferred"})
  BY DEF reply_schedule_callback, Changes
<1>2. /\ c.hnd = [b.hnd EXCEPT ![x] = [b.hnd[x] EXCEPT !.pending_cb = TRUE]]
      /\ c.deferred = Append(b.deferred, <<x, err>>)
  BY DEF reply_schedule_callback, Fields
<1> QED BY <1>1, <1>2 DEF Scheduled

\* What follows from the fields.
ScheduledFacts(b, c, x, err) ==
  /\ c.hnd \in [Handles -> Handle] /\ c.hnd[x].pending_cb
  /\ \A y \in Handles : /\ c.hnd[y].current_req = b.hnd[y].current_req /\ c.hnd[y].ns = b.hnd[y].ns
                        /\ c.hnd[y].search_state = b.hnd[y].search_state
                        /\ c.hnd[y].search_index = b.hnd[y].search_index
  /\ \A y \in Handles : y # x => c.hnd[y] = b.hnd[y]
  /\ \A f \in Fields : f # "hnd" /\ f # "deferred" => c[f] = b[f]
  /\ DOMAIN c = Fields

LEMMA ScheduledGives ==
  ASSUME NEW b, b.hnd \in [Handles -> Handle], NEW x \in Handles, NEW err, NEW c,
         Scheduled(b, c, x, err)
  PROVE  ScheduledFacts(b, c, x, err)
<1> DEFINE h == [b.hnd[x] EXCEPT !.pending_cb = TRUE]
<1>1. /\ h \in Handle /\ h.pending_cb /\ h.current_req = b.hnd[x].current_req /\ h.ns = b.hnd[x].ns
      /\ h.search_state = b.hnd[x].search_state /\ h.search_index = b.hnd[x].search_index
  BY DEF Handle
<1>2. c.hnd = [b.hnd EXCEPT ![x] = h]
  BY DEF Scheduled
<1> HIDE DEF h
<1>3. /\ c.hnd \in [Handles -> Handle] /\ c.hnd[x] = h
      /\ \A y \in Handles : y # x => c.hnd[y] = b.hnd[y]
  BY <1>1, <1>2
<1>4. \A f \in Fields : f # "hnd" /\ f # "deferred" => c[f] = b[f]
  BY DEF Scheduled, Changes
<1>5. DOMAIN c = Fields
  BY DEF Scheduled, Changes
<1> QED BY <1>1, <1>3, <1>4, <1>5 DEF ScheduledFacts

\* Results at the end of the queue.
ResultAdded(b, c, x, err) ==
  /\ c.deferred \in Seq(Handles \X Errors)
  /\ \A y : HasResult(c, y) <=> HasResult(b, y) \/ y = x
  /\ \A y : LiveResult(c, y) <=> LiveResult(b, y) \/ (y = x /\ err # "CANCEL")
  /\ ~HasResult(b, x) =>
       \A i, j \in 1 .. Len(c.deferred) : c.deferred[i][1] = c.deferred[j][1] => i = j
  /\ \A i \in 1 .. Len(c.deferred) : \/ i \in 1 .. Len(b.deferred) /\ c.deferred[i] = b.deferred[i]
                                     \/ c.deferred[i] = <<x, err>>

LEMMA AppendResult ==
  ASSUME NEW b, NEW c, b.deferred \in Seq(Handles \X Errors), NEW x \in Handles, NEW err \in Errors,
         \A i, j \in 1 .. Len(b.deferred) : b.deferred[i][1] = b.deferred[j][1] => i = j,
         c.deferred = Append(b.deferred, <<x, err>>)
  PROVE  ResultAdded(b, c, x, err)
<1>1. PICK s \in Seq(Handles \X Errors) : s = b.deferred
  OBVIOUS
<1>2. PICK e \in Handles \X Errors : e = <<x, err>>
  OBVIOUS
<1>3. e[1] = x /\ e[2] = err
  BY <1>2
<1>4. PICK t : t = Append(s, e)
  OBVIOUS
<1>5. /\ t \in Seq(Handles \X Errors) /\ Len(t) = Len(s) + 1 /\ Len(s) \in Nat
      /\ t[Len(s) + 1] = e /\ \A i \in 1 .. Len(s) : t[i] = s[i]
  BY <1>4
<1>6. c.deferred = t /\ b.deferred = s
  BY <1>1, <1>2, <1>4
<1>7. ASSUME NEW i \in 1 .. Len(t)
      PROVE  (i \in 1 .. Len(s) /\ t[i] = s[i]) \/ (i = Len(s) + 1 /\ t[i] = e)
  <2>1. i \in 1 .. Len(s) \/ i = Len(s) + 1
    BY <1>5
  <2> QED BY <1>5, <2>1
<1>8. Len(s) + 1 \in 1 .. Len(t) /\ \A i \in 1 .. Len(s) : i \in 1 .. Len(t)
  BY <1>5
<1>9. \A y : HasResult(c, y) <=> HasResult(b, y) \/ y = x
  BY <1>3, <1>5, <1>6, <1>7, <1>8 DEF HasResult
<1>10. \A y : LiveResult(c, y) <=> LiveResult(b, y) \/ (y = x /\ err # "CANCEL")
  BY <1>3, <1>5, <1>6, <1>7, <1>8 DEF LiveResult
<1>11. ASSUME ~HasResult(b, x), NEW i \in 1 .. Len(t), NEW j \in 1 .. Len(t), t[i][1] = t[j][1]
       PROVE  i = j
  <2>1. CASE i \in 1 .. Len(s) /\ j \in 1 .. Len(s)
    BY <1>5, <1>6, <1>11, <2>1
  <2>2. CASE i = Len(s) + 1 /\ j = Len(s) + 1
    BY <2>2
  <2>3. CASE i \in 1 .. Len(s) /\ j = Len(s) + 1
    BY <1>3, <1>5, <1>6, <1>11, <2>3 DEF HasResult
  <2>4. CASE j \in 1 .. Len(s) /\ i = Len(s) + 1
    BY <1>3, <1>5, <1>6, <1>11, <2>4 DEF HasResult
  <2> QED BY <1>7, <2>1, <2>2, <2>3, <2>4
<1> QED BY <1>2, <1>5, <1>6, <1>7, <1>9, <1>10, <1>11 DEF ResultAdded



-----------------------------------------------------------------------------
(* The client: results are scheduled and requests finished.                *)

\* A lawful error for a request in hand: a probe that is cancelled is one its server
\* is about to forget.
MayEnd(b, x, err, Z) ==
  err = "CANCEL" => \A n \in Servers : Lists(b.servers, n) /\ b.hnd[x].ns = n => n \in Z

Bare(b, V) == Core(b, {}) /\ RefsOK(b) /\ Pend(b, V)

LEMMA ScheduleBare ==
  ASSUME NEW b, NEW V, Bare(b, V), NEW x \in Handles, b.hnd[x].current_req,
         ~b.hnd[x].pending_cb, NEW err \in Errors,
         NEW c, c = reply_schedule_callback(b, x, err)
  PROVE  Bare(c, V \cup {x})
<1>1. DOMAIN b = Fields /\ b.hnd \in [Handles -> Handle] /\ NetTyped(b)
  BY DEF Bare, Core, NetTyped
<1>2. Scheduled(b, c, x, err)
  BY <1>1, ScheduleFields
<1>3. ScheduledFacts(b, c, x, err)
  BY <1>1, <1>2, ScheduledGives
<1>4. /\ b.deferred \in Seq(Handles \X Errors)
      /\ \A i, j \in 1 .. Len(b.deferred) : b.deferred[i][1] = b.deferred[j][1] => i = j
      /\ c.deferred = Append(b.deferred, <<x, err>>)
  BY <1>2 DEF Bare, Pend, Scheduled
<1>5. ResultAdded(b, c, x, err)
  BY <1>4, AppendResult
<1>6. /\ c.servers = b.servers /\ c.inflight = b.inflight /\ c.waiting = b.waiting /\ c.ns = b.ns
      /\ c.req = b.req /\ c.draw = b.draw /\ c.ninflight = b.ninflight /\ c.nwaiting = b.nwaiting
      /\ c.good = b.good /\ c.search = b.search /\ c.global = b.global /\ c.told = b.told
      /\ c.asked = b.asked /\ c.max_inflight = b.max_inflight
  BY <1>3 DEF ScheduledFacts, Fields
<1>7. Core(c, {})
  <2>1. NetTyped(c)
    BY <1>1, <1>3, <1>6 DEF NetTyped, ScheduledFacts
  <2>2. ListsOK(c, {})
    BY <1>3, <1>6 DEF Bare, Core, ListsOK, ListedOK, ScheduledFacts
  <2>3. CountsOK(c)
    BY <1>6 DEF Bare, Core, CountsOK, UpServers, Load
  <2>4. IdsOK(c)
    BY <1>3, <1>6 DEF Bare, Core, IdsOK, SearchedOn, ScheduledFacts
  <2> QED BY <1>3, <2>1, <2>2, <2>3, <2>4 DEF Core, ScheduledFacts
<1>8. RefsOK(c)
  <2>1. \A k : Holders(c, k) = Holders(b, k)
    BY <1>3 DEF Holders, ScheduledFacts
  <2>2. \A k \in States : CountedOK(c, k)
    BY <1>6, <2>1 DEF Bare, RefsOK, CountedOK
  <2> QED BY <1>3, <1>6, <2>2 DEF Bare, RefsOK, ScheduledFacts
<1>9. ~HasResult(b, x)
  BY DEF Bare, Pend
<1>10. Pend(c, V \cup {x})
  <2>1. \A y \in Handles : c.hnd[y].pending_cb <=> HasResult(c, y)
    BY <1>3, <1>5 DEF Bare, Pend, ScheduledFacts, ResultAdded
  <2>2. \A y \in Handles : c.hnd[y].pending_cb /\ c.hnd[y].current_req => y \in V \cup {x}
    BY <1>3 DEF Bare, Pend, ScheduledFacts
  <2>3. V \cup {x} \subseteq Handles /\ \A y \in V \cup {x} : c.hnd[y].current_req
    BY <1>3 DEF Bare, Pend, ScheduledFacts
  <2>4. \A y \in Users : y \in c.told => ~Active(c.hnd[y])
    BY <1>3, <1>6 DEF Bare, Pend, Active, ScheduledFacts, Handles
  <2> QED BY <1>5, <1>9, <2>1, <2>2, <2>3, <2>4 DEF Pend, ResultAdded
<1> QED BY <1>7, <1>8, <1>10 DEF Bare

LEMMA ScheduleSound ==
  ASSUME NEW b, NEW V, NEW Z, Sound(b, V, Z), NEW x \in Handles, b.hnd[x].current_req,
         ~b.hnd[x].pending_cb, NEW err \in Errors, MayEnd(b, x, err, Z),
         NEW c, c = reply_schedule_callback(b, x, err)
  PROVE  Sound(c, V \cup {x}, Z)
<1>1. DOMAIN b = Fields /\ b.hnd \in [Handles -> Handle] /\ NetTyped(b)
  BY DEF Sound, Core, NetTyped
<1>2. Scheduled(b, c, x, err)
  BY <1>1, ScheduleFields
<1>3. ScheduledFacts(b, c, x, err)
  BY <1>1, <1>2, ScheduledGives
<1>4. /\ b.deferred \in Seq(Handles \X Errors)
      /\ \A i, j \in 1 .. Len(b.deferred) : b.deferred[i][1] = b.deferred[j][1] => i = j
      /\ c.deferred = Append(b.deferred, <<x, err>>)
  BY <1>2 DEF Sound, Pend, Scheduled
<1>5. ResultAdded(b, c, x, err)
  BY <1>4, AppendResult
<1>6. /\ c.servers = b.servers /\ c.inflight = b.inflight /\ c.waiting = b.waiting /\ c.ns = b.ns
      /\ c.req = b.req /\ c.draw = b.draw /\ c.ninflight = b.ninflight /\ c.nwaiting = b.nwaiting
      /\ c.good = b.good /\ c.search = b.search /\ c.global = b.global /\ c.told = b.told
      /\ c.asked = b.asked /\ c.max_inflight = b.max_inflight
  BY <1>3 DEF ScheduledFacts, Fields
<1>7. Bare(c, V \cup {x})
  BY ScheduleBare DEF Sound, Bare
<1>8. Core(c, {}) /\ RefsOK(c) /\ Pend(c, V \cup {x})
  BY <1>7 DEF Bare
<1>9. \A y \in Handles : Active(c.hnd[y]) <=> Active(b.hnd[y])
  BY <1>3 DEF Active, ScheduledFacts
<1>10. Rest(c, V \cup {x}, Z)
  <2>1. \A y \in Handles : ~Active(c.hnd[y]) => c.hnd[y] = NewHandle
    BY <1>3, <1>9 DEF Sound, Rest, Active, ScheduledFacts
  <2>2. \A y \in Users : /\ c.hnd[y].ns = None
                         /\ y \notin c.asked => ~Active(c.hnd[y]) /\ y \notin c.told
    BY <1>3, <1>6, <1>9 DEF Sound, Rest, ScheduledFacts, Handles
  <2>3. \A n \in Servers : Lists(c.servers, n) => ProbeOfServer(c, n) /\ (c.ns[n].timeout => ~c.ns[n].state)
    <3> SUFFICES ASSUME NEW n \in Servers, Lists(b.servers, n)
                 PROVE  ProbeOfServer(c, n) /\ (c.ns[n].timeout => ~c.ns[n].state)
      BY <1>6
    <3>1. ProbeOfServer(b, n) /\ (b.ns[n].timeout => ~b.ns[n].state)
      BY DEF Sound, Rest
    <3>2. b.ns[n].probe \in Probes \cup {None}
      BY <1>1 DEF NetTyped, Server
    <3> QED BY <1>3, <1>6, <1>9, <3>1, <3>2 DEF ProbeOfServer, ScheduledFacts, Handles
  <2>4. \A y \in Probes : c.hnd[y].current_req /\ y \notin V \cup {x} => ProbeIsOut(c, y)
    BY <1>3, <1>6 DEF Sound, Rest, ProbeIsOut, ScheduledFacts, Handles
  <2>5. /\ \A y, z \in Probes : c.hnd[y].ns = c.hnd[z].ns /\ c.hnd[y].ns # None => y = z
        /\ \A y \in Probes : Active(c.hnd[y]) => c.hnd[y].ns # None
    BY <1>3, <1>9 DEF Sound, Rest, ScheduledFacts, Handles
  <2>6. ASSUME NEW i \in 1 .. Len(c.deferred), NEW n \in Servers, c.deferred[i][2] = "CANCEL",
               Lists(c.servers, n), n \notin Z
        PROVE  c.ns[n].probe # c.deferred[i][1]
    <3>1. CASE i \in 1 .. Len(b.deferred) /\ c.deferred[i] = b.deferred[i]
      BY <1>6, <2>6, <3>1 DEF Sound, Rest
    <3>2. CASE c.deferred[i] = <<x, err>>
      <4>1. err = "CANCEL" /\ c.deferred[i][1] = x
        BY <2>6, <3>2
      <4>2. b.hnd[x].ns # n
        BY <1>6, <2>6, <4>1 DEF MayEnd
      <4>3. ProbeOfServer(b, n) /\ x # None
        BY <1>6, <2>6, NoneAssumption DEF Sound, Rest, Handles
      <4> QED BY <1>6, <4>1, <4>2, <4>3 DEF ProbeOfServer
    <3> QED BY <1>5, <3>1, <3>2 DEF ResultAdded
  <2>7. \A i \in 1 .. Len(c.deferred), n \in Servers :
            c.deferred[i][2] = "CANCEL" /\ Lists(c.servers, n) /\ n \notin Z
            => c.ns[n].probe # c.deferred[i][1]
    BY <2>6
  <2> QED BY <2>1, <2>2, <2>3, <2>4, <2>5, <2>7 DEF Rest
<1> QED BY <1>6, <1>8, <1>10 DEF Sound

\* Servers that fail or sleep disturb no promise of the client's.
LEMMA EasedRest ==
  ASSUME NEW b, NEW c, NEW V, NEW Z, Rest(b, V, Z), c.ns \in [Servers -> Server],
         b.ns \in [Servers -> Server],
         ServersEased(b, c), c.hnd = b.hnd, c.deferred = b.deferred, c.asked = b.asked, c.told = b.told
  PROVE  Rest(c, V, Z)
<1>1. \A n \in Servers : /\ Lists(c.servers, n) <=> Lists(b.servers, n)
                         /\ c.ns[n].probe = b.ns[n].probe
  BY DEF ServersEased, Eased
<1>2. \A n \in Servers : Lists(c.servers, n) => ProbeOfServer(c, n)
  BY <1>1 DEF Rest, ProbeOfServer
<1>3. \A n \in Servers : Lists(c.servers, n) /\ c.ns[n].timeout => ~c.ns[n].state
  BY DEF Rest, ServersEased, Eased
<1>4. \A x \in Probes : ProbeIsOut(b, x) => ProbeIsOut(c, x)
  BY <1>1 DEF ProbeIsOut, ServersEased, Eased
<1>5. \A x \in Probes : c.hnd[x].current_req /\ x \notin V => ProbeIsOut(c, x)
  BY <1>4 DEF Rest
<1> QED BY <1>1, <1>2, <1>3, <1>5 DEF Rest

LEMMA EasedDown ==
  ASSUME NEW b, NEW c, NEW V, NEW Z, DownOK(b, V, Z), ~DisableWhenInactive,
         ServersEased(b, c), c.hnd = b.hnd, c.deferred = b.deferred
  PROVE  DownOK(c, V, Z)
<1>1. \A x \in Probes : ProbeBusy(c, x, V) <=> ProbeBusy(b, x, V)
  BY DEF ProbeBusy, LiveResult
<1> QED BY <1>1 DEF DownOK, ServersEased, Eased

LEMMA EasedSound ==
  ASSUME NEW b, NEW c, NEW V, NEW Z, Sound(b, V, Z), Core(c, {}), Same(b, c, ClientFields),
         ServersEased(b, c)
  PROVE  Sound(c, V, Z)
<1>1. /\ c.hnd = b.hnd /\ c.deferred = b.deferred /\ c.asked = b.asked /\ c.told = b.told
      /\ c.search = b.search /\ c.global = b.global /\ c.max_inflight = b.max_inflight
  BY DEF Same, ClientFields
<1>2. c.ns \in [Servers -> Server] /\ b.ns \in [Servers -> Server]
  BY DEF Sound, Core, NetTyped
<1>3. Rest(c, V, Z)
  BY <1>1, <1>2, EasedRest DEF Sound
<1>4. RefsOK(c)
  BY <1>1 DEF Sound, RefsOK, CountedOK, Holders
<1>5. Pend(c, V)
  BY <1>1 DEF Sound, Pend, HasResult
<1> QED BY <1>1, <1>3, <1>4, <1>5 DEF Sound

\* The lists are fed, and a base without servers is suspended.
LEMMA SameQueuesFed ==
  ASSUME NEW b, NEW c, FedOK(b), b.servers = <<>> => b.suspended, c.suspended = b.suspended,
         b.servers \in Seq(Servers), c.servers \in Seq(Servers),
         \A n \in Servers : Lists(c.servers, n) <=> Lists(b.servers, n),
         c.inflight = b.inflight, c.waiting = b.waiting,
         \A x \in Handles : SearchedOn(b, x) => SearchedOn(c, x)
  PROVE  FedOK(c) /\ (c.servers = <<>> => c.suspended)
<1>1. c.servers = <<>> <=> b.servers = <<>>
  BY MembersFacts
<1> QED BY <1>1 DEF FedOK

LEMMA FedGivesOK ==
  ASSUME NEW b, Fed(b)
  PROVE  FedOK(b)
BY DEF Fed, FedOK

\* A result is scheduled.
LEMMA ScheduleGood ==
  ASSUME NEW b, NEW V, NEW Z, NEW X, Good(b, V, Z, X), NEW x \in Handles, b.hnd[x].current_req,
         ~b.hnd[x].pending_cb, NEW err \in Errors, MayEnd(b, x, err, Z),
         NEW c, c = reply_schedule_callback(b, x, err)
  PROVE  Good(c, V \cup {x}, Z, X) /\ ScheduledFacts(b, c, x, err)
<1>1. Sound(c, V \cup {x}, Z)
  BY ScheduleSound DEF Good
<1>2. DOMAIN b = Fields /\ b.hnd \in [Handles -> Handle] /\ b.servers \in Seq(Servers)
  BY DEF Good, Sound, Core, NetTyped
<1>3. Scheduled(b, c, x, err)
  BY <1>2, ScheduleFields
<1>4. ScheduledFacts(b, c, x, err)
  BY <1>2, <1>3, ScheduledGives
<1>5. /\ b.deferred \in Seq(Handles \X Errors)
      /\ \A i, j \in 1 .. Len(b.deferred) : b.deferred[i][1] = b.deferred[j][1] => i = j
      /\ c.deferred = Append(b.deferred, <<x, err>>)
  BY <1>3 DEF Good, Sound, Pend, Scheduled
<1>6. ResultAdded(b, c, x, err)
  BY <1>5, AppendResult
<1>7. /\ c.servers = b.servers /\ c.inflight = b.inflight /\ c.waiting = b.waiting /\ c.ns = b.ns
      /\ c.req = b.req /\ c.suspended = b.suspended
  BY <1>4 DEF ScheduledFacts, Fields
<1>8. \A y \in Handles : SearchedOn(b, y) => SearchedOn(c, y)
  BY <1>4 DEF SearchedOn, ScheduledFacts
<1>9. FedOK(c) /\ (c.servers = <<>> => c.suspended)
  BY <1>7, <1>8 DEF Good, FedOK
<1>10. ASSUME ~DisableWhenInactive PROVE Watched(c, X)
  BY <1>7, <1>10 DEF Good, Watched, SomeWaits
<1>11. ASSUME ~DisableWhenInactive PROVE DownOK(c, V \cup {x}, Z)
  <2> SUFFICES ASSUME NEW n \in Servers, Lists(b.servers, n), ~b.ns[n].state, n \notin Z,
                      ~b.ns[n].timeout
               PROVE  \E y \in Probes : c.hnd[y].ns = n /\ ProbeBusy(c, y, V \cup {x})
    BY <1>7 DEF DownOK
  <2>1. PICK y \in Probes : b.hnd[y].ns = n /\ ProbeBusy(b, y, V)
    BY <1>11 DEF Good, DownOK
  <2>2. y \in Handles /\ c.hnd[y].ns = n /\ c.hnd[y].current_req = b.hnd[y].current_req
    BY <1>4, <2>1 DEF ScheduledFacts, Handles
  <2>3. ProbeBusy(c, y, V \cup {x})
    <3>1. CASE y # x
      BY <1>6, <2>1, <2>2, <3>1 DEF ProbeBusy, ResultAdded
    <3>2. CASE y = x
      <4>1. err # "CANCEL"
        BY <2>1, <3>2 DEF MayEnd
      <4> QED BY <1>6, <3>2, <4>1 DEF ProbeBusy, ResultAdded
    <3> QED BY <3>1, <3>2
  <2> QED BY <2>2, <2>3
<1> QED BY <1>1, <1>4, <1>9, <1>10, <1>11 DEF Good


\* A handle whose result is on its way lets go of its request.
IdleOf(h, k) ==
  /\ k \in Handle /\ ~k.current_req /\ (k.pending_cb <=> h.pending_cb)
  /\ k.ns = h.ns /\ k.search_index = h.search_index /\ k.search_state = None

LEMMA IdleHandleFacts ==
  ASSUME NEW h \in Handle, NEW m, m = Idled(h)
  PROVE  IdleOf(h, m)
<1>1. m = [h EXCEPT !.search_state = None, !.current_req = FALSE]
  BY DEF Idled
<1>2. m \in Handle
  BY <1>1 DEF Handle
<1>3. m.search_state = None /\ ~m.current_req
  BY <1>1 DEF Handle
<1>4. m.pending_cb <=> h.pending_cb
  BY <1>1 DEF Handle
<1>5. m.ns = h.ns /\ m.search_index = h.search_index
  BY <1>1 DEF Handle
<1>6. m \in Handle /\ ~m.current_req /\ (m.pending_cb <=> h.pending_cb)
  BY <1>2, <1>3, <1>4
<1>7. m.ns = h.ns /\ m.search_index = h.search_index /\ m.search_state = None
  BY <1>3, <1>5
<1>8. IdleOf(h, m)
  BY <1>6, <1>7 DEF IdleOf
<1> QED BY <1>8

HandleIdles(b, c, x) ==
  /\ c.hnd \in [Handles -> Handle] /\ ~c.hnd[x].current_req /\ c.hnd[x].search_state = None
  /\ (c.hnd[x].pending_cb <=> b.hnd[x].pending_cb) /\ c.hnd[x].ns = b.hnd[x].ns
  /\ c.hnd[x].search_index = b.hnd[x].search_index
  /\ \A y \in Handles : y # x => c.hnd[y] = b.hnd[y]

LEMMA HandleIsIdle ==
  ASSUME NEW b, b.hnd \in [Handles -> Handle], NEW x \in Handles,
         NEW c, c.hnd = [b.hnd EXCEPT ![x] = Idled(b.hnd[x])]
  PROVE  HandleIdles(b, c, x)
<1>1. b.hnd[x] \in Handle
  OBVIOUS
<1>0. PICK k : k = Idled(b.hnd[x])
  OBVIOUS
<1>2. IdleOf(b.hnd[x], k)
  BY <1>0, <1>1, IdleHandleFacts
<1>3. c.hnd = [b.hnd EXCEPT ![x] = k]
  BY <1>0
<1>4. c.hnd \in [Handles -> Handle] /\ c.hnd[x] = k /\ \A y \in Handles : y # x => c.hnd[y] = b.hnd[y]
  BY <1>2, <1>3 DEF IdleOf
<1> QED BY <1>2, <1>4 DEF HandleIdles, IdleOf

LEMMA FinishPend ==
  ASSUME NEW b, NEW c, NEW V, NEW x \in Handles, Pend(b, V), HandleIdles(b, c, x),
         c.deferred = b.deferred, c.told = b.told
  PROVE  Pend(c, V \ {x})
<1>1. \A y \in Handles : c.hnd[y].pending_cb <=> b.hnd[y].pending_cb
  BY DEF HandleIdles
<1>2. \A y : HasResult(c, y) <=> HasResult(b, y)
  BY DEF HasResult
<1>3. \A y \in Handles : c.hnd[y].current_req => b.hnd[y].current_req /\ y # x
  BY DEF HandleIdles
<1>4. V \ {x} \subseteq Handles /\ \A y \in V \ {x} : c.hnd[y].current_req
  BY DEF Pend, HandleIdles
<1>5. \A y \in Users : y \in c.told => ~Active(c.hnd[y])
  BY <1>1, <1>3 DEF Pend, Active, Handles
<1> QED BY <1>1, <1>2, <1>3, <1>4, <1>5 DEF Pend

LEMMA FinishRest ==
  ASSUME NEW b, NEW c, NEW V, NEW Z, NEW x \in Handles, Rest(b, V, Z), HandleIdles(b, c, x),
         b.hnd[x].pending_cb, b.ns \in [Servers -> Server], c.ns \in [Servers -> Server],
         ServersEased(b, c), c.deferred = b.deferred, c.asked = b.asked, c.told = b.told
  PROVE  Rest(c, V \ {x}, Z)
<1> DEFINE m == [b EXCEPT !.hnd = c.hnd]
<1>1. \A y \in Handles : Active(c.hnd[y]) <=> Active(b.hnd[y])
  BY DEF HandleIdles, Active
<1>2. \A y \in Handles : c.hnd[y].ns = b.hnd[y].ns
  BY DEF HandleIdles
<1>3. \A y \in Handles : ~Active(c.hnd[y]) => c.hnd[y] = NewHandle
  BY <1>1 DEF Rest, HandleIdles, Active
<1>4. \A y \in Users : /\ c.hnd[y].ns = None
                       /\ y \notin c.asked => ~Active(c.hnd[y]) /\ y \notin c.told
  BY <1>1, <1>2 DEF Rest, Handles
<1>5. \A n \in Servers : /\ Lists(c.servers, n) <=> Lists(b.servers, n)
                         /\ c.ns[n].probe = b.ns[n].probe
                         /\ c.ns[n].state => b.ns[n].state
                         /\ c.ns[n].timeout => b.ns[n].timeout \/ (b.ns[n].state /\ ~c.ns[n].state)
  BY DEF ServersEased, Eased
<1>6. ASSUME NEW n \in Servers, Lists(c.servers, n)
      PROVE  ProbeOfServer(c, n) /\ (c.ns[n].timeout => ~c.ns[n].state)
  <2>1. ProbeOfServer(b, n) /\ (b.ns[n].timeout => ~b.ns[n].state)
    BY <1>5, <1>6 DEF Rest
  <2>2. b.ns[n].probe \in Probes \cup {None}
    BY DEF Server
  <2> QED BY <1>1, <1>2, <1>5, <2>1, <2>2 DEF ProbeOfServer, Handles
<1>7. ASSUME NEW y \in Probes, c.hnd[y].current_req, y \notin V \ {x}
      PROVE  ProbeIsOut(c, y)
  <2>1. y \in Handles /\ y # x /\ b.hnd[y].current_req /\ y \notin V
    BY <1>7 DEF HandleIdles, Handles
  <2>2. ProbeIsOut(b, y)
    BY <1>7, <2>1 DEF Rest
  <2> QED BY <1>2, <1>5, <2>1, <2>2 DEF ProbeIsOut
<1>8. /\ \A y, z \in Probes : c.hnd[y].ns = c.hnd[z].ns /\ c.hnd[y].ns # None => y = z
      /\ \A y \in Probes : Active(c.hnd[y]) => c.hnd[y].ns # None
  BY <1>1, <1>2 DEF Rest, Handles
<1>9. \A i \in 1 .. Len(c.deferred), n \in Servers :
          c.deferred[i][2] = "CANCEL" /\ Lists(c.servers, n) /\ n \notin Z
          => c.ns[n].probe # c.deferred[i][1]
  BY <1>5 DEF Rest
<1> QED BY <1>3, <1>4, <1>6, <1>7, <1>8, <1>9 DEF Rest

LEMMA FinishSound ==
  ASSUME NEW b, NEW V, NEW Z, Sound(b, V, Z), NEW x \in Handles, b.hnd[x].current_req,
         b.hnd[x].pending_cb, NEW c, Finished(b, c, x)
  PROVE  Sound(c, V \ {x}, Z) /\ HandleIdles(b, c, x)
<1>1. b.ns \in [Servers -> Server] /\ b.hnd \in [Handles -> Handle]
  BY DEF Sound, Core, NetTyped
<1>2. Core(c, {}) /\ RefsOK(c) /\ ServersEased(b, c) /\ c.hnd = [b.hnd EXCEPT ![x] = Idled(b.hnd[x])]
  BY DEF Finished
<1>3. c.ns \in [Servers -> Server]
  BY <1>2 DEF Core, NetTyped
<1>4. /\ c.deferred = b.deferred /\ c.asked = b.asked /\ c.told = b.told
      /\ c.max_inflight = b.max_inflight
  BY DEF Finished, Same, OtherFields, ClientFields
<1>5. HandleIdles(b, c, x)
  BY <1>1, <1>2, HandleIsIdle
<1>6. Rest(c, V \ {x}, Z)
  BY <1>1, <1>2, <1>3, <1>4, <1>5, FinishRest DEF Sound
<1>7. Pend(c, V \ {x})
  BY <1>4, <1>5, FinishPend DEF Sound
<1> QED BY <1>2, <1>4, <1>5, <1>6, <1>7 DEF Sound

LEMMA FinishGood ==
  ASSUME NEW b, NEW V, NEW Z, NEW X \in SUBSET Handles, Good(b, V, Z, X), NEW x \in Handles,
         b.hnd[x].current_req, b.hnd[x].pending_cb, X \subseteq {x},
         NEW send \in [Servers -> Sent], NEW c, c = request_finished(b, x, send)
  PROVE  Good(c, V \ {x}, Z, {}) /\ Finished(b, c, x) /\ HandleIdles(b, c, x)
<1>1. Core(b, {}) /\ RefsOK(b) /\ b.max_inflight \in 1 .. 5
  BY DEF Good, Sound
<1>2. Finished(b, c, x)
  BY <1>1, RequestFinished
<1>3. Sound(c, V \ {x}, Z) /\ HandleIdles(b, c, x)
  BY <1>2, FinishSound DEF Good
<1>4. FedOK(c)
  BY <1>2, FedGivesOK DEF Finished
<1>5. b.servers \in Seq(Servers) /\ c.servers \in Seq(Servers)
  BY <1>1, <1>3 DEF Sound, Core, NetTyped
<1>6. \A n \in Servers : Lists(c.servers, n) <=> Lists(b.servers, n)
  BY <1>2 DEF Finished, ServersEased
<1>7. c.servers = <<>> => c.suspended
  <2>1. c.suspended = b.suspended
    BY <1>2 DEF Finished, Same, OtherFields, ClientFields
  <2>2. c.servers = <<>> => b.servers = <<>>
    BY <1>5, <1>6, MembersFacts
  <2> QED BY <2>1, <2>2 DEF Good
<1>8. ASSUME ~DisableWhenInactive PROVE Watched(c, {})
  <2>1. Watched(b, {x})
    BY <1>8 DEF Good, Watched
  <2> QED BY <1>2, <1>8, <2>1 DEF Finished
<1>9. ASSUME ~DisableWhenInactive PROVE DownOK(c, V \ {x}, Z)
  <2>1. ServersEased(b, c) /\ c.deferred = b.deferred
    BY <1>2 DEF Finished, Same, OtherFields, ClientFields
  <2>2. x \in V
    BY DEF Good, Sound, Pend
  <2>3. \A y \in Probes : ProbeBusy(b, y, V) => ProbeBusy(c, y, V \ {x})
    BY <1>3, <2>1, <2>2 DEF ProbeBusy, LiveResult, HandleIdles, Handles
  <2>4. \A y \in Probes : c.hnd[y].ns = b.hnd[y].ns
    BY <1>3 DEF HandleIdles, Handles
  <2> QED BY <1>9, <2>1, <2>3, <2>4 DEF Good, DownOK, ServersEased, Eased
<1> QED BY <1>2, <1>3, <1>4, <1>7, <1>8, <1>9 DEF Good


-----------------------------------------------------------------------------
(* The client: what the operations keep.                                   *)

LEMMA KeptGood ==
  ASSUME NEW b, NEW V, NEW Z, NEW X, Good(b, V, Z, X), NEW c, Core(c, {}), Kept(b, c),
         SameQueues(b, c), NEW Y, Watched(b, X) => Watched(c, Y)
  PROVE  Good(c, V, Z, Y)
<1>1. Calm(b, c)
  BY KeptCalm
<1>2. ServersEased(b, c) /\ Same(b, c, ClientFields)
  BY <1>1, CalmEased
<1>3. Sound(c, V, Z)
  BY <1>2, EasedSound DEF Good
<1>4. c.hnd = b.hnd /\ c.deferred = b.deferred /\ c.suspended = b.suspended
  BY <1>2 DEF Same, ClientFields
<1>5. b.servers \in Seq(Servers) /\ c.servers \in Seq(Servers)
  BY DEF Good, Sound, Core, NetTyped
<1>6. FedOK(c) /\ (c.servers = <<>> => c.suspended)
  <2>1. \A n \in Servers : Lists(c.servers, n) <=> Lists(b.servers, n)
    BY DEF Kept
  <2>2. \A x \in Handles : SearchedOn(b, x) => SearchedOn(c, x)
    BY <1>4 DEF SearchedOn
  <2>3. c.inflight = b.inflight /\ c.waiting = b.waiting
    BY DEF SameQueues
  <2> QED BY <1>4, <1>5, <2>1, <2>2, <2>3, SameQueuesFed DEF Good
<1>7. ASSUME ~DisableWhenInactive PROVE DownOK(c, V, Z)
  BY <1>2, <1>4, <1>7, EasedDown DEF Good
<1> QED BY <1>3, <1>6, <1>7 DEF Good

LEMMA MovedGood ==
  ASSUME NEW b, NEW V, NEW Z, NEW X, Good(b, V, Z, X), NEW c, Moved(b, c, {})
  PROVE  Good(c, V, Z, X)
<1>1. Watched(b, X) => Watched(c, X)
  BY SteadyWatched DEF Moved
<1> QED BY <1>1, KeptGood DEF Moved

\* Fields that no list, count or promise depends on.
Trifles == {"draw", "config", "probes", "net", "faults", "dangling", "halfFreed"}
Trifling(b, c) == Changes(b, c, Trifles) /\ c.draw \in Seq(Ids) /\ c.draw # <<>>

LEMMA TriflingFields ==
  ASSUME NEW b, NEW c, Trifling(b, c)
  PROVE  /\ DOMAIN c = Fields /\ c.servers = b.servers /\ c.good = b.good /\ c.ns = b.ns
         /\ c.inflight = b.inflight /\ c.waiting = b.waiting /\ c.ninflight = b.ninflight
         /\ c.nwaiting = b.nwaiting /\ c.max_inflight = b.max_inflight /\ c.hnd = b.hnd
         /\ c.req = b.req /\ c.search = b.search /\ c.global = b.global
         /\ c.deferred = b.deferred /\ c.told = b.told /\ c.asked = b.asked
         /\ c.suspended = b.suspended /\ c.freed = b.freed
BY DEF Trifling, Changes, Trifles, Fields

LEMMA TriflingCore ==
  ASSUME NEW b, NEW c, Trifling(b, c), NEW U, Core(b, U)
  PROVE  Core(c, U)
<1>1. NetTyped(c)
  BY TriflingFields DEF Trifling, Core, NetTyped
<1>2. ListsOK(c, U)
  <2>1. \A x \in Handles : ListedOK(b, x, U) => ListedOK(c, x, U)
    BY TriflingFields DEF ListedOK
  <2>2. /\ c.inflight = b.inflight /\ c.waiting = b.waiting /\ c.servers = b.servers
        /\ c.ninflight = b.ninflight /\ c.nwaiting = b.nwaiting
    BY TriflingFields
  <2>3. ListsOK(b, U)
    BY DEF Core
  <2> QED BY <2>1, <2>2, <2>3 DEF ListsOK
<1>3. CountsOK(c)
  <2>1. c.servers = b.servers /\ c.ns = b.ns /\ c.good = b.good /\ c.inflight = b.inflight /\ c.req = b.req
    BY TriflingFields
  <2>2. UpServers(c) = UpServers(b) /\ \A n \in Servers : Load(c, n) = Load(b, n)
    BY <2>1 DEF UpServers, Load
  <2>3. CountsOK(b)
    BY DEF Core
  <2> QED BY <2>1, <2>2, <2>3 DEF CountsOK
<1>4. IdsOK(c)
  BY TriflingFields DEF Core, IdsOK, SearchedOn
<1> QED BY <1>1, <1>2, <1>3, <1>4, TriflingFields DEF Core

LEMMA TriflingRefs ==
  ASSUME NEW b, NEW c, Trifling(b, c), RefsOK(b)
  PROVE  RefsOK(c)
BY TriflingFields DEF RefsOK, CountedOK, Holders

LEMMA TriflingPend ==
  ASSUME NEW b, NEW c, Trifling(b, c), NEW V, Pend(b, V)
  PROVE  Pend(c, V)
BY TriflingFields DEF Pend, HasResult

LEMMA TriflingSound ==
  ASSUME NEW b, NEW c, Trifling(b, c), NEW V, NEW Z, Sound(b, V, Z)
  PROVE  Sound(c, V, Z)
<1>1. Rest(c, V, Z)
  BY TriflingFields DEF Sound, Rest, ProbeOfServer, ProbeIsOut
<1> QED BY <1>1, TriflingCore, TriflingRefs, TriflingPend, TriflingFields DEF Sound

LEMMA TriflingGood ==
  ASSUME NEW b, NEW c, Trifling(b, c), NEW V, NEW Z, NEW X, Good(b, V, Z, X)
  PROVE  Good(c, V, Z, X)
<1>1. Sound(c, V, Z)
  BY TriflingSound DEF Good
<1>2. FedOK(c) /\ (c.servers = <<>> => c.suspended)
  BY TriflingFields DEF Good, FedOK, SearchedOn
<1>3. Watched(b, X) => Watched(c, X)
  BY TriflingFields DEF Watched, SomeWaits
<1>4. DownOK(b, V, Z) => DownOK(c, V, Z)
  BY TriflingFields DEF DownOK, ProbeBusy, LiveResult
<1> QED BY <1>1, <1>2, <1>3, <1>4 DEF Good

\* A quiet change of one server.
LEMMA ServerPutGood ==
  ASSUME NEW b, NEW V, NEW Z, NEW X, Good(b, V, Z, X), NEW c, Changes(b, c, {"ns", "net", "faults"}),
         NEW n \in Servers, NEW k, ServerPut(b, c, n, k), QuietServer(b.ns[n], k),
         k.choked => b.ns[n].choked, k.write_waiting <=> b.ns[n].write_waiting,
         k.event <=> b.ns[n].event
  PROVE  Good(c, V, Z, X) /\ ServerPutQuietly(b, c, n, k)
<1>1. NetTyped(b) /\ Core(b, {})
  BY DEF Good, Sound, Core
<1>2. ServerPutQuietly(b, c, n, k)
  BY <1>1, QuietServerPut
<1>3. Core(c, {}) /\ Kept(b, c) /\ SameQueues(b, c)
  BY <1>1, <1>2, QuietKeeps DEF ServerPutQuietly
<1>4. c.servers = b.servers /\ c.inflight = b.inflight
  BY <1>2 DEF ServerPutQuietly, Quiet, Same, ListFields
<1>5. Watched(b, X) => Watched(c, X)
  BY <1>2, <1>4 DEF Watched, SomeWaits, ServerWatched, ServerPutQuietly
<1> QED BY <1>2, <1>3, <1>5, KeptGood

-----------------------------------------------------------------------------
(* The client: what a step does to what was asked, settled and told.       *)

Entry == Handles \X Errors

DeferredGrows(s, t) ==
  /\ s \in Seq(Entry) /\ t \in Seq(Entry) /\ Len(s) <= Len(t)
  /\ \A i \in 1 .. Len(s) : t[i] = s[i]

\* Users get results, each where its request ends, and none is asked anew.
Follows(b, c) ==
  /\ c.told = b.told /\ DeferredGrows(b.deferred, c.deferred)
  /\ \A x \in Users : /\ c.hnd[x].current_req => b.hnd[x].current_req
                      /\ b.hnd[x].current_req /\ ~c.hnd[x].current_req => HasResult(c, x)
                      /\ HasResult(c, x) => HasResult(b, x) \/ b.hnd[x].current_req

\* A step that leaves the promise alone.
LEMMA FollowsCurrent ==
  ASSUME NEW b, NEW c, b.deferred \in Seq(Entry), c.deferred = b.deferred, c.told = b.told,
         \A x \in Users : c.hnd[x].current_req = b.hnd[x].current_req
  PROVE  Follows(b, c)
<1>1. DeferredGrows(b.deferred, c.deferred)
  BY DEF DeferredGrows
<1> QED BY <1>1 DEF Follows, HasResult

LEMMA FollowsSame ==
  ASSUME NEW b, NEW c, NEW V, Pend(b, V), c.hnd = b.hnd, c.deferred = b.deferred, c.told = b.told
  PROVE  Follows(b, c)
<1>1. b.deferred \in Seq(Entry)
  BY DEF Pend, Entry
<1> QED BY <1>1, FollowsCurrent

\* A handle of a probe says nothing of the promise.
LEMMA FollowsProbe ==
  ASSUME NEW b, NEW c, NEW V, Pend(b, V), c.deferred = b.deferred, c.told = b.told, NEW p \in Probes,
         \A y \in Handles : y # p => c.hnd[y] = b.hnd[y]
  PROVE  Follows(b, c)
<1>1. \A x \in Users : x \in Handles /\ x # p
  BY LimitAssumption DEF Handles
<1>2. b.deferred \in Seq(Entry)
  BY DEF Pend, Entry
<1> QED BY <1>1, <1>2, FollowsCurrent

LEMMA FollowsTwice ==
  ASSUME NEW b, NEW c, NEW d, Follows(b, c), Follows(c, d)
  PROVE  Follows(b, d)
<1>1. DeferredGrows(b.deferred, d.deferred)
  BY DEF Follows, DeferredGrows
<1>2. ASSUME NEW x, HasResult(c, x) PROVE HasResult(d, x)
  BY <1>2 DEF Follows, DeferredGrows, HasResult
<1> QED BY <1>1, <1>2 DEF Follows

\* The result of a request that is out is put on its way.
LEMMA FollowsSchedule ==
  ASSUME NEW b, NEW V, Pend(b, V), NEW x \in Handles, b.hnd[x].current_req, NEW err \in Errors,
         NEW c, c = reply_schedule_callback(b, x, err), ScheduledFacts(b, c, x, err), DOMAIN b = Fields,
         b.hnd \in [Handles -> Handle]
  PROVE  Follows(b, c) /\ HasResult(c, x) /\ c.hnd[x].current_req
<1>0. Scheduled(b, c, x, err)
  BY ScheduleFields
<1>1. c.deferred = Append(b.deferred, <<x, err>>)
  BY <1>0, Zenon DEF Scheduled
<1>2. /\ b.deferred \in Seq(Entry) /\ <<x, err>> \in Entry
      /\ \A i, j \in 1 .. Len(b.deferred) : b.deferred[i][1] = b.deferred[j][1] => i = j
  BY DEF Pend, Entry
<1>3. DeferredGrows(b.deferred, c.deferred)
  BY <1>1, <1>2 DEF DeferredGrows
<1>4. ResultAdded(b, c, x, err)
  BY <1>1, <1>2, AppendResult DEF Entry
<1>5. \A y : HasResult(c, y) <=> HasResult(b, y) \/ y = x
  BY <1>4 DEF ResultAdded
<1>6. c.told = b.told /\ \A y \in Handles : c.hnd[y].current_req = b.hnd[y].current_req
  BY DEF ScheduledFacts, Fields
<1>7. \A y \in Users : y \in Handles
  BY DEF Handles
<1> QED BY <1>3, <1>5, <1>6, <1>7 DEF Follows

\* A request ends that has its result.
LEMMA FollowsFinish ==
  ASSUME NEW b, NEW V, Pend(b, V), NEW x \in Handles, b.hnd \in [Handles -> Handle], NEW c,
         Finished(b, c, x), HasResult(b, x)
  PROVE  Follows(b, c)
<1>1. HandleIdles(b, c, x)
  BY HandleIsIdle DEF Finished
<1>2. c.told = b.told /\ c.deferred = b.deferred
  BY DEF Finished, Same, OtherFields, ClientFields
<1>3. b.deferred \in Seq(Entry)
  BY DEF Pend, Entry
<1>4. DeferredGrows(b.deferred, c.deferred)
  BY <1>2, <1>3 DEF DeferredGrows
<1>5. \A y : HasResult(c, y) <=> HasResult(b, y)
  BY <1>2 DEF HasResult
<1>6. \A y \in Users : y \in Handles
  BY DEF Handles
<1> QED BY <1>1, <1>2, <1>4, <1>5, <1>6 DEF Follows, HandleIdles

-----------------------------------------------------------------------------
(* The client: a probe is cancelled.                                       *)

Cancelled(b, c, p) ==
  /\ ServersEased(b, c) /\ Same(b, c, StillFields)
  /\ ~c.hnd[p].current_req
  /\ c.hnd[p].ns = b.hnd[p].ns
  /\ \A y \in Handles : y # p => c.hnd[y] = b.hnd[y]
  /\ \A y : Lists(b.inflight, y) /\ y # p => Lists(c.inflight, y)
  /\ Follows(b, c)

LEMMA CancelSound ==
  ASSUME NEW b, NEW V, NEW Z, Sound(b, V, Z), NEW p \in Handles, p \notin V,
         MayEnd(b, p, "CANCEL", Z), NEW send \in [Servers -> Sent],
         NEW c, c = evdns_cancel_request(b, p, send)
  PROVE  Sound(c, V, Z) /\ Cancelled(b, c, p)
<1>1. CASE ~b.hnd[p].current_req \/ b.hnd[p].pending_cb
  <2>1. c = b
    BY <1>1 DEF evdns_cancel_request
  <2>2. ~b.hnd[p].current_req
    BY <1>1 DEF Sound, Pend
  <2>3. Follows(b, b)
    BY FollowsSame DEF Sound
  <2> QED BY <2>1, <2>2, <2>3 DEF Cancelled, ServersEased, Eased, Same
<1>2. CASE b.hnd[p].current_req /\ ~b.hnd[p].pending_cb
  <2> DEFINE d == reply_schedule_callback(b, p, "CANCEL")
  <2>1. c = request_finished(d, p, send)
    BY <1>2 DEF evdns_cancel_request
  <2>2. "CANCEL" \in Errors
    BY DEF Errors
  <2>3. Sound(d, V \cup {p}, Z)
    BY <1>2, <2>2, ScheduleSound
  <2>4. DOMAIN b = Fields /\ b.hnd \in [Handles -> Handle]
    BY DEF Sound, Core, NetTyped
  <2>5. Scheduled(b, d, p, "CANCEL")
    BY <2>4, ScheduleFields
  <2>6. ScheduledFacts(b, d, p, "CANCEL")
    BY <2>4, <2>5, ScheduledGives
  <2> HIDE DEF d
  <2>7. d.hnd[p].current_req /\ d.hnd[p].pending_cb
    BY <1>2, <2>6 DEF ScheduledFacts
  <2>8. Finished(d, c, p)
    BY <2>1, <2>3, <2>7, RequestFinished DEF Sound
  <2>9. Sound(c, (V \cup {p}) \ {p}, Z) /\ HandleIdles(d, c, p)
    BY <2>3, <2>7, <2>8, FinishSound
  <2>10. (V \cup {p}) \ {p} = V
    OBVIOUS
  <2>11. d.servers = b.servers /\ d.ns = b.ns /\ d.inflight = b.inflight
    BY <2>6 DEF ScheduledFacts, Fields
  <2>12. ServersEased(b, c) /\ \A y : Lists(b.inflight, y) /\ y # p => Lists(c.inflight, y)
    BY <2>8, <2>11 DEF Finished, ServersEased
  <2>13. Same(b, c, StillFields)
    BY <2>6, <2>8 DEF Finished, ScheduledFacts, Same, StillFields, OtherFields, ClientFields, Fields
  <2>14. ~c.hnd[p].current_req /\ c.hnd[p].ns = b.hnd[p].ns
         /\ \A y \in Handles : y # p => c.hnd[y] = b.hnd[y]
    BY <2>6, <2>9 DEF HandleIdles, ScheduledFacts
  <2>15. Follows(b, c)
    <3>1. Follows(b, d) /\ HasResult(d, p)
      BY <1>2, <2>2, <2>4, <2>6, FollowsSchedule DEF Sound, d
    <3>2. Follows(d, c)
      BY <2>3, <2>8, <3>1, FollowsFinish DEF Sound, Core
    <3> QED BY <3>1, <3>2, FollowsTwice
  <2> QED BY <2>9, <2>10, <2>12, <2>13, <2>14, <2>15 DEF Cancelled
<1> QED BY <1>1, <1>2

LEMMA CancelGood ==
  ASSUME NEW b, NEW V, NEW Z, Good(b, V, Z, {}), NEW p \in Handles, p \notin V,
         MayEnd(b, p, "CANCEL", Z), NEW send \in [Servers -> Sent],
         NEW c, c = evdns_cancel_request(b, p, send)
  PROVE  Good(c, V, Z, {}) /\ Cancelled(b, c, p)
<1>1. Cancelled(b, c, p)
  BY CancelSound DEF Good
<1>2. CASE ~b.hnd[p].current_req \/ b.hnd[p].pending_cb
  <2>1. c = b
    BY <1>2 DEF evdns_cancel_request
  <2> QED BY <1>1, <2>1
<1>3. CASE b.hnd[p].current_req /\ ~b.hnd[p].pending_cb
  <2> DEFINE d == reply_schedule_callback(b, p, "CANCEL")
  <2>1. c = request_finished(d, p, send)
    BY <1>3 DEF evdns_cancel_request
  <2>2. "CANCEL" \in Errors
    BY DEF Errors
  <2>3. Good(d, V \cup {p}, Z, {}) /\ ScheduledFacts(b, d, p, "CANCEL")
    BY <1>3, <2>2, ScheduleGood
  <2> HIDE DEF d
  <2>4. d.hnd[p].current_req /\ d.hnd[p].pending_cb
    BY <1>3, <2>3 DEF ScheduledFacts
  <2>5. Good(c, (V \cup {p}) \ {p}, Z, {})
    BY <2>1, <2>3, <2>4, FinishGood
  <2>6. (V \cup {p}) \ {p} = V
    OBVIOUS
  <2> QED BY <1>1, <2>5, <2>6
<1> QED BY <1>2, <1>3


-----------------------------------------------------------------------------
(* The client: a server is marked up, or its probe and timer are changed.  *)

Tunes(b, c, n, k) ==
  /\ Changes(b, c, Trifles \cup {"ns", "good"}) /\ c.draw \in Seq(Ids) /\ c.draw # <<>>
  /\ c.ns = [b.ns EXCEPT ![n] = k] /\ k \in Server
  /\ k.requests_inflight = b.ns[n].requests_inflight
  /\ c.good = Cardinality(UpServers(c))

\* The change fits the probes that are out; Y are the servers to forget theirs then.
TunesRight(b, n, k, V, Z, Y) ==
  /\ k.probe = b.ns[n].probe \/ k.probe = None
  /\ k.timeout => ~k.state
  /\ \A y \in Probes : b.hnd[y].current_req /\ y \notin V /\ b.hnd[y].ns = n
                       => k.probe = y /\ ~k.state /\ ~k.timeout
  /\ Z \subseteq Y \cup {n} /\ (n \notin Y => k.probe = None \/ n \notin Z)

TunedFields(b, c, n, k) ==
  /\ DOMAIN c = Fields /\ c.servers = b.servers /\ c.hnd = b.hnd /\ c.req = b.req
  /\ c.inflight = b.inflight /\ c.waiting = b.waiting /\ c.ninflight = b.ninflight
  /\ c.nwaiting = b.nwaiting /\ c.max_inflight = b.max_inflight /\ c.search = b.search
  /\ c.global = b.global /\ c.deferred = b.deferred /\ c.told = b.told /\ c.asked = b.asked
  /\ c.suspended = b.suspended /\ c.freed = b.freed
  /\ c.ns \in [Servers -> Server] /\ c.ns[n] = k
  /\ \A m \in Servers : m # n => c.ns[m] = b.ns[m]

LEMMA TunedHasFields ==
  ASSUME NEW b, b.ns \in [Servers -> Server], NEW c, NEW n \in Servers, NEW k, Tunes(b, c, n, k)
  PROVE  TunedFields(b, c, n, k)
<1>1. Changes(b, c, Trifles \cup {"ns", "good"}) /\ c.ns = [b.ns EXCEPT ![n] = k] /\ k \in Server
  BY DEF Tunes
<1>2. c.ns \in [Servers -> Server] /\ c.ns[n] = k /\ \A m \in Servers : m # n => c.ns[m] = b.ns[m]
  BY <1>1
<1>3. /\ DOMAIN c = Fields /\ c.servers = b.servers /\ c.hnd = b.hnd /\ c.req = b.req
      /\ c.inflight = b.inflight /\ c.waiting = b.waiting /\ c.ninflight = b.ninflight
      /\ c.nwaiting = b.nwaiting /\ c.max_inflight = b.max_inflight /\ c.search = b.search
      /\ c.global = b.global /\ c.deferred = b.deferred /\ c.told = b.told /\ c.asked = b.asked
      /\ c.suspended = b.suspended /\ c.freed = b.freed
  BY <1>1 DEF Changes, Trifles, Fields
<1> QED BY <1>2, <1>3 DEF TunedFields

LEMMA TunedCore ==
  ASSUME NEW b, NEW U, Core(b, U), NEW c, NEW n \in Servers, NEW k, Tunes(b, c, n, k)
  PROVE  Core(c, U)
<1>0. b.ns \in [Servers -> Server]
  BY DEF Core, NetTyped
<1>1. TunedFields(b, c, n, k)
  BY <1>0, TunedHasFields
<1>2. NetTyped(c)
  BY <1>1 DEF TunedFields, Core, NetTyped, Tunes
<1>3. ListsOK(c, U)
  <2>1. \A x \in Handles : ListedOK(b, x, U) => ListedOK(c, x, U)
    BY <1>1 DEF TunedFields, ListedOK
  <2> QED BY <1>1, <2>1 DEF TunedFields, Core, ListsOK
<1>4. CountsOK(c)
  <2>1. \A m \in Servers : Load(c, m) = Load(b, m)
    BY <1>1 DEF TunedFields, Load
  <2>2. \A m \in Servers : c.ns[m].requests_inflight = b.ns[m].requests_inflight
    BY <1>1 DEF TunedFields, Tunes
  <2>3. c.servers = b.servers
    BY <1>1 DEF TunedFields
  <2> QED BY <2>1, <2>2, <2>3 DEF Core, CountsOK, Tunes
<1>5. IdsOK(c)
  BY <1>1 DEF TunedFields, Core, IdsOK, SearchedOn
<1>6. c.hnd \in [Handles -> Handle]
  BY <1>1 DEF TunedFields, Core
<1> QED BY <1>2, <1>3, <1>4, <1>5, <1>6 DEF Core

LEMMA TunedSound ==
  ASSUME NEW b, NEW V, NEW Z, NEW Y, Sound(b, V, Z), NEW c, NEW n \in Servers, NEW k,
         Tunes(b, c, n, k), TunesRight(b, n, k, V, Z, Y)
  PROVE  Sound(c, V, Y)
<1>1. TunedFields(b, c, n, k)
  BY TunedHasFields DEF Sound, Core, NetTyped
<1>2. Core(c, {})
  BY TunedCore DEF Sound
<1>3. RefsOK(c)
  BY <1>1 DEF TunedFields, Sound, RefsOK, CountedOK, Holders
<1>4. Pend(c, V)
  BY <1>1 DEF TunedFields, Sound, Pend, HasResult
<1>5. Rest(c, V, Y)
  <2>1. ASSUME NEW m \in Servers, Lists(c.servers, m)
        PROVE  ProbeOfServer(c, m) /\ (c.ns[m].timeout => ~c.ns[m].state)
    <3>1. ProbeOfServer(b, m) /\ (b.ns[m].timeout => ~b.ns[m].state)
      BY <1>1, <2>1 DEF TunedFields, Sound, Rest
    <3>2. c.ns[m].probe = b.ns[m].probe \/ c.ns[m].probe = None
      BY <1>1 DEF TunedFields, TunesRight
    <3>3. c.ns[m].timeout => ~c.ns[m].state
      BY <1>1, <3>1 DEF TunedFields, TunesRight
    <3> QED BY <1>1, <3>1, <3>2, <3>3 DEF TunedFields, ProbeOfServer
  <2>2. ASSUME NEW y \in Probes, c.hnd[y].current_req, y \notin V
        PROVE  ProbeIsOut(c, y)
    <3>1. ProbeIsOut(b, y)
      BY <1>1, <2>2 DEF TunedFields, Sound, Rest
    <3>2. PICK m \in Servers : /\ b.hnd[y].ns = m /\ Lists(b.servers, m) /\ b.ns[m].probe = y
                               /\ ~b.ns[m].state /\ ~b.ns[m].timeout
      BY <3>1 DEF ProbeIsOut
    <3>3. c.ns[m].probe = y /\ ~c.ns[m].state /\ ~c.ns[m].timeout
      BY <1>1, <2>2, <3>2 DEF TunedFields, TunesRight
    <3> QED BY <1>1, <3>2, <3>3 DEF TunedFields, ProbeIsOut
  <2>3. ASSUME NEW i \in 1 .. Len(c.deferred), NEW m \in Servers, c.deferred[i][2] = "CANCEL",
               Lists(c.servers, m), m \notin Y
        PROVE  c.ns[m].probe # c.deferred[i][1]
    <3>1. i \in 1 .. Len(b.deferred) /\ b.deferred[i][2] = "CANCEL" /\ Lists(b.servers, m)
          /\ c.deferred[i][1] = b.deferred[i][1]
      BY <1>1, <2>3 DEF TunedFields
    <3>2. c.deferred[i][1] # None
      <4>1. c.deferred[i] \in Handles \X Errors
        BY <1>4, <2>3 DEF Pend
      <4> QED BY <4>1, NoneAssumption DEF Handles
    <3>3. CASE m \notin Z
      <4>1. b.ns[m].probe # b.deferred[i][1]
        BY <3>1, <3>3 DEF Sound, Rest
      <4> QED BY <1>1, <3>1, <3>2, <4>1 DEF TunedFields, TunesRight
    <3>4. CASE m \in Z
      <4>1. m = n /\ k.probe = None
        BY <2>3, <3>4 DEF TunesRight
      <4> QED BY <1>1, <3>2, <4>1 DEF TunedFields
    <3> QED BY <3>3, <3>4
  <2>4. /\ \A y \in Handles : ~Active(c.hnd[y]) => c.hnd[y] = NewHandle
        /\ \A y \in Users : /\ c.hnd[y].ns = None
                            /\ y \notin c.asked => ~Active(c.hnd[y]) /\ y \notin c.told
        /\ \A y, z \in Probes : c.hnd[y].ns = c.hnd[z].ns /\ c.hnd[y].ns # None => y = z
        /\ \A y \in Probes : Active(c.hnd[y]) => c.hnd[y].ns # None
    BY <1>1 DEF TunedFields, Sound, Rest
  <2>5. \A i \in 1 .. Len(c.deferred), m \in Servers :
           c.deferred[i][2] = "CANCEL" /\ Lists(c.servers, m) /\ m \notin Y
           => c.ns[m].probe # c.deferred[i][1]
    BY <2>3
  <2> QED BY <2>1, <2>2, <2>4, <2>5 DEF Rest
<1> QED BY <1>1, <1>2, <1>3, <1>4, <1>5 DEF Sound, TunedFields

\* The server is not left down without a timer, unless that is about to change.
TunesDown(b, n, k, Z, Y) ==
  \/ k.state \/ k.timeout \/ n \in Y
  \/ n \notin Z /\ ~b.ns[n].state /\ ~b.ns[n].timeout
TunesWatch(b, n, k) ==
  /\ k.write_waiting <=> b.ns[n].write_waiting
  /\ k.event <=> b.ns[n].event
  /\ k.choked => b.ns[n].choked

LEMMA TunedGood ==
  ASSUME NEW b, NEW V, NEW Z, NEW Y, NEW X, Good(b, V, Z, X), NEW c, NEW n \in Servers, NEW k,
         Tunes(b, c, n, k), TunesRight(b, n, k, V, Z, Y), TunesDown(b, n, k, Z, Y), TunesWatch(b, n, k)
  PROVE  Good(c, V, Y, X)
<1>1. TunedFields(b, c, n, k)
  BY TunedHasFields DEF Good, Sound, Core, NetTyped
<1>2. Sound(c, V, Y)
  BY TunedSound DEF Good
<1>3. FedOK(c) /\ (c.servers = <<>> => c.suspended)
  BY <1>1 DEF TunedFields, Good, FedOK, SearchedOn
<1>4. Watched(b, X) => Watched(c, X)
  BY <1>1 DEF TunedFields, Watched, SomeWaits, ServerWatched, TunesWatch
<1>5. ASSUME DownOK(b, V, Z) PROVE DownOK(c, V, Y)
  <2>1. \A y \in Probes : ProbeBusy(c, y, V) <=> ProbeBusy(b, y, V)
    BY <1>1 DEF TunedFields, ProbeBusy, LiveResult
  <2> QED BY <1>1, <1>5, <2>1 DEF TunedFields, DownOK, TunesDown, TunesRight
<1> QED BY <1>2, <1>3, <1>4, <1>5 DEF Good


LEMMA SameUp ==
  ASSUME NEW b, NEW c, NEW n \in Servers, c.servers = b.servers,
         \A m \in Servers : m # n => c.ns[m] = b.ns[m], c.ns[n].state <=> b.ns[n].state
  PROVE  UpServers(c) = UpServers(b)
BY DEF UpServers

\* One server gets new fields; whether it is up stays.
SetsServer(b, c, n, k) ==
  /\ Changes(b, c, Trifles \cup {"ns"}) /\ c.draw \in Seq(Ids) /\ c.draw # <<>>
  /\ c.ns = [b.ns EXCEPT ![n] = k] /\ k \in Server
  /\ k.requests_inflight = b.ns[n].requests_inflight /\ (k.state <=> b.ns[n].state)

LEMMA SetsServerTunes ==
  ASSUME NEW b, Core(b, {}), NEW c, NEW n \in Servers, NEW k, SetsServer(b, c, n, k)
  PROVE  Tunes(b, c, n, k)
<1>1. b.ns \in [Servers -> Server] /\ b.good = Cardinality(UpServers(b))
  BY DEF Core, NetTyped, CountsOK
<1>2. c.ns[n] = k /\ \A m \in Servers : m # n => c.ns[m] = b.ns[m]
  BY <1>1 DEF SetsServer
<1>3. c.servers = b.servers /\ c.good = b.good
  BY DEF SetsServer, Changes, Trifles, Fields
<1>4. UpServers(c) = UpServers(b)
  BY <1>2, <1>3, SameUp DEF SetsServer
<1>5. Changes(b, c, Trifles \cup {"ns", "good"})
  BY DEF SetsServer, Changes
<1> QED BY <1>1, <1>3, <1>4, <1>5 DEF SetsServer, Tunes

\* The probe that is out for a server is the server's.
LEMMA ProbeOutFor ==
  ASSUME NEW b, NEW V, NEW Z, Sound(b, V, Z), NEW n \in Servers, NEW y \in Probes, y \notin V,
         b.hnd[y].current_req, b.hnd[y].ns = n
  PROVE  b.ns[n].probe = y /\ ~b.ns[n].state /\ ~b.ns[n].timeout
BY DEF Sound, Rest, ProbeIsOut

TimerOff(k) == [k EXCEPT !.timeout = FALSE]
MadeUp(k) == [k EXCEPT !.probe = None, !.state = TRUE, !.timedout = 0]

LEMMA TimerOffFacts ==
  ASSUME NEW k \in Server, NEW m, m = TimerOff(k)
  PROVE  /\ m \in Server /\ ~m.timeout /\ (m.state <=> k.state) /\ m.probe = k.probe
         /\ m.requests_inflight = k.requests_inflight /\ (m.choked <=> k.choked)
         /\ (m.write_waiting <=> k.write_waiting) /\ (m.event <=> k.event)
<1>1. m = [k EXCEPT !.timeout = FALSE]
  BY DEF TimerOff
<1> QED BY <1>1 DEF Server

LEMMA MadeUpFacts ==
  ASSUME NEW k \in Server, NEW m, m = MadeUp(k)
  PROVE  /\ m \in Server /\ m.state /\ m.probe = None /\ (m.timeout <=> k.timeout)
         /\ m.requests_inflight = k.requests_inflight /\ (m.choked <=> k.choked)
         /\ (m.write_waiting <=> k.write_waiting) /\ (m.event <=> k.event)
<1>1. m = [k EXCEPT !.probe = None, !.state = TRUE, !.timedout = 0]
  BY DEF MadeUp
<1>0. m = [state |-> TRUE, timedout |-> 0, choked |-> k.choked, write_waiting |-> k.write_waiting,
           timeout |-> k.timeout, probe |-> None, requests_inflight |-> k.requests_inflight,
           event |-> k.event]
  BY <1>1 DEF Server
<1>2. m \in Server /\ m.state
  BY <1>0 DEF Server
<1>3. m.probe = None /\ (m.timeout <=> k.timeout) /\ m.requests_inflight = k.requests_inflight
  BY <1>1 DEF Server
<1>4. (m.choked <=> k.choked) /\ (m.write_waiting <=> k.write_waiting) /\ (m.event <=> k.event)
  BY <1>1 DEF Server
<1> QED BY <1>2, <1>3, <1>4

\* The timer of a server that is about to be marked up, or probed, is stopped.
LEMMA TimerOffGood ==
  ASSUME NEW b, NEW V, NEW Z, Good(b, V, Z, {}), NEW n \in Servers, Z \subseteq {n},
         NEW c, c = [b EXCEPT !.ns[n].timeout = FALSE]
  PROVE  Good(c, V, {n}, {}) /\ TunedFields(b, c, n, TimerOff(b.ns[n]))
<1>1. Core(b, {}) /\ DOMAIN b = Fields /\ b.ns \in [Servers -> Server] /\ b.ns[n] \in Server
      /\ b.draw \in Seq(Ids) /\ b.draw # <<>>
  BY DEF Good, Sound, Core, NetTyped
<1>2. PICK k : k = TimerOff(b.ns[n])
  OBVIOUS
<1>3. /\ k \in Server /\ ~k.timeout /\ (k.state <=> b.ns[n].state) /\ k.probe = b.ns[n].probe
      /\ k.requests_inflight = b.ns[n].requests_inflight /\ (k.choked <=> b.ns[n].choked)
      /\ (k.write_waiting <=> b.ns[n].write_waiting) /\ (k.event <=> b.ns[n].event)
  BY <1>1, <1>2, TimerOffFacts
<1>4. Changes(b, c, Trifles \cup {"ns"}) /\ c.draw = b.draw
  BY <1>1 DEF Changes, Trifles, Fields
<1>5. c.ns = [b.ns EXCEPT ![n] = k]
  BY <1>1, <1>2 DEF TimerOff, Fields
<1>6. SetsServer(b, c, n, k)
  BY <1>1, <1>3, <1>4, <1>5 DEF SetsServer
<1>7. Tunes(b, c, n, k)
  BY <1>1, <1>6, SetsServerTunes
<1>8. TunesRight(b, n, k, V, Z, {n})
  <2>1. ASSUME NEW y \in Probes, b.hnd[y].current_req, y \notin V, b.hnd[y].ns = n
        PROVE  k.probe = y /\ ~k.state /\ ~k.timeout
    <3>1. b.ns[n].probe = y /\ ~b.ns[n].state
      BY <2>1, ProbeOutFor DEF Good
    <3> QED BY <1>3, <3>1
  <2> QED BY <1>3, <2>1 DEF TunesRight
<1>9. TunesDown(b, n, k, Z, {n}) /\ TunesWatch(b, n, k)
  BY <1>3 DEF TunesDown, TunesWatch
<1>10. Good(c, V, {n}, {})
  BY <1>7, <1>8, <1>9, TunedGood
<1> QED BY <1>1, <1>2, <1>7, <1>10, TunedHasFields


\* Forgetting its probe and coming up is one change of a server.
LEMMA MakeUpGood ==
  ASSUME NEW b, NEW V, NEW Z, Good(b, V, Z, {}), NEW n \in Servers, Z \subseteq {n},
         Lists(b.servers, n), ~b.ns[n].state, ~b.ns[n].timeout,
         \A y \in Probes : b.ns[n].probe = y /\ y \notin V => ~b.hnd[y].current_req,
         NEW c, c = [b EXCEPT !.ns[n] = MadeUp(b.ns[n]), !.good = @ + 1]
  PROVE  Good(c, V, {}, {}) /\ TunedFields(b, c, n, MadeUp(b.ns[n]))
<1>1. Core(b, {}) /\ DOMAIN b = Fields /\ b.ns \in [Servers -> Server] /\ b.ns[n] \in Server
      /\ b.draw \in Seq(Ids) /\ b.draw # <<>> /\ b.good = Cardinality(UpServers(b))
  BY DEF Good, Sound, Core, NetTyped, CountsOK
<1>2. PICK k : k = MadeUp(b.ns[n])
  OBVIOUS
<1>3. /\ k \in Server /\ k.state /\ k.probe = None /\ (k.timeout <=> b.ns[n].timeout)
      /\ k.requests_inflight = b.ns[n].requests_inflight /\ (k.choked <=> b.ns[n].choked)
      /\ (k.write_waiting <=> b.ns[n].write_waiting) /\ (k.event <=> b.ns[n].event)
  BY <1>1, <1>2, MadeUpFacts
<1>4. c = [b EXCEPT !.ns[n] = k, !.good = @ + 1]
  BY <1>2
<1>5. Changes(b, c, Trifles \cup {"ns", "good"}) /\ c.draw = b.draw
  BY <1>1, <1>4 DEF Changes, Trifles, Fields
<1>6. c.ns = [b.ns EXCEPT ![n] = k] /\ c.good = b.good + 1 /\ c.servers = b.servers
  BY <1>1, <1>4 DEF Fields
<1>7. UpServers(c) = UpServers(b) \cup {n} /\ n \notin UpServers(b)
  <2>1. c.ns[n].state /\ \A m \in Servers : m # n => c.ns[m] = b.ns[m]
    BY <1>1, <1>3, <1>6
  <2> QED BY <1>6, <2>1 DEF UpServers
<1>8. c.good = Cardinality(UpServers(c))
  BY <1>1, <1>6, <1>7, UpFinite, OneMore
<1>9. Tunes(b, c, n, k)
  BY <1>1, <1>3, <1>5, <1>6, <1>8 DEF Tunes
<1>10. TunesRight(b, n, k, V, Z, {})
  <2>1. ASSUME NEW y \in Probes, b.hnd[y].current_req, y \notin V, b.hnd[y].ns = n
        PROVE  FALSE
    BY <2>1, ProbeOutFor DEF Good
  <2> QED BY <1>3, <2>1 DEF TunesRight
<1>11. TunesDown(b, n, k, Z, {}) /\ TunesWatch(b, n, k)
  BY <1>3 DEF TunesDown, TunesWatch
<1>12. Good(c, V, {}, {})
  BY <1>9, <1>10, <1>11, TunedGood
<1> QED BY <1>1, <1>2, <1>9, <1>12, TunedHasFields

\* nameserver_up: the server is up again and its probe is cancelled.
UpAgain(b, c, p) ==
  /\ Same(b, c, StillFields)
  /\ \A y \in Handles : y # p => c.hnd[y] = b.hnd[y]
  /\ \A y : Lists(b.inflight, y) /\ y # p => Lists(c.inflight, y)
  /\ \A m \in Servers : Lists(c.servers, m) <=> Lists(b.servers, m)
  /\ Follows(b, c)

LEMMA ServerUpGood ==
  ASSUME NEW b, NEW V, NEW Z, Good(b, V, Z, {}), NEW n \in Servers, Z \subseteq {n},
         b.ns[n].state => Z = {}, Lists(b.servers, n), NEW p, p = b.ns[n].probe, p \notin V,
         NEW send \in [Servers -> Sent], NEW c, c = nameserver_up(b, n, send)
  PROVE  Good(c, V, {}, {}) /\ UpAgain(b, c, p)
<1>1. CASE b.ns[n].state
  <2>1. c = b
    BY <1>1 DEF nameserver_up
  <2>2. Follows(b, c)
    BY <2>1, FollowsSame DEF Good, Sound
  <2> QED BY <1>1, <2>1, <2>2 DEF UpAgain, Same
<1>2. CASE ~b.ns[n].state
  <2> DEFINE f == [b EXCEPT !.ns[n].timeout = FALSE]
             d == IF p = None THEN f ELSE evdns_cancel_request(f, p, send)
  <2>1. Good(f, V, {n}, {}) /\ TunedFields(b, f, n, TimerOff(b.ns[n]))
    BY TimerOffGood
  <2>2. b.ns[n] \in Server
    BY DEF Good, Sound, Core, NetTyped
  <2>3. /\ f.ns[n].probe = p /\ ~f.ns[n].timeout /\ ~f.ns[n].state
    BY <1>2, <2>1, <2>2, TimerOffFacts DEF TunedFields
  <2>4. f.servers = b.servers /\ f.hnd = b.hnd /\ f.inflight = b.inflight
    BY <2>1 DEF TunedFields
  <2>5. Same(b, f, StillFields)
    <3>1. DOMAIN b = Fields
      BY DEF Good, Sound, Core, NetTyped
    <3> QED BY <3>1 DEF Same, StillFields, OtherFields, ClientFields, Fields
  <2>6. p \in Probes \cup {None}
    BY <2>2 DEF Server
  <2>11. Follows(b, f)
    BY <2>1, FollowsSame DEF Good, Sound, TunedFields
  <2>7. c = [d EXCEPT !.ns[n] = MadeUp(d.ns[n]), !.good = @ + 1]
    <3> DEFINE g == IF f.ns[n].probe = None THEN f ELSE evdns_cancel_request(f, f.ns[n].probe, send)
    <3>1. f.ns[n].probe = p
      BY <2>3
    <3>2. c = [g EXCEPT !.ns[n] = [g.ns[n] EXCEPT !.probe = None, !.state = TRUE, !.timedout = 0],
                        !.good = @ + 1]
      BY <1>2, Zenon DEF nameserver_up
    <3>3. c = [g EXCEPT !.ns[n] = MadeUp(g.ns[n]), !.good = @ + 1]
      BY <3>2, Zenon DEF MadeUp
    <3> HIDE DEF f
    <3>4. g = d
      BY <3>1
    <3> HIDE DEF g, d
    <3> QED BY <3>3, <3>4
  <2> HIDE DEF f
  <2>8. /\ Good(d, V, {n}, {}) /\ UpAgain(b, d, p) /\ Lists(d.servers, n) /\ d.ns[n].probe = p
        /\ ~d.ns[n].state /\ ~d.ns[n].timeout
        /\ p \in Probes => ~d.hnd[p].current_req
    <3>1. CASE p = None
      <4>1. d = f
        BY <3>1
      <4>2. p \notin Probes
        BY <3>1, NoneAssumption
      <4> QED BY <2>1, <2>3, <2>4, <2>5, <2>11, <4>1, <4>2 DEF UpAgain
    <3>2. CASE p # None
      <4>1. p \in Probes /\ p \in Handles
        BY <2>6, <3>2 DEF Handles
      <4>2. MayEnd(f, p, "CANCEL", {n})
        <5>1. ProbeOfServer(f, n)
          BY <2>1, <2>4 DEF Good, Sound, Rest
        <5>2. f.hnd[p].ns = n
          BY <2>3, <3>2, <5>1 DEF ProbeOfServer
        <5> QED BY <5>2 DEF MayEnd
      <4>3. d = evdns_cancel_request(f, p, send)
        BY <3>2
      <4> HIDE DEF d
      <4>4. Good(d, V, {n}, {}) /\ Cancelled(f, d, p)
        BY <2>1, <4>1, <4>2, <4>3, CancelGood
      <4>5. d.ns[n].probe = p /\ ~d.ns[n].state /\ ~d.ns[n].timeout /\ Lists(d.servers, n)
        BY <2>3, <2>4, <4>4 DEF Cancelled, ServersEased, Eased
      <4>6. Same(b, d, StillFields)
        BY <2>5, <4>4 DEF Cancelled, Same
      <4>7. UpAgain(b, d, p)
        BY <2>4, <2>11, <4>4, <4>6, FollowsTwice DEF Cancelled, UpAgain, ServersEased
      <4>8. ~d.hnd[p].current_req
        BY <4>4 DEF Cancelled
      <4> QED BY <4>4, <4>5, <4>7, <4>8
    <3> QED BY <3>1, <3>2
  <2> HIDE DEF d
  <2>9. Good(c, V, {}, {}) /\ TunedFields(d, c, n, MadeUp(d.ns[n]))
    BY <2>7, <2>8, MakeUpGood
  <2>10. Same(d, c, StillFields)
    <3>1. DOMAIN d = Fields
      BY <2>8 DEF Good, Sound, Core, NetTyped
    <3> QED BY <2>7, <3>1 DEF Same, StillFields, OtherFields, ClientFields, Fields
  <2>12. Follows(b, c)
    <3>1. Follows(d, c)
      BY <2>8, <2>9, FollowsSame DEF Good, Sound, TunedFields
    <3> QED BY <2>8, <3>1, FollowsTwice DEF UpAgain
  <2> QED BY <2>8, <2>9, <2>10, <2>12 DEF UpAgain, TunedFields, Same
<1> QED BY <1>1, <1>2


Forgot(k) == [k EXCEPT !.probe = None]

LEMMA ForgotFacts ==
  ASSUME NEW k \in Server, NEW m, m = Forgot(k)
  PROVE  /\ m \in Server /\ (m.state <=> k.state) /\ m.probe = None /\ (m.timeout <=> k.timeout)
         /\ m.requests_inflight = k.requests_inflight /\ (m.choked <=> k.choked)
         /\ (m.write_waiting <=> k.write_waiting) /\ (m.event <=> k.event)
<1>1. m = [k EXCEPT !.probe = None]
  BY DEF Forgot
<1> QED BY <1>1 DEF Server

\* A server forgets its probe.
LEMMA ForgetGood ==
  ASSUME NEW b, NEW V, NEW Z, Good(b, V, Z, {}), NEW n \in Servers, Z \subseteq {n},
         Lists(b.servers, n), \A y \in Probes : b.ns[n].probe = y /\ y \notin V => ~b.hnd[y].current_req,
         NEW c, c = [b EXCEPT !.ns[n].probe = None],
         NEW Y, Y = IF b.ns[n].state THEN {} ELSE {n}
  PROVE  Good(c, V, Y, {}) /\ TunedFields(b, c, n, Forgot(b.ns[n]))
<1>1. Core(b, {}) /\ DOMAIN b = Fields /\ b.ns \in [Servers -> Server] /\ b.ns[n] \in Server
      /\ b.draw \in Seq(Ids) /\ b.draw # <<>>
  BY DEF Good, Sound, Core, NetTyped
<1>2. PICK k : k = Forgot(b.ns[n])
  OBVIOUS
<1>3. /\ k \in Server /\ (k.state <=> b.ns[n].state) /\ k.probe = None
      /\ (k.timeout <=> b.ns[n].timeout)
      /\ k.requests_inflight = b.ns[n].requests_inflight /\ (k.choked <=> b.ns[n].choked)
      /\ (k.write_waiting <=> b.ns[n].write_waiting) /\ (k.event <=> b.ns[n].event)
  BY <1>1, <1>2, ForgotFacts
<1>4. Changes(b, c, Trifles \cup {"ns"}) /\ c.draw = b.draw
  BY <1>1 DEF Changes, Trifles, Fields
<1>5. c.ns = [b.ns EXCEPT ![n] = k]
  BY <1>1, <1>2 DEF Forgot, Fields
<1>6. SetsServer(b, c, n, k)
  BY <1>1, <1>3, <1>4, <1>5 DEF SetsServer
<1>7. Tunes(b, c, n, k)
  BY <1>1, <1>6, SetsServerTunes
<1>8. k.timeout /\ Lists(b.servers, n) => ~k.state
  BY <1>3 DEF Good, Sound, Rest
<1>9. TunesRight(b, n, k, V, Z, Y)
  <2>1. ASSUME NEW y \in Probes, b.hnd[y].current_req, y \notin V, b.hnd[y].ns = n
        PROVE  FALSE
    BY <2>1, ProbeOutFor DEF Good
  <2> QED BY <1>3, <1>8, <2>1 DEF TunesRight
<1>10. TunesDown(b, n, k, Z, Y) /\ TunesWatch(b, n, k)
  BY <1>3 DEF TunesDown, TunesWatch
<1>11. Good(c, V, Y, {})
  BY <1>7, <1>9, <1>10, TunedGood
<1> QED BY <1>1, <1>2, <1>7, <1>11, TunedHasFields

\* A probe that is about to end does not speak for its server any more.
LEMMA HandOver ==
  ASSUME NEW b, NEW V, NEW Z, NEW X, Good(b, V, Z, X), NEW x \in Probes, b.hnd[x].current_req,
         NEW n, b.hnd[x].ns = n
  PROVE  Good(b, V \cup {x}, Z \cup {n}, X)
<1>1. x \in Handles
  BY DEF Handles
<1>2. Pend(b, V \cup {x})
  BY <1>1 DEF Good, Sound, Pend
<1>3. Rest(b, V \cup {x}, Z \cup {n})
  BY DEF Good, Sound, Rest
<1>4. ASSUME DownOK(b, V, Z) PROVE DownOK(b, V \cup {x}, Z \cup {n})
  BY <1>4 DEF DownOK, ProbeBusy
<1> QED BY <1>2, <1>3, <1>4 DEF Good, Sound

\* Where a request in flight is.
LEMMA InflightAt ==
  ASSUME NEW b, NEW U, Core(b, U), NEW x \in Handles, Lists(b.inflight, x)
  PROVE  b.req[x].ns \in Servers /\ Lists(b.servers, b.req[x].ns) /\ b.hnd[x].current_req
<1>1. ListedOK(b, x, U) /\ b.servers \in Seq(Servers)
  BY DEF Core, ListsOK, NetTyped
<1> QED BY <1>1, MembersFacts DEF ListedOK

\* A good answer to x marks its server up.
Answered(b, c, x) ==
  /\ c.hnd[x] = b.hnd[x] /\ Lists(c.inflight, x) /\ Same(b, c, StillFields) /\ Follows(b, c)

LEMMA MarkUpGood ==
  ASSUME NEW b, NEW V \in SUBSET Handles, Good(b, V, {}, {}), NEW x \in Handles, V \subseteq {x},
         Lists(b.inflight, x), NEW send \in [Servers -> Sent], NEW c, c = MarkUp(b, x, send)
  PROVE  /\ \E W \in SUBSET {x} : Good(c, W, {}, {}) /\ V \subseteq W /\ (x \in Users => W = V)
         /\ Answered(b, c, x)
<1>1. PICK n \in Servers : n = b.req[x].ns /\ Lists(b.servers, n)
  BY InflightAt DEF Good, Sound
<1>2. b.hnd[x].current_req
  BY InflightAt DEF Good, Sound
<1>3. DOMAIN b = Fields /\ b.ns[n] \in Server
  BY DEF Good, Sound, Core, NetTyped
<1>4. CASE b.ns[n].probe = x
  <2> DEFINE d == [b EXCEPT !.ns[n].probe = None]
             Y == IF b.ns[n].state THEN {} ELSE {n}
  <2>1. c = nameserver_up(d, n, send)
    BY <1>1, <1>4 DEF MarkUp
  <2>2. x \in Probes /\ x \notin Users
    <3>1. x # None
      BY NoneAssumption DEF Handles
    <3> QED BY <1>3, <1>4, <3>1, LimitAssumption DEF Server, Handles
  <2>3. b.hnd[x].ns = n
    <3>1. ProbeOfServer(b, n)
      BY <1>1 DEF Good, Sound, Rest
    <3>2. x # None
      BY NoneAssumption DEF Handles
    <3> QED BY <1>4, <3>1, <3>2 DEF ProbeOfServer
  <2>4. Good(b, V \cup {x}, {} \cup {n}, {})
    BY <1>2, <2>2, <2>3, HandOver
  <2>5. V \cup {x} = {x} /\ {} \cup {n} = {n}
    OBVIOUS
  <2>6. Good(b, {x}, {n}, {})
    BY <2>4, <2>5
  <2>7. Good(d, {x}, Y, {}) /\ TunedFields(b, d, n, Forgot(b.ns[n]))
    BY <1>1, <1>4, <2>6, ForgetGood
  <2>8. d.ns[n].probe = None /\ (d.ns[n].state <=> b.ns[n].state) /\ d.servers = b.servers
        /\ d.hnd = b.hnd /\ d.inflight = b.inflight
    BY <1>3, <2>7, ForgotFacts DEF TunedFields
  <2>9. Same(b, d, StillFields)
    BY <1>3 DEF Same, StillFields, OtherFields, ClientFields, Fields
  <2> HIDE DEF d
  <2>10. Y \subseteq {n} /\ (d.ns[n].state => Y = {}) /\ Lists(d.servers, n)
         /\ d.ns[n].probe \notin {x} /\ x # None
    BY <1>1, <2>8, NoneAssumption DEF Handles
  <2> HIDE DEF Y
  <2>11. Good(c, {x}, {}, {}) /\ UpAgain(d, c, d.ns[n].probe)
    BY <2>1, <2>7, <2>10, ServerUpGood
  <2>12. Follows(b, d)
    BY <2>7, FollowsSame DEF Good, Sound, TunedFields
  <2>13. Follows(b, c)
    BY <2>11, <2>12, FollowsTwice DEF UpAgain
  <2>14. Answered(b, c, x)
    BY <1>1, <2>8, <2>9, <2>10, <2>11, <2>13 DEF UpAgain, Answered, Same
  <2> QED BY <2>2, <2>11, <2>14
<1>5. CASE b.ns[n].probe # x
  <2>1. c = nameserver_up(b, n, send)
    BY <1>1, <1>5 DEF MarkUp
  <2>2. b.ns[n].probe \notin V
    BY <1>5
  <2>3. Good(c, V, {}, {}) /\ UpAgain(b, c, b.ns[n].probe)
    BY <1>1, <2>1, <2>2, ServerUpGood
  <2>4. Answered(b, c, x)
    BY <1>5, <2>3 DEF UpAgain, Answered
  <2> QED BY <2>3, <2>4
<1> QED BY <1>4, <1>5


-----------------------------------------------------------------------------
(* The client: requests are made and submitted.                            *)

\* A request in hand joins the waiting queue.
JoinsWaiting(b, c, x) ==
  /\ Changes(b, c, {"waiting", "nwaiting"})
  /\ c.waiting = Append(b.waiting, x) /\ c.nwaiting = b.nwaiting + 1

NowWaits(b, c, V, x) ==
  /\ Core(c, V) /\ Calm(b, c) /\ c.inflight = b.inflight /\ Lists(c.waiting, x)
  /\ \A X : Watched(b, X) => Watched(c, X)

LEMMA JoinWaitingKeeps ==
  ASSUME NEW b, NEW V, Core(b, V), NEW x \in V \cap Handles, b.hnd[x].current_req,
         b.req[x].ns = None, NEW c, JoinsWaiting(b, c, x)
  PROVE  NowWaits(b, c, V \ {x}, x)
<1>1. /\ c.servers = b.servers /\ c.inflight = b.inflight /\ c.hnd = b.hnd /\ c.ns = b.ns
      /\ c.ninflight = b.ninflight /\ c.good = b.good /\ c.draw = b.draw /\ c.req = b.req
      /\ DOMAIN c = Fields /\ Same(b, c, ClientFields)
  BY DEF JoinsWaiting, Changes, Fields, Same, ClientFields
<1>2. /\ b.waiting \in Seq(Handles) /\ Distinct(b.waiting) /\ b.nwaiting = Len(b.waiting)
      /\ ~Lists(b.inflight, x) /\ ~Lists(b.waiting, x)
  BY DEF Core, NetTyped, ListsOK, ListedOK
<1>3. /\ c.waiting \in Seq(Handles) /\ Distinct(c.waiting) /\ Len(c.waiting) = Len(b.waiting) + 1
      /\ \A y : Lists(c.waiting, y) <=> Lists(b.waiting, y) \/ y = x
  <2>1. x \in Handles /\ c.waiting = Append(b.waiting, x)
    BY DEF JoinsWaiting
  <2>2. b.waiting \in Seq(Handles)
    BY <1>2
  <2>3. Grown(Handles, b.waiting, x, c.waiting)
    BY <2>1, <2>2, AppendGrows
  <2> QED BY <1>2, <2>3 DEF Grown
<1>4. ListsOK(c, V \ {x})
  <2>1. ASSUME NEW y \in Handles PROVE ListedOK(c, y, V \ {x})
    <3>1. CASE y = x
      BY <1>1, <1>2, <1>3, <3>1 DEF Core, ListsOK, ListedOK
    <3>2. CASE y # x
      BY <1>1, <1>3, <3>2 DEF Core, ListsOK, ListedOK
    <3> QED BY <3>1, <3>2
  <2>2. c.nwaiting = Len(c.waiting)
    BY <1>2, <1>3 DEF JoinsWaiting
  <2> QED BY <1>1, <1>3, <2>1, <2>2 DEF Core, ListsOK
<1>5. NetTyped(c)
  BY <1>1, <1>3 DEF Core, NetTyped
<1>6. CountsOK(c) /\ IdsOK(c)
  <2>1. UpServers(c) = UpServers(b) /\ \A n \in Servers : Load(c, n) = Load(b, n)
    BY <1>1 DEF UpServers, Load
  <2>2. CountsOK(c)
    BY <1>1, <2>1 DEF Core, CountsOK
  <2>3. IdsOK(c)
    BY <1>1 DEF Core, IdsOK, SearchedOn
  <2> QED BY <2>2, <2>3
<1>7. Core(c, V \ {x})
  BY <1>1, <1>4, <1>5, <1>6 DEF Core
<1>8. Calm(b, c)
  BY <1>1 DEF Calm, ServerKept
<1>9. \A X : Watched(b, X) => Watched(c, X)
  BY <1>1 DEF Watched, SomeWaits
<1> QED BY <1>1, <1>3, <1>7, <1>8, <1>9 DEF NowWaits

\* request_submit: the request in hand is in one of the lists.
Submitted(b, c, x) ==
  /\ Core(c, {}) /\ Calm(b, c) /\ (Watched(b, {}) => Watched(c, {}))
  /\ Lists(c.inflight, x) \/ (b.req[x].ns = None /\ Lists(c.waiting, x) /\ c.inflight = b.inflight)

LEMMA SubmitKeeps ==
  ASSUME NEW b, NEW x \in Handles, Core(b, {x}), b.hnd[x].current_req,
         b.req[x].ns # None => MayJoin(b, x), NEW send \in [Servers -> Sent],
         NEW c, c = request_submit(b, x, send)
  PROVE  Submitted(b, c, x)
<1>1. DOMAIN b = Fields /\ b.req[x] \in Request /\ {x} \ {x} = {} /\ x \in {x} \cap Handles
  BY DEF Core, NetTyped
<1>2. CASE b.req[x].ns = None
  <2>1. c = [b EXCEPT !.waiting = Append(b.waiting, x), !.nwaiting = b.nwaiting + 1]
    BY <1>2 DEF request_submit
  <2>2. Changes(b, c, {"waiting", "nwaiting"})
    BY <1>1, <2>1 DEF Changes, Fields
  <2>3. JoinsWaiting(b, c, x)
    BY <1>1, <2>1, <2>2 DEF JoinsWaiting, Fields
  <2>4. NowWaits(b, c, {x} \ {x}, x)
    BY <1>1, <1>2, <2>3, JoinWaitingKeeps
  <2> QED BY <1>1, <1>2, <2>4 DEF NowWaits, Submitted
<1>3. CASE b.req[x].ns # None
  <2>1. PICK n \in Servers : n = b.req[x].ns
    BY <1>1, <1>3 DEF Request
  <2> DEFINE d == [b EXCEPT !.inflight = Append(@, x), !.ninflight = @ + 1,
                            !.ns[n].requests_inflight = @ + 1]
  <2>2. c = evdns_request_transmit(d, x, send)
    BY <1>3, <2>1 DEF request_submit
  <2>3. JoinsInflight(b, d, x, n)
    <3>1. Changes(b, d, {"ns", "inflight", "ninflight"})
      BY <1>1 DEF Changes, Fields
    <3>2. d.inflight = Append(b.inflight, x) /\ d.ninflight = b.ninflight + 1
      BY <1>1 DEF Fields
    <3>3. d.ns = [b.ns EXCEPT ![n] = Loaded(b.ns[n], 1)]
      BY <1>1 DEF Fields, Loaded
    <3> QED BY <3>1, <3>2, <3>3 DEF JoinsInflight
  <2> HIDE DEF d
  <2>4. HasJoined(b, d, {x} \ {x}, x)
    BY <1>1, <1>3, <2>1, <2>3, JoinInflightKeeps
  <2>5. Core(d, {}) /\ Lists(d.inflight, x)
    BY <1>1, <2>4 DEF HasJoined
  <2>6. Sending(d, c, {}, x)
    BY <2>2, <2>5, TransmitSending
  <2>7. Calm(b, d) /\ Calm(d, c)
    BY <2>4, <2>6, KeptCalm DEF HasJoined, Sending
  <2>8. Calm(b, c)
    BY <2>7, CalmTwice
  <2>9. Watched(b, {}) => Watched(c, {})
    <3>1. {} \cup {x} = {x}
      OBVIOUS
    <3> QED BY <2>4, <2>6, <3>1 DEF HasJoined, Sending
  <2>10. Lists(c.inflight, x)
    BY <2>5, <2>6 DEF Sending, SameQueues
  <2> QED BY <2>6, <2>8, <2>9, <2>10 DEF Submitted, Sending
<1> QED BY <1>2, <1>3

\* request_new: a request with a free id for a server, or one that waits.
TurnedServers(b, c) ==
  /\ c.servers \in Seq(Servers) /\ Distinct(c.servers)
  /\ \A n : Lists(c.servers, n) <=> Lists(b.servers, n)

NewRequest(b, r) ==
  /\ r \in Request /\ ~r.timeout
  /\ r.ns # None => r.ns \in Servers /\ Lists(b.servers, r.ns) /\ Picks(b, r.trans_id)
  /\ r.ns = None => b.servers = <<>> \/ ~(b.ninflight < b.max_inflight)

NewFields(b, c, x, r) ==
  /\ Changes(b, c, {"servers", "dangling", "draw", "req"}) /\ TurnedServers(b, c)
  /\ c.draw \in Seq(Ids) /\ c.draw # <<>>
  /\ c.req = [b.req EXCEPT ![x] = r] /\ NewRequest(b, r)

NewOne(name, n, id) == [NoRequest EXCEPT !.name = name, !.ns = n, !.trans_id = id]

LEMMA NewOneFacts ==
  ASSUME NEW name \in Names, NEW n \in Servers \cup {None}, NEW id \in 0 .. NIds,
         NEW r, r = NewOne(name, n, id)
  PROVE  r \in Request /\ ~r.timeout /\ r.ns = n /\ r.trans_id = id
<1>1. r = [ns |-> n, tx_count |-> 0, reissue_count |-> 0, transmit_me |-> FALSE, trans_id |-> id,
           name |-> name, timeout |-> FALSE]
  BY DEF NewOne, NoRequest
<1> QED BY <1>1 DEF Request

LEMMA NewOnePlain ==
  ASSUME NEW name, NEW r, r = NewOne(name, None, NIds), NEW q, q = [NoRequest EXCEPT !.name = name]
  PROVE  r = q
<1>1. r = [ns |-> None, tx_count |-> 0, reissue_count |-> 0, transmit_me |-> FALSE,
           trans_id |-> NIds, name |-> name, timeout |-> FALSE]
  BY DEF NewOne, NoRequest
<1>2. q = [ns |-> None, tx_count |-> 0, reissue_count |-> 0, transmit_me |-> FALSE,
           trans_id |-> NIds, name |-> name, timeout |-> FALSE]
  BY DEF NoRequest
<1> QED BY <1>1, <1>2

LEMMA RequestNewFields ==
  ASSUME NEW b, NEW U, Core(b, U), NEW x \in Handles, NEW name \in Names,
         NEW c, c = request_new(b, x, name)
  PROVE  \E r : NewFields(b, c, x, r)
<1>1. /\ NetTyped(b) /\ DOMAIN b = Fields /\ b.req \in [Handles -> Request]
      /\ b.servers \in Seq(Servers) /\ Distinct(b.servers) /\ b.draw \in Seq(Ids) /\ b.draw # <<>>
  BY DEF Core, NetTyped, ListsOK
<1>2. CASE b.ninflight < b.max_inflight
  <2> DEFINE t == AfterPick(b)
             n == nameserver_pick(b)
             id == transaction_id_pick(b)
             r == NewOne(name, n, id)
  <2>1. c = [SetTransId(t, x, id) EXCEPT !.req[x] = r]
    BY <1>2 DEF request_new, NewOne
  <2>2. Turned(b, t) /\ n \in Servers \cup {None} /\ (n # None => Lists(b.servers, n) /\ n \in Servers)
    BY PickFacts
  <2>3. n = None => b.servers = <<>>
    BY PickFacts, NoneAssumption
  <2>4. Picks(b, id)
    BY <1>1, PickedIdIsFresh
  <2> HIDE DEF t, n, id
  <2>5. DOMAIN t = Fields /\ t.req = b.req /\ t.draw = b.draw
    BY <2>2 DEF Turned, Changes, Fields
  <2>6. c.draw = IF Len(t.draw) > 1 THEN Tail(t.draw) ELSE t.draw
    BY <2>1, <2>5 DEF SetTransId, Fields
  <2>7. c.draw \in Seq(Ids) /\ c.draw # <<>>
    BY <1>1, <2>5, <2>6, DrawFacts
  <2>8. Changes(t, c, {"req", "draw"})
    BY <2>1, <2>5 DEF SetTransId, Changes, Fields
  <2>9. c.req = [b.req EXCEPT ![x] = r]
    <3>1. c.req = [[t.req EXCEPT ![x] = [t.req[x] EXCEPT !.trans_id = id]] EXCEPT ![x] = r]
      BY <2>1, <2>5 DEF SetTransId, Fields
    <3> QED BY <1>1, <2>5, <3>1
  <2>10. c.servers = t.servers
    BY <2>8 DEF Changes, Fields
  <2>11. Changes(b, c, {"servers", "dangling", "draw", "req"})
    BY <2>2, <2>8 DEF Turned, Changes
  <2>12. TurnedServers(b, c)
    BY <2>2, <2>10 DEF Turned, TurnedServers
  <2>13. id \in 0 .. NIds
    BY <2>4, LimitAssumption DEF Picks, Ids
  <2>14. r \in Request /\ ~r.timeout /\ r.ns = n /\ r.trans_id = id
    BY <2>2, <2>13, NewOneFacts
  <2> HIDE DEF r
  <2>15. NewRequest(b, r)
    BY <2>2, <2>3, <2>4, <2>14 DEF NewRequest
  <2> QED BY <2>7, <2>9, <2>11, <2>12, <2>15 DEF NewFields
<1>3. CASE ~(b.ninflight < b.max_inflight)
  <2> DEFINE r == NewOne(name, None, NIds)
  <2>1. c = [b EXCEPT !.req[x] = [NoRequest EXCEPT !.name = name]]
    BY <1>3 DEF request_new
  <2>2. r = [NoRequest EXCEPT !.name = name]
    BY NewOnePlain
  <2>3. c = [b EXCEPT !.req[x] = r]
    BY <2>1, <2>2
  <2>4. NIds \in 0 .. NIds
    BY LimitAssumption
  <2>5. r \in Request /\ ~r.timeout /\ r.ns = None
    BY <2>4, NewOneFacts
  <2> HIDE DEF r
  <2>6. Changes(b, c, {"servers", "dangling", "draw", "req"})
    BY <1>1, <2>3 DEF Changes, Fields
  <2>7. c.req = [b.req EXCEPT ![x] = r] /\ c.draw = b.draw /\ c.servers = b.servers
    BY <1>1, <2>3 DEF Fields
  <2>8. TurnedServers(b, c)
    BY <1>1, <2>7 DEF TurnedServers
  <2>9. NewRequest(b, r)
    BY <1>3, <2>5 DEF NewRequest
  <2> QED BY <1>1, <2>6, <2>7, <2>8, <2>9 DEF NewFields
<1> QED BY <1>2, <1>3

\* The request in hand is a new one.
NewMade(b, c, x, r) ==
  /\ Core(c, {x}) /\ Calm(b, c) /\ TurnedServers(b, c) /\ NewRequest(b, r)
  /\ c.inflight = b.inflight /\ c.waiting = b.waiting /\ c.ns = b.ns /\ c.req[x] = r
  /\ \A y \in Handles : y # x => c.req[y] = b.req[y]
  /\ Watched(b, {}) => Watched(c, {})

\* The part of request_new that turns the ring of servers.
NewTurned(b, t, c) ==
  /\ Turned(b, t) /\ Changes(t, c, {"req", "draw"}) /\ t.req = b.req /\ t.servers = c.servers

LEMMA NewTurns ==
  ASSUME NEW b, NEW U, Core(b, U), NEW x, NEW c, NEW r, NewFields(b, c, x, r),
         NEW t, t = [b EXCEPT !.servers = c.servers, !.dangling = c.dangling]
  PROVE  NewTurned(b, t, c)
<1>1. DOMAIN b = Fields /\ DOMAIN c = Fields /\ b.servers \in Seq(Servers)
  BY DEF Core, NetTyped, NewFields, Changes
<1>2. Changes(b, t, {"servers", "dangling"})
  BY <1>1 DEF Changes, Fields
<1>3. t.servers = c.servers /\ t.req = b.req /\ t.dangling = c.dangling
  BY <1>1 DEF Fields
<1>4. Turned(b, t)
  BY <1>2, <1>3 DEF Turned, TurnedServers, NewFields
<1>5. ASSUME NEW f \in Fields, f # "req", f # "draw" PROVE c[f] = t[f]
  <2>1. CASE f \in {"servers", "dangling"}
    BY <1>3, <2>1
  <2>2. CASE f \notin {"servers", "dangling"}
    <3>1. t[f] = b[f]
      BY <1>2, <2>2 DEF Changes
    <3>2. c[f] = b[f]
      BY <1>5, <2>2 DEF NewFields, Changes
    <3> QED BY <3>1, <3>2
  <2> QED BY <2>1, <2>2
<1>6. Changes(t, c, {"req", "draw"})
  BY <1>1, <1>5 DEF Changes
<1> QED BY <1>3, <1>4, <1>6 DEF NewTurned

LEMMA RequestNewMade ==
  ASSUME NEW b, NEW x \in Handles, Core(b, {x}), NEW name \in Names,
         NEW c, c = request_new(b, x, name)
  PROVE  \E r : NewMade(b, c, x, r)
<1>1. PICK r : NewFields(b, c, x, r)
  BY RequestNewFields
<1> DEFINE t == [b EXCEPT !.servers = c.servers, !.dangling = c.dangling]
<1>2. NewTurned(b, t, c)
  BY <1>1, NewTurns
<1> HIDE DEF t
<1>3. /\ Turned(b, t) /\ Changes(t, c, {"req", "draw"}) /\ t.req = b.req /\ t.servers = c.servers
  BY <1>2 DEF NewTurned
<1>4. /\ Core(t, {x}) /\ Kept(b, t) /\ SameQueues(b, t) /\ t.ns = b.ns /\ Moved(b, t, {x})
  BY <1>3, TurnedKeeps, TurnedMoved
<1>5. \A n : Lists(t.servers, n) <=> Lists(b.servers, n)
  BY <1>3 DEF Turned
<1>6. SetsRequest(t, c, x, r)
  BY <1>1, <1>3, <1>5 DEF SetsRequest, NewFields, NewRequest
<1>7. RequestSet(t, c, {x}, x, r)
  BY <1>4, <1>6, SetRequestKeeps
<1>8. Calm(b, t) /\ Calm(t, c)
  BY <1>4, <1>7, KeptCalm DEF RequestSet
<1>9. Calm(b, c)
  BY <1>8, CalmTwice
<1>10. Watched(b, {}) => Watched(t, {})
  BY <1>4, SteadyWatched DEF Moved
<1>11. TurnedServers(b, c) /\ NewRequest(b, r)
  BY <1>1 DEF NewFields
<1>12. NewMade(b, c, x, r)
  BY <1>3, <1>4, <1>7, <1>9, <1>10, <1>11 DEF NewMade, RequestSet, SameQueues
<1> QED BY <1>12


\* A change of handles, and of what no list or count depends on.
HandleFields == {"max_inflight", "probes", "hnd", "search", "global", "deferred", "told", "asked",
                 "net", "faults", "config", "suspended", "halfFreed", "dangling", "freed"}
HandlesChange(b, c, U, V) ==
  /\ Changes(b, c, HandleFields) /\ c.hnd \in [Handles -> Handle] /\ U \subseteq V
  /\ \A x \in V \ U : ~Lists(b.inflight, x) /\ ~Lists(b.waiting, x)
  /\ \A x \in Handles \ V : c.hnd[x].current_req = b.hnd[x].current_req
  /\ \A x \in Handles : Lists(b.inflight, x) /\ SearchedOn(b, x) => SearchedOn(c, x)

HandlesFields(b, c) ==
  /\ DOMAIN c = Fields /\ c.servers = b.servers /\ c.good = b.good /\ c.ns = b.ns
  /\ c.inflight = b.inflight /\ c.waiting = b.waiting /\ c.ninflight = b.ninflight
  /\ c.nwaiting = b.nwaiting /\ c.req = b.req /\ c.draw = b.draw

LEMMA HandlesHaveFields ==
  ASSUME NEW b, NEW c, Changes(b, c, HandleFields)
  PROVE  HandlesFields(b, c)
BY DEF Changes, Fields, HandleFields, HandlesFields

LEMMA HandlesKeepCore ==
  ASSUME NEW b, NEW U, NEW V, Core(b, U), NEW c, HandlesChange(b, c, U, V)
  PROVE  Core(c, V)
<1>1. HandlesFields(b, c)
  BY HandlesHaveFields DEF HandlesChange
<1>2. NetTyped(c) /\ c.hnd \in [Handles -> Handle]
  BY <1>1 DEF Core, NetTyped, HandlesFields, HandlesChange
<1>3. UpServers(c) = UpServers(b)
  BY <1>1 DEF UpServers, HandlesFields
<1>4. \A n \in Servers : Load(c, n) = Load(b, n)
  BY <1>1 DEF Load, HandlesFields
<1>5. CountsOK(c)
  BY <1>1, <1>3, <1>4 DEF Core, CountsOK, HandlesFields
<1>6. IdsOK(c)
  <2>1. SUFFICES ASSUME NEW x \in Handles, NEW y \in Handles, Lists(c.inflight, x), Lists(c.inflight, y),
                        c.req[x].trans_id = c.req[y].trans_id
                 PROVE  x = y \/ SearchedOn(c, x) \/ SearchedOn(c, y)
    BY DEF IdsOK
  <2>2. Lists(b.inflight, x) /\ Lists(b.inflight, y) /\ b.req[x].trans_id = b.req[y].trans_id
    BY <1>1, <2>1 DEF HandlesFields
  <2>3. x = y \/ SearchedOn(b, x) \/ SearchedOn(b, y)
    BY <2>2 DEF Core, IdsOK
  <2> QED BY <2>2, <2>3 DEF HandlesChange
<1>7. ASSUME NEW x \in Handles PROVE ListedOK(c, x, V)
  <2>1. ListedOK(b, x, U)
    BY DEF Core, ListsOK
  <2>2. x \in V => ~Lists(b.inflight, x) /\ ~Lists(b.waiting, x)
    <3>1. CASE x \in U
      BY <2>1, <3>1 DEF ListedOK
    <3>2. CASE x \notin U
      BY <3>2 DEF HandlesChange
    <3> QED BY <3>1, <3>2
  <2>3. x \notin V => x \notin U /\ c.hnd[x].current_req = b.hnd[x].current_req
    BY DEF HandlesChange
  <2> QED BY <1>1, <2>1, <2>2, <2>3 DEF ListedOK, HandlesFields
<1>8. ListsOK(c, V)
  BY <1>1, <1>7 DEF Core, ListsOK, HandlesFields
<1> QED BY <1>2, <1>5, <1>6, <1>8 DEF Core

LEMMA HandlesKeepWatch ==
  ASSUME NEW b, NEW c, Changes(b, c, HandleFields), NEW X, Watched(b, X)
  PROVE  Watched(c, X)
<1>1. HandlesFields(b, c)
  BY HandlesHaveFields
<1> QED BY <1>1 DEF Watched, HandlesFields, SomeWaits

\* One handle is given new contents.
PutsHandle(b, c, x, h) == c.hnd = [b.hnd EXCEPT ![x] = h] /\ h \in Handle

HandlePut(b, c, x, h) ==
  /\ c.hnd \in [Handles -> Handle] /\ c.hnd[x] = h
  /\ \A y \in Handles : y # x => c.hnd[y] = b.hnd[y]

LEMMA HandleIsPut ==
  ASSUME NEW b, b.hnd \in [Handles -> Handle], NEW c, NEW x \in Handles, NEW h, PutsHandle(b, c, x, h)
  PROVE  HandlePut(b, c, x, h)
BY DEF PutsHandle, HandlePut

\* A handle without a request is taken in hand, or let go again.
LEMMA TakeInHand ==
  ASSUME NEW b, NEW U \in SUBSET Handles, Core(b, U), NEW x \in Handles, ~Lists(b.inflight, x), ~Lists(b.waiting, x),
         NEW c, Changes(b, c, HandleFields), NEW h, PutsHandle(b, c, x, h)
  PROVE  Core(c, U \cup {x}) /\ (x \notin U /\ ~h.current_req => Core(c, U))
<1>1. b.hnd \in [Handles -> Handle] /\ ListedOK(b, x, U)
  BY DEF Core, ListsOK
<1>2. HandlePut(b, c, x, h)
  BY <1>1, HandleIsPut
<1>3. \A y \in Handles : y # x /\ SearchedOn(b, y) => SearchedOn(c, y)
  BY <1>2 DEF SearchedOn, HandlePut
<1>4. HandlesChange(b, c, U, U \cup {x})
  BY <1>2, <1>3 DEF HandlesChange, HandlePut
<1>5. ASSUME x \notin U, ~h.current_req PROVE HandlesChange(b, c, U, U)
  <2>1. h.current_req \in BOOLEAN /\ b.hnd[x].current_req \in BOOLEAN /\ h \in Handle
    BY <1>1 DEF Handle, PutsHandle
  <2>2. ~b.hnd[x].current_req
    BY <1>1, <1>5 DEF ListedOK
  <2>3. c.hnd[x].current_req = b.hnd[x].current_req
    BY <1>2, <1>5, <2>1, <2>2 DEF HandlePut
  <2> QED BY <1>2, <1>3, <2>3 DEF HandlesChange, HandlePut
<1>6. Core(c, U \cup {x})
  BY <1>4, HandlesKeepCore
<1> QED BY <1>5, <1>6, HandlesKeepCore


\* A handle that takes part in nothing gets a request.
LEMMA AddPend ==
  ASSUME NEW b, NEW V, Pend(b, V), NEW c, NEW x \in Handles, NEW h, HandlePut(b, c, x, h),
         ~Active(b.hnd[x]), ~h.pending_cb, x \in Users => x \notin b.told,
         c.deferred = b.deferred, c.told = b.told
  PROVE  Pend(c, V)
<1>1. ~b.hnd[x].pending_cb /\ ~b.hnd[x].current_req /\ c.hnd[x] = h
  BY DEF Active, HandlePut
<1>2. x \notin V /\ V \subseteq Handles
  BY <1>1 DEF Pend
<1>3. \A y \in Handles : y # x => c.hnd[y] = b.hnd[y]
  BY DEF HandlePut
<1>4. \A y \in Handles : HasResult(c, y) <=> HasResult(b, y)
  BY DEF HasResult
<1>5. \A y \in Handles : c.hnd[y].pending_cb <=> HasResult(c, y)
  BY <1>1, <1>3, <1>4 DEF Pend
<1>6. \A y \in Handles : c.hnd[y].pending_cb /\ c.hnd[y].current_req => y \in V
  BY <1>1, <1>3 DEF Pend
<1>7. \A y \in V : c.hnd[y].current_req
  BY <1>2, <1>3 DEF Pend
<1>8. \A y \in Users : y \in c.told => ~Active(c.hnd[y])
  <2>1. \A y \in Users : y \in Handles
    BY DEF Handles
  <2> QED BY <1>3, <2>1 DEF Pend
<1> QED BY <1>2, <1>5, <1>6, <1>7, <1>8 DEF Pend

LEMMA EasedSame ==
  ASSUME NEW b, NEW c, HandlesFields(b, c)
  PROVE  ServersEased(b, c)
BY DEF HandlesFields, ServersEased, Eased

LEMMA AddedGood ==
  ASSUME NEW c, NEW d, NEW Z, Pend(c, {}), Rest(c, {}, Z), ~DisableWhenInactive => DownOK(c, {}, Z),
         c.ns \in [Servers -> Server], c.servers \in Seq(Servers), Core(d, {}), RefsOK(d),
         d.max_inflight \in 1 .. 5, ServersEased(c, d), d.hnd = c.hnd, d.deferred = c.deferred,
         d.told = c.told, d.asked = c.asked, d.suspended = c.suspended,
         ~DisableWhenInactive => Watched(d, {}), c.servers = <<>> => c.suspended,
         d.inflight # <<>> \/ c.servers = <<>>
  PROVE  Good(d, {}, Z, {})
<1>1. d.ns \in [Servers -> Server] /\ d.servers \in Seq(Servers)
  BY DEF Core, NetTyped
<1>2. Rest(d, {}, Z)
  BY <1>1, EasedRest
<1>3. Pend(d, {})
  BY DEF Pend, HasResult
<1>4. ~DisableWhenInactive => DownOK(d, {}, Z)
  BY EasedDown
<1>5. (d.servers = <<>>) <=> (c.servers = <<>>)
  <2>1. \A n \in Servers : Lists(d.servers, n) <=> Lists(c.servers, n)
    BY DEF ServersEased
  <2>2. \A n : Lists(d.servers, n) \/ Lists(c.servers, n) => n \in Servers
    BY <1>1, MembersFacts
  <2> QED BY <1>1, <2>1, <2>2, MembersFacts
<1>6. FedOK(d)
  BY <1>5 DEF FedOK
<1> QED BY <1>2, <1>3, <1>4, <1>5, <1>6 DEF Good, Sound

\* A handle that had no search domains may get those of the base.
HoldsOn(b, g, x, h) ==
  /\ HandlePut(b, g, x, h) /\ b.hnd[x].search_state = None /\ g.global = b.global
  /\ x \notin Dotted => h.search_index \in Nat
  /\ \/ h.search_state = None /\ g.search = b.search
     \/ /\ h.search_state \in States /\ h.search_state = b.global /\ x \in Users /\ h.current_req
        /\ g.search = [b.search EXCEPT ![b.global] =
                         [b.search[b.global] EXCEPT !.refcount = @ + 1]]

LEMMA NoneIsNot ==
  /\ None \notin Servers /\ None \notin States /\ None \notin Handles /\ None \notin Domains
  /\ None \notin Probes /\ None \notin Users
BY NoneAssumption DEF States, Handles

LEMMA HoldRefs ==
  ASSUME NEW b, RefsOK(b), NEW g, NEW x \in Handles, NEW h, HoldsOn(b, g, x, h)
  PROVE  RefsOK(g)
<1>1. /\ b.search \in [States -> SearchState] /\ g.hnd[x] = h /\ g.global = b.global
      /\ \A y \in Handles : y # x => g.hnd[y] = b.hnd[y]
  BY DEF RefsOK, HoldsOn, HandlePut
<1>2. CASE h.search_state = None /\ g.search = b.search
  <2>1. \A k \in States : Holders(g, k) = Holders(b, k)
    BY <1>1, <1>2, NoneIsNot DEF Holders, HoldsOn
  <2>2. \A k \in States : CountedOK(g, k)
    BY <1>1, <1>2, <2>1 DEF RefsOK, CountedOK
  <2> QED BY <1>1, <1>2, <2>2 DEF RefsOK, HoldsOn
<1>3. CASE h.search_state # None
  <2>1. PICK k : k = b.global
    OBVIOUS
  <2>2. /\ k \in States /\ h.search_state = k /\ x \in Users /\ h.current_req
        /\ g.search = [b.search EXCEPT ![k] = [b.search[k] EXCEPT !.refcount = @ + 1]]
    BY <1>3, <2>1 DEF HoldsOn
  <2>3. PICK s : s = [b.search[k] EXCEPT !.refcount = @ + 1]
    OBVIOUS
  <2>4. b.search[k] \in SearchState
    BY <1>1, <2>2
  <2>5. s \in SearchState /\ s.refcount = b.search[k].refcount + 1
    BY <2>3, <2>4 DEF SearchState
  <2>6. g.search = [b.search EXCEPT ![k] = s]
    BY <2>2, <2>3
  <2>7. g.search \in [States -> SearchState] /\ g.search[k] = s
        /\ \A j \in States : j # k => g.search[j] = b.search[j]
    BY <1>1, <2>2, <2>5, <2>6
  <2>8. ASSUME NEW j \in States PROVE CountedOK(g, j)
    <3>1. CASE j = k
      <4>1. Holders(g, k) = Holders(b, k) \cup {x}
        BY <1>1, <2>2 DEF Holders, HoldsOn
      <4>2. x \notin Holders(b, k)
        BY <2>2, NoneIsNot DEF Holders, HoldsOn
      <4>3. Cardinality(Holders(g, k)) = Cardinality(Holders(b, k)) + 1
        BY <4>1, <4>2, HoldersFinite, OneMore
      <4>4. CountedOK(b, k)
        BY <2>2 DEF RefsOK
      <4>5. Cardinality(Holders(b, k)) \in Nat
        BY HoldersFinite
      <4> QED BY <1>1, <2>1, <2>5, <2>7, <3>1, <4>3, <4>4, <4>5 DEF CountedOK
    <3>2. CASE j # k
      <4>1. Holders(g, j) = Holders(b, j)
        BY <1>1, <2>2, <3>2, NoneIsNot DEF Holders, HoldsOn
      <4> QED BY <1>1, <2>7, <3>2, <4>1 DEF CountedOK, RefsOK
    <3> QED BY <3>1, <3>2
  <2>9. g.global \in States /\ g.global # None
    BY <1>1, <2>1, <2>2, NoneIsNot
  <2>10. \A y \in Handles : g.hnd[y].search_state # None => y \in Users /\ g.hnd[y].current_req
    BY <1>1, <2>2 DEF RefsOK
  <2>11. ASSUME NEW y \in Handles, y \notin Dotted PROVE g.hnd[y].search_index \in Nat
    <3>1. CASE y = x
      BY <1>1, <2>11, <3>1 DEF HoldsOn
    <3>2. CASE y # x
      <4>1. b.hnd[y].search_index \in Nat
        BY <2>11 DEF RefsOK
      <4>2. g.hnd[y] = b.hnd[y]
        BY <1>1, <3>2
      <4> QED BY <4>1, <4>2, Zenon
    <3> QED BY <3>1, <3>2
  <2> QED BY <2>7, <2>8, <2>9, <2>10, <2>11 DEF RefsOK
<1> QED BY <1>2, <1>3, NoneIsNot DEF HoldsOn


Fresh == [NewHandle EXCEPT !.current_req = TRUE]

LEMMA NewHandleFacts ==
  /\ NewHandle \in Handle /\ ~NewHandle.current_req /\ ~NewHandle.pending_cb
  /\ NewHandle.ns = None /\ NewHandle.search_state = None /\ NewHandle.search_index = 0
BY DEF NewHandle, Handle

LEMMA FreshFacts ==
  ASSUME NEW h, h = Fresh
  PROVE  /\ h \in Handle /\ h.current_req /\ ~h.pending_cb
         /\ h.ns = None /\ h.search_state = None /\ h.search_index = 0
<1>1. h = [current_req |-> TRUE, pending_cb |-> FALSE, ns |-> None, search_index |-> 0,
           search_state |-> None]
  BY DEF Fresh, NewHandle
<1> QED BY <1>1 DEF Handle

\* A new request is submitted.
NewSubmitted(b, g, d) ==
  /\ Core(d, {}) /\ ServersEased(b, d) /\ Same(g, d, ClientFields)
  /\ Watched(b, {}) => Watched(d, {})
  /\ d.inflight # <<>> \/ b.servers = <<>>

LEMMA SubmitNew ==
  ASSUME NEW b, NEW x \in Handles, Core(b, {x}), b.max_inflight \in 1 .. 5, NEW c, NEW r,
         NewMade(b, c, x, r), NEW g, Changes(c, g, HandleFields), NEW h, PutsHandle(c, g, x, h),
         h.current_req, NEW send \in [Servers -> Sent], NEW d, d = request_submit(g, x, send)
  PROVE  NewSubmitted(b, g, d)
<1>1. Core(c, {x}) /\ Calm(b, c) /\ TurnedServers(b, c) /\ NewRequest(b, r)
      /\ c.inflight = b.inflight /\ c.waiting = b.waiting /\ c.ns = b.ns /\ c.req[x] = r
      /\ (\A y \in Handles : y # x => c.req[y] = b.req[y]) /\ (Watched(b, {}) => Watched(c, {}))
  BY DEF NewMade
<1>2. ~Lists(c.inflight, x) /\ ~Lists(c.waiting, x)
  BY <1>1 DEF Core, ListsOK, ListedOK
<1>3. Core(g, {x})
  <2>1. {x} \cup {x} = {x} /\ {x} \in SUBSET Handles
    OBVIOUS
  <2>2. Core(g, {x} \cup {x})
    BY <1>1, <1>2, <2>1, TakeInHand
  <2> QED BY <2>1, <2>2
<1>4. HandlesFields(c, g)
  BY HandlesHaveFields
<1>5. g.hnd[x] = h /\ g.hnd[x].current_req
  <2>1. c.hnd \in [Handles -> Handle]
    BY <1>1 DEF Core
  <2>2. HandlePut(c, g, x, h)
    BY <2>1, HandleIsPut
  <2> QED BY <2>2 DEF HandlePut
<1>6. g.req[x] = r
  BY <1>1, <1>4 DEF HandlesFields
<1>7. g.req[x].ns # None => MayJoin(g, x)
  <2>1. ASSUME r.ns # None, NEW y \in Handles, Lists(g.inflight, y)
        PROVE  g.req[y].trans_id # g.req[x].trans_id
    <3>1. Picks(b, r.trans_id)
      BY <1>1, <2>1 DEF NewRequest
    <3>2. Lists(b.inflight, y) /\ y # x
      BY <1>1, <1>2, <1>4, <2>1 DEF HandlesFields
    <3>3. g.req[y] = b.req[y]
      BY <1>1, <1>4, <3>2 DEF HandlesFields
    <3> QED BY <1>6, <3>1, <3>2, <3>3 DEF Picks
  <2> QED BY <1>6, <2>1 DEF MayJoin
<1>8. Submitted(g, d, x)
  BY <1>3, <1>5, <1>7, SubmitKeeps
<1>9. ServersEased(b, d)
  <2>1. ServersEased(b, c)
    BY <1>1, CalmEased
  <2>2. ServersEased(c, g)
    BY <1>4, EasedSame
  <2>3. ServersEased(g, d)
    BY <1>8, CalmEased DEF Submitted
  <2>4. ServersEased(b, g)
    BY <2>1, <2>2, EasedTwice
  <2> QED BY <2>3, <2>4, EasedTwice
<1>10. Watched(b, {}) => Watched(d, {})
  <2>1. Watched(c, {}) => Watched(g, {})
    BY HandlesKeepWatch
  <2> QED BY <1>1, <1>8, <2>1 DEF Submitted
<1>11. d.inflight # <<>> \/ b.servers = <<>>
  <2>1. d.inflight \in Seq(Handles)
    BY <1>8 DEF Submitted, Core, NetTyped
  <2>2. CASE Lists(d.inflight, x)
    BY <2>1, <2>2, MembersFacts
  <2>3. CASE ~Lists(d.inflight, x)
    <3>1. r.ns = None /\ d.inflight = b.inflight
      BY <1>1, <1>4, <1>6, <1>8, <2>3 DEF Submitted, HandlesFields
    <3>2. b.servers = <<>> \/ ~(b.ninflight < b.max_inflight)
      BY <1>1, <3>1 DEF NewRequest
    <3>3. b.ninflight = Len(b.inflight) /\ b.inflight \in Seq(Handles)
      BY DEF Core, ListsOK, NetTyped
    <3>4. ~(b.ninflight < b.max_inflight) => b.inflight # <<>>
      BY <3>3
    <3> QED BY <3>1, <3>2, <3>4
  <2> QED BY <2>2, <2>3
<1>12. Same(g, d, ClientFields)
  BY <1>8 DEF Submitted, Calm
<1> QED BY <1>8, <1>9, <1>10, <1>11, <1>12 DEF NewSubmitted, Submitted


LEMMA RefsSame ==
  ASSUME NEW b, RefsOK(b), NEW c, c.hnd = b.hnd, c.search = b.search, c.global = b.global
  PROVE  RefsOK(c)
<1>1. \A k \in States : Holders(c, k) = Holders(b, k)
  BY DEF Holders
<1>2. \A k \in States : CountedOK(c, k)
  BY <1>1 DEF CountedOK, RefsOK
<1> QED BY <1>2 DEF RefsOK

LEMMA HandleKinds ==
  /\ \A x \in Users : x \in Handles /\ x \notin Probes
  /\ \A x \in Probes : x \in Handles /\ x \notin Users
BY LimitAssumption DEF Handles

\* A request of the program: no server and no probe is concerned.
LEMMA AddUserRest ==
  ASSUME NEW b, NEW V, NEW Z, Rest(b, V, Z), NEW x \in Users, x \in b.asked, NEW c, NEW h,
         HandlePut(b, c, x, h), ~Active(b.hnd[x]), h.current_req, h.ns = None,
         c.ns = b.ns, c.servers = b.servers, c.deferred = b.deferred, c.asked = b.asked,
         c.told = b.told, b.ns \in [Servers -> Server]
  PROVE  Rest(c, V, Z)
<1>1. c.hnd[x] = h /\ \A y \in Handles : y # x => c.hnd[y] = b.hnd[y]
  BY DEF HandlePut
<1>2. \A y \in Probes : c.hnd[y] = b.hnd[y]
  BY <1>1, HandleKinds
<1>3. \A y \in Handles : ~Active(c.hnd[y]) => c.hnd[y] = NewHandle
  BY <1>1 DEF Rest, Active
<1>4. \A y \in Users : /\ c.hnd[y].ns = None
                       /\ y \notin c.asked => ~Active(c.hnd[y]) /\ y \notin c.told
  BY <1>1, HandleKinds DEF Rest
<1>5. ASSUME NEW n \in Servers, Lists(c.servers, n)
      PROVE  ProbeOfServer(c, n) /\ (c.ns[n].timeout => ~c.ns[n].state)
  <2>1. ProbeOfServer(b, n) /\ (b.ns[n].timeout => ~b.ns[n].state)
    BY <1>5 DEF Rest
  <2>2. b.ns[n].probe \in Probes \cup {None}
    BY DEF Server
  <2> QED BY <1>2, <2>1, <2>2 DEF ProbeOfServer
<1>6. ASSUME NEW y \in Probes, c.hnd[y].current_req, y \notin V PROVE ProbeIsOut(c, y)
  <2>1. ProbeIsOut(b, y)
    BY <1>2, <1>6 DEF Rest
  <2> QED BY <1>2, <2>1 DEF ProbeIsOut
<1>7. \A y, z \in Probes : c.hnd[y].ns = c.hnd[z].ns /\ c.hnd[y].ns # None => y = z
  BY <1>2 DEF Rest
<1>8. \A y \in Probes : Active(c.hnd[y]) => c.hnd[y].ns # None
  BY <1>2 DEF Rest
<1>9. \A i \in 1 .. Len(c.deferred), n \in Servers :
        c.deferred[i][2] = "CANCEL" /\ Lists(c.servers, n) /\ n \notin Z
        => c.ns[n].probe # c.deferred[i][1]
  BY DEF Rest
<1> QED BY <1>3, <1>4, <1>5, <1>6, <1>7, <1>8, <1>9 DEF Rest

\* What is added for a user x with a new request.
UserAsks(b, d, x, h) ==
  /\ Same(b, d, OtherFields) /\ PutsHandle(b, d, x, h)
  /\ h.current_req /\ ~h.pending_cb /\ h.ns = None /\ RefsOK(d)

AsksFor(b, d, x) == \E h : UserAsks(b, d, x, h)

LEMMA UserAdded ==
  ASSUME NEW b, Good(b, {}, {}, {}), NEW x \in Users, x \in b.asked, x \notin b.told,
         b.hnd[x] = NewHandle, NEW a, HandlesFields(b, a), NEW g, NEW d, NewSubmitted(a, g, d),
         Watched(b, {}) => Watched(a, {}), NEW h, UserAsks(b, d, x, h)
  PROVE  Good(d, {}, {}, {})
<1>1. x \in Handles /\ x \notin Probes
  BY HandleKinds
<1>2. PICK e : e = [b EXCEPT !.hnd = d.hnd]
  OBVIOUS
<1>3. DOMAIN b = Fields /\ b.hnd \in [Handles -> Handle] /\ b.ns \in [Servers -> Server]
      /\ b.servers \in Seq(Servers)
  BY DEF Good, Sound, Core, NetTyped
<1>4. /\ e.hnd = d.hnd /\ e.ns = b.ns /\ e.servers = b.servers /\ e.deferred = b.deferred
      /\ e.told = b.told /\ e.asked = b.asked /\ e.suspended = b.suspended
  BY <1>2, <1>3 DEF Fields
<1>5. HandlePut(b, d, x, h)
  BY <1>1, <1>3, HandleIsPut DEF UserAsks
<1>6. HandlePut(b, e, x, h)
  BY <1>4, <1>5 DEF HandlePut
<1>7. ~Active(b.hnd[x]) /\ h.current_req /\ ~h.pending_cb /\ h.ns = None
  BY NewHandleFacts DEF Active, UserAsks
<1>8. Pend(b, {}) /\ Rest(b, {}, {})
  BY DEF Good, Sound
<1>9. Pend(e, {})
  BY <1>1, <1>4, <1>6, <1>7, <1>8, AddPend
<1>10. Rest(e, {}, {})
  BY <1>3, <1>4, <1>6, <1>7, <1>8, AddUserRest
<1>11. ~DisableWhenInactive => DownOK(e, {}, {})
  <2>1. \A y \in Probes : e.hnd[y] = b.hnd[y]
    BY <1>1, <1>6, HandleKinds DEF HandlePut
  <2>2. \A y \in Probes : ProbeBusy(e, y, {}) <=> ProbeBusy(b, y, {})
    BY <1>4, <2>1 DEF ProbeBusy, LiveResult
  <2> QED BY <1>4, <2>1, <2>2 DEF DownOK, Good
<1>12. Core(d, {}) /\ ServersEased(a, d) /\ (Watched(a, {}) => Watched(d, {}))
       /\ (d.inflight # <<>> \/ a.servers = <<>>)
  BY DEF NewSubmitted
<1>13. ServersEased(e, d)
  BY <1>4, <1>12 DEF ServersEased, HandlesFields
<1>14. Same(b, d, OtherFields)
  BY DEF UserAsks
<1>15. /\ d.max_inflight = b.max_inflight /\ d.deferred = b.deferred /\ d.told = b.told
       /\ d.asked = b.asked /\ d.suspended = b.suspended
  BY <1>14 DEF Same, OtherFields, ClientFields
<1>16. d.max_inflight \in 1 .. 5 /\ (e.servers = <<>> => e.suspended)
  BY <1>4, <1>15 DEF Good, Sound
<1>17. ~DisableWhenInactive => Watched(d, {})
  BY <1>12 DEF Good
<1>18. d.inflight # <<>> \/ e.servers = <<>>
  BY <1>4, <1>12 DEF HandlesFields
<1>19. RefsOK(d)
  BY DEF UserAsks
<1> QED BY <1>3, <1>4, <1>9, <1>10, <1>11, <1>12, <1>13, <1>15, <1>16, <1>17, <1>18, <1>19, AddedGood


\* The names that are looked up.
LEMMA NameFacts ==
  /\ \A x \in Handles : Raw(x) \in Names
  /\ Raw(None) \in Names
  /\ \A x \in Handles : \A d \in Domains : <<x, d>> \in Names /\ <<x, d>> # Raw(x)
BY NoneIsNot DEF Names, Raw

LEMMA MadeName ==
  ASSUME NEW b, RefsOK(b), NEW k \in States, NEW x \in Handles, NEW n \in Nat,
         n < Len(b.search[k].domains)
  PROVE  search_make_new(b, k, n, x) \in Names /\ search_make_new(b, k, n, x) # Raw(x)
<1>1. b.search[k].domains \in Seq(Domains)
  BY DEF RefsOK, SearchState
<1>2. PICK s : s = b.search[k].domains
  OBVIOUS
<1>3. s \in Seq(Domains) /\ n + 1 \in 1 .. Len(s)
  BY <1>1, <1>2
<1>4. s[n + 1] \in Domains
  BY <1>3
<1>5. search_make_new(b, k, n, x) = <<x, s[n + 1]>>
  BY <1>2 DEF search_make_new
<1> QED BY <1>4, <1>5, NameFacts

\* The request is in hand: its handle is new.
TakesUser(b, a, x) ==
  /\ Core(a, {x}) /\ RefsOK(a) /\ HandlesFields(b, a) /\ Changes(b, a, {"hnd"})
  /\ PutsHandle(b, a, x, Fresh) /\ (Watched(b, {}) => Watched(a, {}))

LEMMA UserInHand ==
  ASSUME NEW b, Core(b, {}), RefsOK(b), NEW x \in Handles, b.hnd[x] = NewHandle,
         NEW a, a = [b EXCEPT !.hnd[x] = Fresh]
  PROVE  TakesUser(b, a, x)
<1>1. DOMAIN b = Fields /\ b.hnd \in [Handles -> Handle] /\ ListedOK(b, x, {})
  BY DEF Core, NetTyped, ListsOK
<1>2. ~Lists(b.inflight, x) /\ ~Lists(b.waiting, x)
  BY <1>1, NewHandleFacts DEF ListedOK
<1>3. Changes(b, a, {"hnd"})
  BY <1>1 DEF Changes, Fields
<1>4. a.hnd = [b.hnd EXCEPT ![x] = Fresh]
  BY <1>1 DEF Fields
<1>5. Changes(b, a, HandleFields)
  BY <1>3 DEF Changes, HandleFields
<1>6. PutsHandle(b, a, x, Fresh)
  BY <1>4, FreshFacts DEF PutsHandle
<1>7. Core(a, {x})
  <2>1. {} \cup {x} = {x} /\ {} \in SUBSET Handles
    OBVIOUS
  <2>2. Core(a, {} \cup {x})
    BY <1>2, <1>5, <1>6, <2>1, TakeInHand
  <2> QED BY <2>1, <2>2
<1>8. a.search = b.search /\ a.global = b.global
  BY <1>3 DEF Changes, Fields
<1>9. HandlePut(b, a, x, Fresh)
  BY <1>1, <1>6, HandleIsPut
<1>10. HoldsOn(b, a, x, Fresh)
  <2>1. Fresh.search_state = None /\ Fresh.search_index = 0 /\ 0 \in Nat
    BY FreshFacts
  <2> QED BY <1>8, <1>9, <2>1, NewHandleFacts DEF HoldsOn
<1>11. RefsOK(a)
  BY <1>10, HoldRefs
<1>12. HandlesFields(b, a) /\ (Watched(b, {}) => Watched(a, {}))
  BY <1>5, HandlesHaveFields, HandlesKeepWatch
<1> QED BY <1>3, <1>6, <1>7, <1>11, <1>12 DEF TakesUser

\* A lookup of the plain name.
LEMMA PlainGood ==
  ASSUME NEW b, Good(b, {}, {}, {}), NEW x \in Users, x \in b.asked, x \notin b.told,
         b.hnd[x] = NewHandle, NEW send \in [Servers -> Sent],
         NEW a, a = [b EXCEPT !.hnd[x] = Fresh],
         NEW d, d = request_submit(request_new(a, x, Raw(x)), x, send)
  PROVE  Good(d, {}, {}, {}) /\ AsksFor(b, d, x)
<1>1. x \in Handles /\ Core(b, {}) /\ RefsOK(b) /\ b.hnd \in [Handles -> Handle] /\ b.max_inflight \in 1 .. 5
  BY HandleKinds DEF Good, Sound, Core
<1>2. TakesUser(b, a, x)
  BY <1>1, UserInHand
<1>3. PICK c : c = request_new(a, x, Raw(x))
  OBVIOUS
<1>4. PICK r : NewMade(a, c, x, r)
  BY <1>1, <1>2, <1>3, NameFacts, RequestNewMade DEF TakesUser
<1>5. Core(c, {x}) /\ Calm(a, c)
  BY <1>4 DEF NewMade
<1>6. Same(b, a, OtherFields) /\ a.search = b.search /\ a.max_inflight = b.max_inflight
  BY <1>2 DEF TakesUser, Changes, Same, OtherFields, ClientFields, Fields
<1>7. c.hnd = a.hnd /\ c.hnd \in [Handles -> Handle]
  BY <1>5 DEF Calm, Same, ClientFields, Core
<1>8. c.hnd = [b.hnd EXCEPT ![x] = Fresh] /\ c.hnd[x] = Fresh
  BY <1>1, <1>2, <1>7 DEF TakesUser, PutsHandle
<1>9. PutsHandle(c, c, x, Fresh)
  BY <1>7, <1>8, FreshFacts DEF PutsHandle
<1>10. Changes(c, c, HandleFields)
  BY <1>5 DEF Changes, Core, NetTyped
<1>11. NewSubmitted(a, c, d)
  <2>1. Fresh.current_req
    BY FreshFacts
  <2> QED BY <1>1, <1>2, <1>3, <1>4, <1>6, <1>9, <1>10, <2>1, SubmitNew DEF TakesUser
<1>12. Same(c, d, ClientFields) /\ Same(a, c, ClientFields)
  BY <1>5, <1>11 DEF NewSubmitted, Calm
<1>13. d.hnd = c.hnd /\ d.search = c.search /\ d.global = c.global
       /\ c.search = a.search /\ c.global = a.global
  BY <1>12 DEF Same, ClientFields
<1>14. RefsOK(d)
  BY <1>2, <1>7, <1>13, RefsSame DEF TakesUser
<1>15. Same(b, d, OtherFields)
  BY <1>6, <1>12 DEF Same, OtherFields
<1>16. PutsHandle(b, d, x, Fresh)
  BY <1>8, <1>13, FreshFacts DEF PutsHandle
<1>17. UserAsks(b, d, x, Fresh)
  BY <1>14, <1>15, <1>16, FreshFacts DEF UserAsks
<1>18. AsksFor(b, d, x)
  BY <1>17 DEF AsksFor
<1> QED BY <1>2, <1>11, <1>17, <1>18, UserAdded DEF TakesUser


\* A handle with a request that walks the search domains of the base.
Searcher(i, k) == [Fresh EXCEPT !.search_index = i, !.search_state = k]

LEMMA SearcherFacts ==
  ASSUME NEW i \in {0, -1}, NEW k \in States, NEW h, h = Searcher(i, k)
  PROVE  /\ h \in Handle /\ h.current_req /\ ~h.pending_cb /\ h.ns = None
         /\ h.search_index = i /\ h.search_state = k
<1>1. h = [current_req |-> TRUE, pending_cb |-> FALSE, ns |-> None, search_index |-> i,
           search_state |-> k]
  BY DEF Searcher, Fresh, NewHandle
<1>2. i \in Nat \cup {-1}
  OBVIOUS
<1> QED BY <1>1, <1>2 DEF Handle

SearchNewFields(c, g, x, k, h) ==
  /\ Changes(c, g, {"hnd", "search"}) /\ g.hnd = [c.hnd EXCEPT ![x] = h]
  /\ g.search = [c.search EXCEPT ![k] = [c.search[k] EXCEPT !.refcount = @ + 1]]

SearchNew(c, x, i, k) == [c EXCEPT !.hnd[x].search_index = i, !.hnd[x].search_state = k,
                                   !.search[k].refcount = @ + 1]

LEMMA SearchNewHasFields ==
  ASSUME NEW c, DOMAIN c = Fields, c.hnd \in [Handles -> Handle], NEW x \in Handles,
         c.search \in [States -> SearchState], NEW k \in States, NEW i,
         c.hnd[x] = Fresh
  PROVE  SearchNewFields(c, SearchNew(c, x, i, k), x, k, Searcher(i, k))
<1> DEFINE g == [c EXCEPT !.hnd[x].search_index = i, !.hnd[x].search_state = k,
                          !.search[k].refcount = @ + 1]
<1>1. Changes(c, g, {"hnd", "search"})
  BY DEF Changes, Fields
<1>2. g.hnd = [c.hnd EXCEPT ![x] = [c.hnd[x] EXCEPT !.search_index = i, !.search_state = k]]
  BY DEF Fields
<1>3. g.search = [c.search EXCEPT ![k] = [c.search[k] EXCEPT !.refcount = @ + 1]]
  BY DEF Fields
<1>4. g = SearchNew(c, x, i, k)
  BY DEF SearchNew
<1> HIDE DEF g
<1> QED BY <1>1, <1>2, <1>3, <1>4 DEF SearchNewFields, Searcher

LEMMA SearchNewGood ==
  ASSUME NEW b, Good(b, {}, {}, {}), NEW x \in Users, x \in b.asked, x \notin b.told,
         b.hnd[x] = NewHandle, HasDomains(b), NEW send \in [Servers -> Sent],
         NEW a, a = [b EXCEPT !.hnd[x] = Fresh],
         NEW d, d = search_request_new(a, x, send)
  PROVE  Good(d, {}, {}, {}) /\ AsksFor(b, d, x)
<1>1. x \in Handles /\ Core(b, {}) /\ RefsOK(b) /\ b.hnd \in [Handles -> Handle] /\ b.max_inflight \in 1 .. 5
  BY HandleKinds DEF Good, Sound, Core
<1>2. TakesUser(b, a, x)
  BY <1>1, UserInHand
<1>3. Same(b, a, OtherFields) /\ a.search = b.search /\ a.max_inflight = b.max_inflight
      /\ a.global = b.global
  BY <1>2 DEF TakesUser, Changes, Same, OtherFields, ClientFields, Fields
<1>4. PICK k : k = a.global
  OBVIOUS
<1>5. k \in States /\ k # None /\ a.search[k].domains # <<>> /\ RefsOK(a)
  <2>1. b.global \in States \cup {None} /\ b.global # None
    BY <1>1 DEF RefsOK, HasDomains
  <2> QED BY <1>2, <1>3, <1>4, <2>1 DEF TakesUser, HasDomains
<1>6. PICK i : i = IF x \in Dotted THEN -1 ELSE 0
  OBVIOUS
<1>7. PICK name : name = IF x \in Dotted THEN Raw(x) ELSE search_make_new(a, k, 0, x)
  OBVIOUS
<1>8. PICK c : c = request_new(a, x, name)
  OBVIOUS
<1>9. PICK g : g = SearchNew(c, x, i, k)
  OBVIOUS
<1>10. d = request_submit(g, x, send)
  BY <1>4, <1>6, <1>7, <1>8, <1>9 DEF search_request_new, SearchNew
<1>11. name \in Names
  <2>1. a.search[k].domains \in Seq(Domains)
    BY <1>5 DEF RefsOK, SearchState
  <2>2. 0 < Len(a.search[k].domains) /\ 0 \in Nat
    BY <1>5, <2>1
  <2>3. search_make_new(a, k, 0, x) \in Names
    BY <1>1, <1>5, <2>2, MadeName
  <2> QED BY <1>1, <1>7, <2>3, NameFacts
<1>12. PICK r : NewMade(a, c, x, r)
  BY <1>1, <1>2, <1>8, <1>11, RequestNewMade DEF TakesUser
<1>13. Core(c, {x}) /\ Calm(a, c) /\ DOMAIN c = Fields
  BY <1>12 DEF NewMade, Core, NetTyped
<1>14. c.hnd = a.hnd /\ c.hnd \in [Handles -> Handle] /\ c.search = a.search /\ c.global = a.global
  BY <1>13 DEF Calm, Same, ClientFields, Core
<1>15. c.hnd = [b.hnd EXCEPT ![x] = Fresh] /\ c.hnd[x] = Fresh
  BY <1>1, <1>2, <1>14 DEF TakesUser, PutsHandle
<1>16. RefsOK(c) /\ c.search \in [States -> SearchState]
  BY <1>5, <1>14, RefsSame DEF RefsOK
<1>17. PICK h : h = Searcher(i, k)
  OBVIOUS
<1>18. i \in {0, -1} /\ (x \notin Dotted => i = 0)
  BY <1>6
<1>19. /\ h \in Handle /\ h.current_req /\ ~h.pending_cb /\ h.ns = None
       /\ h.search_index = i /\ h.search_state = k
  BY <1>5, <1>17, <1>18, SearcherFacts
<1>20. SearchNewFields(c, g, x, k, h)
  BY <1>1, <1>5, <1>9, <1>13, <1>14, <1>15, <1>16, <1>17, SearchNewHasFields
<1>21. Changes(c, g, {"hnd", "search"}) /\ g.hnd = [c.hnd EXCEPT ![x] = h]
       /\ g.search = [c.search EXCEPT ![k] = [c.search[k] EXCEPT !.refcount = @ + 1]]
  BY <1>20 DEF SearchNewFields
<1>22. Changes(c, g, HandleFields) /\ PutsHandle(c, g, x, h)
  BY <1>19, <1>21 DEF Changes, HandleFields, PutsHandle
<1>23. NewSubmitted(a, g, d)
  BY <1>1, <1>2, <1>3, <1>10, <1>12, <1>19, <1>22, SubmitNew DEF TakesUser
<1>24. g.global = c.global
  BY <1>21 DEF Changes, Fields
<1>25. HandlePut(c, g, x, h)
  BY <1>1, <1>14, <1>22, HandleIsPut
<1>26. c.hnd[x].search_state = None /\ (x \notin Dotted => h.search_index \in Nat)
  <2>1. 0 \in Nat
    OBVIOUS
  <2> QED BY <1>15, <1>18, <1>19, <2>1, FreshFacts
<1>27. k = c.global
  BY <1>4, <1>14
<1>28. HoldsOn(c, g, x, h)
  BY <1>5, <1>19, <1>21, <1>24, <1>25, <1>26, <1>27 DEF HoldsOn
<1>29. RefsOK(g)
  BY <1>1, <1>16, <1>28, HoldRefs
<1>30. Same(g, d, ClientFields) /\ Same(a, c, ClientFields)
  BY <1>13, <1>23 DEF NewSubmitted, Calm
<1>31. d.hnd = g.hnd /\ d.search = g.search /\ d.global = g.global
  BY <1>30 DEF Same, ClientFields
<1>32. RefsOK(d)
  BY <1>29, <1>31, RefsSame
<1>33. Same(c, g, OtherFields)
  BY <1>21 DEF Changes, Same, OtherFields, ClientFields, Fields
<1>34. Same(b, d, OtherFields)
  BY <1>3, <1>30, <1>33 DEF Same, OtherFields
<1>35. d.hnd = [b.hnd EXCEPT ![x] = h]
  BY <1>1, <1>15, <1>21, <1>31
<1>36. UserAsks(b, d, x, h)
  BY <1>19, <1>32, <1>34, <1>35 DEF UserAsks, PutsHandle
<1>37. AsksFor(b, d, x)
  BY <1>36 DEF AsksFor
<1> QED BY <1>2, <1>23, <1>36, <1>37, UserAdded DEF TakesUser

LEMMA ResolveGood ==
  ASSUME NEW b, Good(b, {}, {}, {}), NEW x \in Users, x \in b.asked, x \notin b.told,
         b.hnd[x] = NewHandle, NEW send \in [Servers -> Sent],
         NEW d, d = evdns_base_resolve(b, x, send)
  PROVE  Good(d, {}, {}, {}) /\ AsksFor(b, d, x)
<1>1. PICK a : a = [b EXCEPT !.hnd[x] = Fresh]
  OBVIOUS
<1>2. DOMAIN b = Fields
  BY DEF Good, Sound, Core, NetTyped
<1>3. HasDomains(a) <=> HasDomains(b)
  <2>1. a.global = b.global /\ a.search = b.search
    BY <1>1, <1>2 DEF Fields
  <2> QED BY <2>1 DEF HasDomains
<1>4. d = IF x \notin NoSearch /\ HasDomains(a) THEN search_request_new(a, x, send)
          ELSE request_submit(request_new(a, x, Raw(x)), x, send)
  BY <1>1 DEF evdns_base_resolve, Fresh
<1> QED BY <1>1, <1>3, <1>4, PlainGood, SearchNewGood


-----------------------------------------------------------------------------
(* The client: a server that is down is probed.                            *)

ProbeHandle(n) == [Fresh EXCEPT !.ns = n]

LEMMA ProbeHandleFacts ==
  ASSUME NEW n \in Servers, NEW h, h = ProbeHandle(n)
  PROVE  /\ h \in Handle /\ h.current_req /\ ~h.pending_cb /\ h.ns = n
         /\ h.search_state = None /\ h.search_index = 0
<1>1. h = [current_req |-> TRUE, pending_cb |-> FALSE, ns |-> n, search_index |-> 0,
           search_state |-> None]
  BY DEF ProbeHandle, Fresh, NewHandle
<1> QED BY <1>1 DEF Handle

\* The server that is probed: it is down, its timer is off and no probe is made for it.
WantsProbe(b, n) ==
  /\ Lists(b.servers, n) /\ ~b.ns[n].state /\ ~b.ns[n].timeout
  /\ \A y \in Probes : b.hnd[y].ns # n

\* The server knows its probe.
ProbeNamed(b, c, n, x) ==
  /\ c.ns \in [Servers -> Server] /\ c.ns[n].probe = x
  /\ (c.ns[n].state <=> b.ns[n].state) /\ (c.ns[n].timeout <=> b.ns[n].timeout)
  /\ \A m \in Servers : m # n => c.ns[m] = b.ns[m]

LEMMA AddProbeRest ==
  ASSUME NEW b, NEW n \in Servers, Rest(b, {}, {n}), Pend(b, {}), WantsProbe(b, n),
         b.ns \in [Servers -> Server],
         NEW x \in Probes, b.hnd[x] = NewHandle, NEW h, h.current_req, h.ns = n,
         NEW c, HandlePut(b, c, x, h), ProbeNamed(b, c, n, x), c.servers = b.servers,
         c.deferred = b.deferred, c.asked = b.asked, c.told = b.told
  PROVE  Rest(c, {}, {})
<1>1. c.hnd[x] = h /\ \A y \in Handles : y # x => c.hnd[y] = b.hnd[y]
  BY DEF HandlePut
<1>2. x \in Handles /\ x \notin Users /\ x # None /\ (\A y \in Probes : y \in Handles)
      /\ (\A y \in Users : y \in Handles)
  BY HandleKinds, NoneIsNot
<1>3. ~Active(b.hnd[x]) /\ ~b.hnd[x].pending_cb
  BY NewHandleFacts DEF Active
<1>4. \A y \in Handles : ~Active(c.hnd[y]) => c.hnd[y] = NewHandle
  BY <1>1 DEF Rest, Active
<1>5. \A y \in Users : /\ c.hnd[y].ns = None
                       /\ y \notin c.asked => ~Active(c.hnd[y]) /\ y \notin c.told
  BY <1>1, <1>2 DEF Rest
<1>6. ASSUME NEW m \in Servers, Lists(c.servers, m)
      PROVE  ProbeOfServer(c, m) /\ (c.ns[m].timeout => ~c.ns[m].state)
  <2>1. CASE m = n
    <3>1. ~c.ns[n].timeout /\ c.ns[n].probe = x
      BY DEF ProbeNamed, WantsProbe
    <3> QED BY <1>1, <1>2, <2>1, <3>1 DEF ProbeOfServer, Active
  <2>2. CASE m # n
    <3>1. c.ns[m] = b.ns[m]
      BY <2>2 DEF ProbeNamed
    <3>2. ProbeOfServer(b, m) /\ (b.ns[m].timeout => ~b.ns[m].state)
      BY <1>6 DEF Rest
    <3>3. b.ns[m].probe \in Probes \cup {None}
      BY DEF Server
    <3>4. b.ns[m].probe # x
      BY <1>2, <1>3, <3>2 DEF ProbeOfServer
    <3>5. b.ns[m].probe # None => c.hnd[b.ns[m].probe] = b.hnd[b.ns[m].probe]
      BY <1>1, <1>2, <3>3, <3>4
    <3> QED BY <3>1, <3>2, <3>5 DEF ProbeOfServer
  <2> QED BY <2>1, <2>2
<1>7. ASSUME NEW y \in Probes, c.hnd[y].current_req, y \notin {} PROVE ProbeIsOut(c, y)
  <2>1. CASE y = x
    <3>1. c.hnd[y].ns = n /\ Lists(c.servers, n) /\ c.ns[n].probe = y /\ ~c.ns[n].state /\ ~c.ns[n].timeout
      BY <1>1, <2>1 DEF ProbeNamed, WantsProbe
    <3> QED BY <3>1 DEF ProbeIsOut
  <2>2. CASE y # x
    <3>1. c.hnd[y] = b.hnd[y]
      BY <1>1, <1>2, <2>2
    <3>2. ProbeIsOut(b, y)
      BY <1>7, <3>1 DEF Rest
    <3>3. PICK m \in Servers : b.hnd[y].ns = m /\ Lists(b.servers, m) /\ b.ns[m].probe = y
                               /\ ~b.ns[m].state /\ ~b.ns[m].timeout
      BY <3>2 DEF ProbeIsOut
    <3>4. m # n
      BY <3>3 DEF WantsProbe
    <3>5. c.ns[m] = b.ns[m]
      BY <3>4 DEF ProbeNamed
    <3> QED BY <3>1, <3>3, <3>5 DEF ProbeIsOut
  <2> QED BY <2>1, <2>2
<1>8. ASSUME NEW y \in Probes, NEW z \in Probes, c.hnd[y].ns = c.hnd[z].ns, c.hnd[y].ns # None
      PROVE  y = z
  <2>1. CASE y # x /\ z # x
    BY <1>1, <1>2, <1>8, <2>1 DEF Rest
  <2>2. CASE y = x /\ z # x
    BY <1>1, <1>2, <1>8, <2>2 DEF WantsProbe
  <2>3. CASE y # x /\ z = x
    BY <1>1, <1>2, <1>8, <2>3 DEF WantsProbe
  <2> QED BY <2>1, <2>2, <2>3
<1>9. \A y \in Probes : Active(c.hnd[y]) => c.hnd[y].ns # None
  <2>1. n # None
    BY NoneIsNot
  <2> QED BY <1>1, <1>2, <2>1 DEF Rest
<1>10. ASSUME NEW i \in 1 .. Len(c.deferred), NEW m \in Servers, c.deferred[i][2] = "CANCEL",
              Lists(c.servers, m), m \notin {}
       PROVE  c.ns[m].probe # c.deferred[i][1]
  <2>1. CASE m = n
    <3>1. ~HasResult(b, x)
      BY <1>2, <1>3 DEF Pend
    <3>2. b.deferred[i][1] # x
      BY <3>1 DEF HasResult
    <3> QED BY <2>1, <3>2 DEF ProbeNamed
  <2>2. CASE m # n
    <3>1. b.ns[m].probe # b.deferred[i][1]
      BY <1>10, <2>2 DEF Rest
    <3> QED BY <2>2, <3>1 DEF ProbeNamed
  <2> QED BY <2>1, <2>2
<1> QED BY <1>4, <1>5, <1>6, <1>7, <1>8, <1>9, <1>10 DEF Rest

LEMMA AddProbeDown ==
  ASSUME NEW b, NEW n \in Servers, DownOK(b, {}, {n}), Pend(b, {}),
         NEW x \in Probes, b.hnd[x] = NewHandle, NEW h, h.current_req, h.ns = n,
         NEW c, HandlePut(b, c, x, h), ProbeNamed(b, c, n, x), c.servers = b.servers,
         c.deferred = b.deferred
  PROVE  DownOK(c, {}, {})
<1>1. c.hnd[x] = h /\ \A y \in Handles : y # x => c.hnd[y] = b.hnd[y]
  BY DEF HandlePut
<1>2. x \in Handles /\ \A y \in Probes : y \in Handles
  BY HandleKinds
<1>3. ~b.hnd[x].current_req /\ ~LiveResult(b, x)
  <2>1. ~b.hnd[x].current_req /\ ~b.hnd[x].pending_cb
    BY NewHandleFacts
  <2> QED BY <1>2, <2>1 DEF Pend, HasResult, LiveResult
<1>4. SUFFICES ASSUME NEW m \in Servers, Lists(c.servers, m), ~c.ns[m].state
               PROVE  c.ns[m].timeout \/ \E y \in Probes : c.hnd[y].ns = m /\ ProbeBusy(c, y, {})
  BY DEF DownOK
<1>5. CASE m = n
  <2>1. c.hnd[x].ns = m /\ ProbeBusy(c, x, {})
    BY <1>1, <1>5 DEF ProbeBusy
  <2> QED BY <2>1
<1>6. CASE m # n
  <2>1. c.ns[m] = b.ns[m]
    BY <1>6 DEF ProbeNamed
  <2>2. b.ns[m].timeout \/ \E y \in Probes : b.hnd[y].ns = m /\ ProbeBusy(b, y, {})
    BY <1>4, <1>6, <2>1 DEF DownOK
  <2>3. ASSUME NEW y \in Probes, b.hnd[y].ns = m, ProbeBusy(b, y, {})
        PROVE  c.hnd[y].ns = m /\ ProbeBusy(c, y, {})
    <3>1. y # x
      BY <1>3, <2>3 DEF ProbeBusy
    <3> QED BY <1>1, <1>2, <2>3, <3>1 DEF ProbeBusy, LiveResult
  <2> QED BY <2>1, <2>2, <2>3
<1> QED BY <1>5, <1>6


Named(k, x) == [k EXCEPT !.probe = x]

LEMMA NamedFacts ==
  ASSUME NEW k \in Server, NEW x \in Probes, NEW m, m = Named(k, x)
  PROVE  /\ m \in Server /\ (m.state <=> k.state) /\ m.probe = x /\ (m.timeout <=> k.timeout)
         /\ m.requests_inflight = k.requests_inflight /\ (m.choked <=> k.choked)
         /\ (m.write_waiting <=> k.write_waiting) /\ (m.event <=> k.event)
<1>1. m = [k EXCEPT !.probe = x]
  BY DEF Named
<1> QED BY <1>1 DEF Server

\* The probe is in hand.
TakesProbe(b, a, n, x) ==
  /\ Core(a, {x}) /\ RefsOK(a) /\ Changes(b, a, {"hnd", "ns"})
  /\ PutsHandle(b, a, x, ProbeHandle(n)) /\ ProbeNamed(b, a, n, x)
  /\ Watched(b, {}) => Watched(a, {})

LEMMA ProbeInHand ==
  ASSUME NEW b, Core(b, {}), RefsOK(b), NEW x \in Probes, b.hnd[x] = NewHandle, NEW n \in Servers,
         NEW a, a = [b EXCEPT !.hnd[x] = ProbeHandle(n), !.ns[n].probe = x]
  PROVE  TakesProbe(b, a, n, x)
<1>1. DOMAIN b = Fields /\ b.hnd \in [Handles -> Handle] /\ ListedOK(b, x, {}) /\ x \in Handles
      /\ b.ns \in [Servers -> Server] /\ b.ns[n] \in Server /\ b.draw \in Seq(Ids) /\ b.draw # <<>>
  BY HandleKinds DEF Core, NetTyped, ListsOK
<1>2. ~Lists(b.inflight, x) /\ ~Lists(b.waiting, x)
  BY <1>1, NewHandleFacts DEF ListedOK
<1>3. PICK k : k = Named(b.ns[n], x)
  OBVIOUS
<1>4. /\ k \in Server /\ (k.state <=> b.ns[n].state) /\ k.probe = x /\ (k.timeout <=> b.ns[n].timeout)
      /\ k.requests_inflight = b.ns[n].requests_inflight /\ (k.choked <=> b.ns[n].choked)
      /\ (k.write_waiting <=> b.ns[n].write_waiting) /\ (k.event <=> b.ns[n].event)
  BY <1>1, <1>3, NamedFacts
<1>5. PICK g : g = [b EXCEPT !.ns[n].probe = x]
  OBVIOUS
<1>6. Changes(b, g, {"ns"}) /\ g.ns = [b.ns EXCEPT ![n] = k]
  <2>1. Changes(b, g, {"ns"})
    BY <1>1, <1>5 DEF Changes, Fields
  <2>2. g.ns = [b.ns EXCEPT ![n] = k]
    BY <1>1, <1>3, <1>5 DEF Named, Fields
  <2> QED BY <2>1, <2>2
<1>7. g.draw = b.draw
  BY <1>6 DEF Changes, Fields
<1>8. SetsServer(b, g, n, k)
  BY <1>1, <1>4, <1>6, <1>7 DEF SetsServer, Changes, Trifles
<1>9. Core(g, {}) /\ TunedFields(b, g, n, k)
  <2>1. Tunes(b, g, n, k)
    BY <1>8, SetsServerTunes
  <2> QED BY <1>1, <2>1, TunedCore, TunedHasFields
<1>10. Watched(b, {}) => Watched(g, {})
  <2>1. ASSUME NEW m \in Servers, ServerWatched(b.ns[m]) PROVE ServerWatched(g.ns[m])
    <3>1. CASE m = n
      BY <1>4, <1>9, <2>1, <3>1 DEF ServerWatched, TunedFields
    <3>2. CASE m # n
      BY <1>9, <2>1, <3>2 DEF TunedFields
    <3> QED BY <3>1, <3>2
  <2>2. SomeWaits(b) => SomeWaits(g)
    <3>1. \A m \in Servers : g.ns[m].write_waiting <=> b.ns[m].write_waiting
      BY <1>4, <1>9 DEF TunedFields
    <3> QED BY <1>9, <3>1 DEF SomeWaits, TunedFields
  <2> QED BY <1>9, <2>1, <2>2 DEF Watched, TunedFields
<1>11. a.ns = g.ns
  BY <1>1, <1>5 DEF Fields
<1>12. Changes(b, a, {"hnd", "ns"})
  BY <1>1 DEF Changes, Fields
<1>13. Changes(g, a, {"hnd"})
  BY <1>6, <1>11, <1>12 DEF Changes
<1>14. a.hnd = [b.hnd EXCEPT ![x] = ProbeHandle(n)]
  BY <1>1 DEF Fields
<1>15. PutsHandle(b, a, x, ProbeHandle(n))
  BY <1>14, ProbeHandleFacts DEF PutsHandle
<1>16. g.hnd = b.hnd
  BY <1>9 DEF TunedFields
<1>17. PutsHandle(g, a, x, ProbeHandle(n))
  BY <1>15, <1>16 DEF PutsHandle
<1>18. Changes(g, a, HandleFields)
  BY <1>13 DEF Changes, HandleFields
<1>19. ~Lists(g.inflight, x) /\ ~Lists(g.waiting, x)
  BY <1>2, <1>9 DEF TunedFields
<1>20. Core(a, {x})
  <2>1. {} \cup {x} = {x} /\ {} \in SUBSET Handles
    OBVIOUS
  <2>2. Core(a, {} \cup {x})
    BY <1>1, <1>9, <1>17, <1>18, <1>19, <2>1, TakeInHand
  <2> QED BY <2>1, <2>2
<1>21. RefsOK(a)
  <2>1. RefsOK(g)
    BY <1>9, RefsSame DEF TunedFields
  <2>2. HandlePut(g, a, x, ProbeHandle(n))
    BY <1>1, <1>16, <1>17, HandleIsPut
  <2>3. a.search = g.search /\ a.global = g.global
    BY <1>13 DEF Changes, Fields
  <2>4. ProbeHandle(n).search_state = None /\ ProbeHandle(n).search_index \in Nat
    <3>1. ProbeHandle(n).search_state = None /\ ProbeHandle(n).search_index = 0
      BY ProbeHandleFacts
    <3> QED BY <3>1
  <2>5. HoldsOn(g, a, x, ProbeHandle(n))
    BY <1>16, <2>2, <2>3, <2>4, NewHandleFacts DEF HoldsOn
  <2> QED BY <1>1, <2>1, <2>5, HoldRefs
<1>22. Watched(b, {}) => Watched(a, {})
  BY <1>10, <1>18, HandlesKeepWatch
<1>23. ProbeNamed(b, a, n, x)
  BY <1>4, <1>9, <1>11 DEF TunedFields, ProbeNamed
<1> QED BY <1>12, <1>15, <1>20, <1>21, <1>22, <1>23 DEF TakesProbe


\* The request of a probe, for the server that is probed.
Aimed(c, x, n, id) == [SetTransId(c, x, id) EXCEPT !.req[x].ns = n]
AimedRequest(r, n, id) == [r EXCEPT !.trans_id = id, !.ns = n]

LEMMA AimedFields ==
  ASSUME NEW c, NetTyped(c), NEW x \in Handles, NEW n \in Servers, NEW id \in Ids,
         Lists(c.servers, n)
  PROVE  SetsRequest(c, Aimed(c, x, n, id), x, AimedRequest(c.req[x], n, id))
<1> DEFINE f == Aimed(c, x, n, id)
<1>1. DOMAIN c = Fields /\ c.req \in [Handles -> Request] /\ c.req[x] \in Request
  BY DEF NetTyped
<1>2. PICK r : r = AimedRequest(c.req[x], n, id)
  OBVIOUS
<1>3. id \in 0 .. NIds
  BY LimitAssumption DEF Ids
<1>4. r \in Request /\ r.ns = n
  <2>1. r = [c.req[x] EXCEPT !.trans_id = id, !.ns = n]
    BY <1>2 DEF AimedRequest
  <2> QED BY <1>1, <1>3, <2>1 DEF Request
<1>5. Changes(c, f, {"req", "draw"})
  BY <1>1 DEF Aimed, SetTransId, Changes, Fields
<1>6. f.req = [c.req EXCEPT ![x] = r]
  BY <1>1, <1>2 DEF Aimed, AimedRequest, SetTransId, Fields
<1>7. f.draw = IF Len(c.draw) > 1 THEN Tail(c.draw) ELSE c.draw
  BY <1>1 DEF Aimed, SetTransId, Fields
<1> HIDE DEF f
<1>8. f.draw \in Seq(Ids) /\ f.draw # <<>>
  BY <1>7, DrawFacts
<1>9. n # None
  BY NoneIsNot
<1>10. SetsRequest(c, f, x, r)
  BY <1>4, <1>5, <1>6, <1>8, <1>9 DEF SetsRequest
<1> QED BY <1>2, <1>10 DEF f

\* A probe is submitted.
ProbeSubmitted(a, d) ==
  /\ Core(d, {}) /\ Calm(a, d) /\ d.inflight # <<>>
  /\ Watched(a, {}) => Watched(d, {})

LEMMA SubmitProbe ==
  ASSUME NEW a, NEW x \in Handles, Core(a, {x}), a.hnd[x].current_req, NEW n \in Servers,
         Lists(a.servers, n), NEW send \in [Servers -> Sent],
         NEW c, c = request_new(a, x, Raw(None)),
         NEW d, d = request_submit(Aimed(c, x, n, transaction_id_pick(c)), x, send)
  PROVE  ProbeSubmitted(a, d)
<1>1. PICK r0 : NewMade(a, c, x, r0)
  BY NameFacts, RequestNewMade
<1>2. Core(c, {x}) /\ Calm(a, c) /\ NetTyped(c) /\ (Watched(a, {}) => Watched(c, {}))
  BY <1>1 DEF NewMade, Core
<1>3. Lists(c.servers, n)
  BY <1>2 DEF Calm
<1>4. PICK id : id = transaction_id_pick(c)
  OBVIOUS
<1>5. Picks(c, id) /\ id \in Ids
  BY <1>2, <1>4, PickedIdIsFresh DEF Picks
<1>6. PICK f : f = Aimed(c, x, n, id)
  OBVIOUS
<1>7. PICK r : r = AimedRequest(c.req[x], n, id)
  OBVIOUS
<1>8. SetsRequest(c, f, x, r)
  BY <1>2, <1>3, <1>5, <1>6, <1>7, AimedFields
<1>9. RequestSet(c, f, {x}, x, r)
  <2>1. x \in {x} \cap Handles
    OBVIOUS
  <2> QED BY <1>2, <1>8, <2>1, SetRequestKeeps
<1>10. /\ Core(f, {x}) /\ Calm(c, f) /\ f.inflight = c.inflight /\ f.req[x] = r
       /\ (\A y \in Handles : y # x => f.req[y] = c.req[y]) /\ (Watched(c, {}) => Watched(f, {}))
  BY <1>9 DEF RequestSet
<1>11. r.ns = n /\ r.trans_id = id
  <2>1. c.req[x] \in Request
    BY <1>2 DEF NetTyped
  <2>2. r = [c.req[x] EXCEPT !.trans_id = id, !.ns = n]
    BY <1>7 DEF AimedRequest
  <2> QED BY <2>1, <2>2 DEF Request
<1>12. MayJoin(f, x)
  <2>1. ASSUME NEW y \in Handles, Lists(f.inflight, y) PROVE f.req[y].trans_id # f.req[x].trans_id
    <3>1. y # x
      BY <1>10, <2>1 DEF Core, ListsOK, ListedOK
    <3>2. c.req[y].trans_id # id
      BY <1>5, <1>10, <2>1 DEF Picks
    <3> QED BY <1>10, <1>11, <3>1, <3>2
  <2> QED BY <2>1 DEF MayJoin
<1>13. f.hnd[x].current_req
  BY <1>2, <1>10 DEF Calm, Same, ClientFields
<1>14. d = request_submit(f, x, send)
  BY <1>4, <1>6
<1>15. Submitted(f, d, x)
  BY <1>10, <1>12, <1>13, <1>14, SubmitKeeps
<1>16. Calm(a, d)
  <2>1. Calm(a, f)
    BY <1>2, <1>10, CalmTwice
  <2>2. Calm(f, d)
    BY <1>15 DEF Submitted
  <2> QED BY <2>1, <2>2, CalmTwice
<1>17. d.inflight # <<>>
  <2>1. f.req[x].ns # None
    BY <1>10, <1>11, NoneIsNot
  <2>2. Lists(d.inflight, x) /\ d.inflight \in Seq(Handles)
    BY <1>15, <2>1 DEF Submitted, Core, NetTyped
  <2> QED BY <2>2, MembersFacts
<1> QED BY <1>2, <1>10, <1>15, <1>16, <1>17 DEF ProbeSubmitted, Submitted

\* nameserver_send_probe: the probe of a server that is down is in flight.
LEMMA SendProbeGood ==
  ASSUME NEW b, NEW n \in Servers, Good(b, {}, {n}, {}), WantsProbe(b, n), NEW x \in Probes,
         b.hnd[x] = NewHandle, NEW send \in [Servers -> Sent],
         NEW d, d = nameserver_send_probe(b, n, x, send)
  PROVE  Good(d, {}, {}, {}) /\ Follows(b, d)
<1>1. PICK a : a = [b EXCEPT !.hnd[x] = ProbeHandle(n), !.ns[n].probe = x]
  OBVIOUS
<1>2. x \in Handles /\ x \notin Users /\ Core(b, {}) /\ RefsOK(b) /\ b.hnd \in [Handles -> Handle]
      /\ b.ns \in [Servers -> Server] /\ b.servers \in Seq(Servers) /\ DOMAIN b = Fields
      /\ Pend(b, {}) /\ Rest(b, {}, {n}) /\ b.max_inflight \in 1 .. 5
  BY HandleKinds DEF Good, Sound, Core, NetTyped
<1>3. TakesProbe(b, a, n, x)
  BY <1>1, <1>2, ProbeInHand
<1>4. PICK h : h = ProbeHandle(n)
  OBVIOUS
<1>5. h \in Handle /\ h.current_req /\ ~h.pending_cb /\ h.ns = n
  BY <1>4, ProbeHandleFacts
<1>6. HandlePut(b, a, x, h)
  BY <1>2, <1>3, <1>4, HandleIsPut DEF TakesProbe
<1>7. ProbeHandle(n) = [NewHandle EXCEPT !.current_req = TRUE, !.ns = n]
  BY DEF ProbeHandle, Fresh
<1>8. PICK c : c = request_new(a, x, Raw(None))
  OBVIOUS
<1>9. d = request_submit(Aimed(c, x, n, transaction_id_pick(c)), x, send)
  BY <1>1, <1>7, <1>8 DEF nameserver_send_probe, Aimed
<1>10. /\ a.servers = b.servers /\ a.deferred = b.deferred /\ a.told = b.told /\ a.asked = b.asked
       /\ a.suspended = b.suspended /\ a.max_inflight = b.max_inflight
  BY <1>3 DEF TakesProbe, Changes, Fields
<1>11. a.hnd[x].current_req /\ Lists(a.servers, n)
  BY <1>5, <1>6, <1>10 DEF HandlePut, WantsProbe
<1>12. ProbeSubmitted(a, d)
  BY <1>2, <1>3, <1>8, <1>9, <1>11, SubmitProbe DEF TakesProbe
<1>13. ProbeNamed(b, a, n, x)
  BY <1>3 DEF TakesProbe
<1>14. Rest(a, {}, {})
  BY <1>2, <1>5, <1>6, <1>10, <1>13, AddProbeRest
<1>15. Pend(a, {})
  <2>1. ~Active(b.hnd[x])
    BY NewHandleFacts DEF Active
  <2> QED BY <1>2, <1>5, <1>6, <1>10, <2>1, AddPend
<1>16. ~DisableWhenInactive => DownOK(a, {}, {})
  <2>1. ~DisableWhenInactive => DownOK(b, {}, {n})
    BY DEF Good
  <2> QED BY <1>2, <1>5, <1>6, <1>10, <1>13, <2>1, AddProbeDown
<1>17. Core(d, {}) /\ ServersEased(a, d) /\ Same(a, d, ClientFields)
  BY <1>12, CalmEased DEF ProbeSubmitted
<1>18. /\ d.hnd = a.hnd /\ d.search = a.search /\ d.global = a.global /\ d.deferred = a.deferred
       /\ d.told = a.told /\ d.asked = a.asked /\ d.suspended = a.suspended
       /\ d.max_inflight = a.max_inflight
  BY <1>17 DEF Same, ClientFields
<1>19. RefsOK(d)
  BY <1>3, <1>18, RefsSame DEF TakesProbe
<1>20. ~DisableWhenInactive => Watched(d, {})
  BY <1>3, <1>12 DEF ProbeSubmitted, TakesProbe, Good
<1>21. a.ns \in [Servers -> Server] /\ (a.servers = <<>> => a.suspended) /\ a.servers \in Seq(Servers)
  BY <1>2, <1>10, <1>13 DEF ProbeNamed, Good
<1>22. d.inflight # <<>> \/ a.servers = <<>>
  BY <1>12 DEF ProbeSubmitted
<1>23. d.max_inflight \in 1 .. 5
  BY <1>2, <1>10, <1>18
<1>24. Follows(b, d)
  <2>1. \A y \in Handles : y # x => d.hnd[y] = b.hnd[y]
    BY <1>6, <1>18 DEF HandlePut
  <2>2. d.deferred = b.deferred /\ d.told = b.told
    BY <1>10, <1>18
  <2> QED BY <1>2, <2>1, <2>2, FollowsProbe
<1>25. Good(d, {}, {}, {})
  BY <1>14, <1>15, <1>16, <1>17, <1>18, <1>19, <1>20, <1>21, <1>22, <1>23, AddedGood
<1> QED BY <1>24, <1>25


-----------------------------------------------------------------------------
(* The client: a search goes on with its next name.                        *)

\* The search of x moved on; the ring of servers may have turned.
SearchMoves(b, d, x, k) ==
  /\ Changes(b, d, {"hnd", "search", "servers", "dangling", "draw"})
  /\ TurnedServers(b, d) /\ d.draw \in Seq(Ids) /\ d.draw # <<>>
  /\ PutsHandle(b, d, x, k) /\ k.current_req /\ (k.pending_cb <=> b.hnd[x].pending_cb)
  /\ k.ns = b.hnd[x].ns /\ RefsOK(d) /\ SearchedOn(d, x)

SearchFields(b, d) ==
  /\ DOMAIN d = Fields /\ d.good = b.good /\ d.ns = b.ns /\ d.req = b.req
  /\ d.inflight = b.inflight /\ d.waiting = b.waiting /\ d.ninflight = b.ninflight
  /\ d.nwaiting = b.nwaiting /\ d.max_inflight = b.max_inflight /\ d.deferred = b.deferred
  /\ d.told = b.told /\ d.asked = b.asked /\ d.suspended = b.suspended /\ d.global = b.global
  /\ d.freed = b.freed

LEMMA SearchMovesFields ==
  ASSUME NEW b, NEW d, Changes(b, d, {"hnd", "search", "servers", "dangling", "draw"})
  PROVE  SearchFields(b, d)
BY DEF Changes, Fields, SearchFields

LEMMA SearchMovesCore ==
  ASSUME NEW b, Core(b, {}), NEW x \in Handles, b.hnd[x].current_req, NEW d, NEW k,
         SearchMoves(b, d, x, k)
  PROVE  Core(d, {})
<1>1. DOMAIN b = Fields /\ b.hnd \in [Handles -> Handle] /\ DOMAIN d = Fields
  BY DEF Core, NetTyped, SearchMoves, Changes
<1>2. PICK t : t = [b EXCEPT !.servers = d.servers, !.dangling = d.dangling]
  OBVIOUS
<1>3. Changes(b, t, {"servers", "dangling"}) /\ t.servers = d.servers /\ t.dangling = d.dangling
  <2>1. Changes(b, t, {"servers", "dangling"})
    BY <1>1, <1>2 DEF Changes, Fields
  <2>2. t.servers = d.servers /\ t.dangling = d.dangling
    BY <1>1, <1>2 DEF Fields
  <2> QED BY <2>1, <2>2
<1>4. Core(t, {})
  <2>1. Turned(b, t)
    BY <1>3 DEF Turned, TurnedServers, SearchMoves
  <2> QED BY <2>1, TurnedKeeps
<1>5. PICK g : g = [t EXCEPT !.draw = d.draw]
  OBVIOUS
<1>6. Changes(t, g, {"draw"}) /\ g.draw = d.draw
  <2>1. DOMAIN t = Fields
    BY <1>3 DEF Changes
  <2>2. Changes(t, g, {"draw"})
    BY <1>5, <2>1 DEF Changes, Fields
  <2>3. g.draw = d.draw
    BY <1>5, <2>1 DEF Fields
  <2> QED BY <2>2, <2>3
<1>7. Core(g, {})
  <2>1. Trifling(t, g)
    BY <1>6 DEF Trifling, Trifles, Changes, SearchMoves
  <2> QED BY <1>4, <2>1, TriflingCore
<1>8. Changes(g, d, HandleFields)
  <2>1. ASSUME NEW f \in Fields, f \notin HandleFields PROVE d[f] = g[f]
    <3>1. CASE f = "draw"
      BY <1>6, <3>1
    <3>2. CASE f = "servers"
      BY <1>3, <1>6, <3>2 DEF Changes, Fields
    <3>3. CASE f # "draw" /\ f # "servers"
      <4>1. f # "hnd" /\ f # "search" /\ f # "dangling"
        BY <2>1 DEF HandleFields
      <4>2. d[f] = b[f]
        BY <3>3, <4>1 DEF SearchMoves, Changes
      <4>3. t[f] = b[f]
        BY <1>3, <3>3, <4>1 DEF Changes
      <4>4. g[f] = t[f]
        BY <1>6, <3>3 DEF Changes
      <4> QED BY <4>2, <4>3, <4>4
    <3> QED BY <3>1, <3>2, <3>3
  <2> QED BY <1>1, <2>1 DEF Changes
<1>9. g.hnd = b.hnd /\ g.inflight = b.inflight
  BY <1>3, <1>6 DEF Changes, Fields
<1>10. HandlePut(b, d, x, k)
  BY <1>1, HandleIsPut DEF SearchMoves
<1>11. \A y \in Handles : d.hnd[y].current_req = g.hnd[y].current_req
  <2>1. k.current_req \in BOOLEAN /\ b.hnd[x].current_req \in BOOLEAN /\ k.current_req
    BY <1>1 DEF Handle, SearchMoves, PutsHandle
  <2> QED BY <1>9, <1>10, <2>1 DEF HandlePut
<1>12. \A y \in Handles : SearchedOn(g, y) => SearchedOn(d, y)
  <2>1. \A y \in Handles : y # x => (SearchedOn(g, y) => SearchedOn(d, y))
    BY <1>9, <1>10 DEF HandlePut, SearchedOn
  <2>2. SearchedOn(d, x)
    BY DEF SearchMoves
  <2> QED BY <2>1, <2>2
<1>13. HandlesChange(g, d, {}, {})
  BY <1>8, <1>10, <1>11, <1>12 DEF HandlesChange, HandlePut
<1> QED BY <1>7, <1>13, HandlesKeepCore

LEMMA SearchMovesGood ==
  ASSUME NEW b, NEW V, NEW Z, NEW X, Good(b, V, Z, X), NEW x \in Users, b.hnd[x].current_req,
         NEW d, NEW k, SearchMoves(b, d, x, k)
  PROVE  Good(d, V, Z, X)
<1>1. x \in Handles /\ x \notin Probes /\ Core(b, {}) /\ Pend(b, V) /\ Rest(b, V, Z)
      /\ b.max_inflight \in 1 .. 5 /\ b.hnd \in [Handles -> Handle] /\ b.ns \in [Servers -> Server]
      /\ b.servers \in Seq(Servers) /\ FedOK(b) /\ (b.servers = <<>> => b.suspended)
  BY HandleKinds DEF Good, Sound, Core, NetTyped
<1>2. SearchFields(b, d)
  BY SearchMovesFields DEF SearchMoves
<1>3. Core(d, {})
  BY <1>1, SearchMovesCore
<1>4. d.hnd[x] = k /\ \A y \in Handles : y # x => d.hnd[y] = b.hnd[y]
  BY <1>1, HandleIsPut DEF SearchMoves, HandlePut
<1>5. k.current_req /\ (k.pending_cb <=> b.hnd[x].pending_cb) /\ k.ns = b.hnd[x].ns
      /\ RefsOK(d) /\ SearchedOn(d, x)
  BY DEF SearchMoves
<1>6. \A n : Lists(d.servers, n) <=> Lists(b.servers, n)
  BY DEF SearchMoves, TurnedServers
<1>7. \A y \in Probes : d.hnd[y] = b.hnd[y]
  BY <1>1, <1>4, HandleKinds
<1>8. \A y \in Handles : /\ d.hnd[y].current_req <=> b.hnd[y].current_req
                         /\ d.hnd[y].pending_cb <=> b.hnd[y].pending_cb
                         /\ d.hnd[y].ns = b.hnd[y].ns
  BY <1>1, <1>4, <1>5
<1>9. Pend(d, V)
  <2>1. \A y : HasResult(d, y) <=> HasResult(b, y)
    BY <1>2 DEF HasResult, SearchFields
  <2>2. d.deferred = b.deferred /\ d.told = b.told /\ \A y \in Users : y \in Handles
    BY <1>2, HandleKinds DEF SearchFields
  <2> QED BY <1>1, <1>8, <2>1, <2>2 DEF Pend, Active
<1>10. Rest(d, V, Z)
  <2>1. \A y \in Handles : ~Active(d.hnd[y]) => d.hnd[y] = NewHandle
    BY <1>1, <1>4, <1>5 DEF Rest, Active
  <2>2. \A y \in Users : /\ d.hnd[y].ns = None
                         /\ y \notin d.asked => ~Active(d.hnd[y]) /\ y \notin d.told
    BY <1>1, <1>2, <1>8, HandleKinds DEF Rest, Active, SearchFields
  <2>3. ASSUME NEW n \in Servers, Lists(d.servers, n)
        PROVE  ProbeOfServer(d, n) /\ (d.ns[n].timeout => ~d.ns[n].state)
    <3>1. ProbeOfServer(b, n) /\ (b.ns[n].timeout => ~b.ns[n].state) /\ d.ns[n] = b.ns[n]
      BY <1>1, <1>2, <1>6, <2>3 DEF Rest, SearchFields
    <3>2. b.ns[n].probe \in Probes \cup {None}
      BY <1>1 DEF Server
    <3> QED BY <1>7, <3>1, <3>2 DEF ProbeOfServer
  <2>4. ASSUME NEW y \in Probes, d.hnd[y].current_req, y \notin V PROVE ProbeIsOut(d, y)
    <3>1. ProbeIsOut(b, y)
      BY <1>1, <1>7, <2>4 DEF Rest
    <3> QED BY <1>2, <1>6, <1>7, <3>1 DEF ProbeIsOut, SearchFields
  <2>5. \A y, z \in Probes : d.hnd[y].ns = d.hnd[z].ns /\ d.hnd[y].ns # None => y = z
    BY <1>1, <1>7 DEF Rest
  <2>6. \A y \in Probes : Active(d.hnd[y]) => d.hnd[y].ns # None
    BY <1>1, <1>7 DEF Rest
  <2>7. \A i \in 1 .. Len(d.deferred), n \in Servers :
          d.deferred[i][2] = "CANCEL" /\ Lists(d.servers, n) /\ n \notin Z
          => d.ns[n].probe # d.deferred[i][1]
    BY <1>1, <1>2, <1>6 DEF Rest, SearchFields
  <2> QED BY <2>1, <2>2, <2>3, <2>4, <2>5, <2>6, <2>7 DEF Rest
<1>11. ASSUME ~DisableWhenInactive PROVE Watched(d, X) /\ DownOK(d, V, Z)
  <2>1. Watched(b, X) /\ DownOK(b, V, Z)
    BY <1>11 DEF Good
  <2>2. SomeWaits(d) <=> SomeWaits(b)
    BY <1>2, <1>6 DEF SomeWaits, SearchFields
  <2>3. Watched(d, X)
    BY <1>2, <2>1, <2>2 DEF Watched, SearchFields
  <2>4. \A y \in Probes : ProbeBusy(d, y, V) <=> ProbeBusy(b, y, V)
    BY <1>2, <1>7 DEF ProbeBusy, LiveResult, SearchFields
  <2>5. DownOK(d, V, Z)
    BY <1>2, <1>6, <1>7, <2>1, <2>4 DEF DownOK, SearchFields
  <2> QED BY <2>3, <2>5
<1>12. FedOK(d) /\ (d.servers = <<>> => d.suspended)
  <2>1. \A y \in Handles : SearchedOn(b, y) => SearchedOn(d, y)
    BY <1>4, <1>5 DEF SearchedOn
  <2>2. d.servers \in Seq(Servers)
    BY <1>3 DEF Core, NetTyped
  <2>3. d.inflight = b.inflight /\ d.waiting = b.waiting /\ d.suspended = b.suspended
    BY <1>2 DEF SearchFields
  <2> QED BY <1>1, <1>6, <2>1, <2>2, <2>3, SameQueuesFed
<1>13. d.max_inflight \in 1 .. 5
  BY <1>1, <1>2 DEF SearchFields
<1> QED BY <1>3, <1>5, <1>9, <1>10, <1>11, <1>12, <1>13 DEF Good, Sound


\* The next name of a search.
LEMMA NextNameFacts ==
  ASSUME NEW b, RefsOK(b), b.hnd \in [Handles -> Handle], NEW x \in Handles,
         NEW name, name = NextName(b, x), name # None
  PROVE  /\ name \in Names /\ (name = Raw(x) => x \notin Dotted)
         /\ b.hnd[x].search_state # None /\ x \in Users /\ b.hnd[x].current_req
<1>1. PICK k : k = b.hnd[x].search_state
  OBVIOUS
<1>2. PICK i : i = b.hnd[x].search_index + 1
  OBVIOUS
<1>3. k \in States \cup {None} /\ i \in Nat
  <2>1. b.hnd[x] \in Handle
    OBVIOUS
  <2>2. b.hnd[x].search_state \in States \cup {None} /\ b.hnd[x].search_index \in Nat \cup {-1}
    BY <2>1 DEF Handle
  <2> QED BY <1>1, <1>2, <2>2
<1>4. name = IF k = None THEN None
             ELSE IF i < Len(b.search[k].domains) THEN search_make_new(b, k, i, x)
             ELSE IF x \in Dotted THEN None ELSE Raw(x)
  BY <1>1, <1>2 DEF NextName
<1>5. k # None /\ k \in States
  BY <1>3, <1>4
<1>6. x \in Users /\ b.hnd[x].current_req
  BY <1>1, <1>5 DEF RefsOK
<1>7. CASE i < Len(b.search[k].domains)
  <2>1. name = search_make_new(b, k, i, x)
    BY <1>4, <1>5, <1>7
  <2>2. search_make_new(b, k, i, x) \in Names /\ search_make_new(b, k, i, x) # Raw(x)
    BY <1>3, <1>5, <1>7, MadeName
  <2> QED BY <1>1, <1>5, <1>6, <2>1, <2>2
<1>8. CASE ~(i < Len(b.search[k].domains))
  <2>1. x \notin Dotted /\ name = Raw(x)
    BY <1>4, <1>5, <1>8
  <2> QED BY <1>1, <1>5, <1>6, <2>1, NameFacts
<1> QED BY <1>7, <1>8

\* search_index is counted up.
Walked(h) == [h EXCEPT !.search_index = @ + 1]

LEMMA WalkedFacts ==
  ASSUME NEW h \in Handle, NEW k, k = Walked(h)
  PROVE  /\ k \in Handle /\ k.search_index = h.search_index + 1 /\ k.search_index \in Nat
         /\ k.current_req = h.current_req /\ k.pending_cb = h.pending_cb /\ k.ns = h.ns
         /\ k.search_state = h.search_state
<1>1. PICK i : i = h.search_index + 1
  OBVIOUS
<1>2. i \in Nat
  BY <1>1 DEF Handle
<1>3. k = [h EXCEPT !.search_index = i]
  BY <1>1 DEF Walked
<1> QED BY <1>1, <1>2, <1>3 DEF Handle

\* Handles change, but not what they say about search domains.
RefsLike(b, c) ==
  /\ c.search = b.search /\ c.global = b.global
  /\ \A y \in Handles : /\ c.hnd[y].search_state = b.hnd[y].search_state
                        /\ b.hnd[y].current_req => c.hnd[y].current_req
                        /\ y \notin Dotted => c.hnd[y].search_index \in Nat

LEMMA RefsLikeKeeps ==
  ASSUME NEW b, RefsOK(b), NEW c, RefsLike(b, c)
  PROVE  RefsOK(c)
<1>1. \A k \in States : Holders(c, k) = Holders(b, k)
  BY DEF Holders, RefsLike
<1>2. \A k \in States : CountedOK(c, k)
  BY <1>1 DEF CountedOK, RefsOK, RefsLike
<1>3. c.search \in [States -> SearchState] /\ c.global \in States \cup {None}
  BY DEF RefsOK, RefsLike
<1>4. c.global = None => \A x \in Handles : c.hnd[x].search_state = None
  BY DEF RefsOK, RefsLike
<1>5. \A x \in Handles : c.hnd[x].search_state # None => x \in Users /\ c.hnd[x].current_req
  BY DEF RefsOK, RefsLike
<1>6. \A x \in Handles : x \notin Dotted => c.hnd[x].search_index \in Nat
  BY DEF RefsLike
<1> QED BY <1>2, <1>3, <1>4, <1>5, <1>6 DEF RefsOK

\* The index of the search is counted up first.
WalkedOn(b, t, x) ==
  /\ Core(t, {}) /\ RefsOK(t) /\ Changes(b, t, {"hnd"})
  /\ PutsHandle(b, t, x, Walked(b.hnd[x]))

LEMMA WalkedOnKeeps ==
  ASSUME NEW b, Core(b, {}), RefsOK(b), NEW x \in Handles, b.hnd[x].search_state # None,
         NEW t, t = [b EXCEPT !.hnd[x].search_index = @ + 1]
  PROVE  WalkedOn(b, t, x)
<1>1. DOMAIN b = Fields /\ b.hnd \in [Handles -> Handle] /\ b.hnd[x] \in Handle
  BY DEF Core, NetTyped
<1>2. PICK k : k = Walked(b.hnd[x])
  OBVIOUS
<1>3. /\ k \in Handle /\ k.search_index = b.hnd[x].search_index + 1 /\ k.search_index \in Nat
      /\ k.current_req = b.hnd[x].current_req /\ k.pending_cb = b.hnd[x].pending_cb
      /\ k.ns = b.hnd[x].ns /\ k.search_state = b.hnd[x].search_state
  BY <1>1, <1>2, WalkedFacts
<1>4. Changes(b, t, {"hnd"})
  BY <1>1 DEF Changes, Fields
<1>5. t.hnd = [b.hnd EXCEPT ![x] = k]
  BY <1>1, <1>2 DEF Walked, Fields
<1>6. PutsHandle(b, t, x, k) /\ Changes(b, t, HandleFields)
  BY <1>3, <1>4, <1>5 DEF PutsHandle, Changes, HandleFields
<1>7. HandlePut(b, t, x, k)
  BY <1>1, <1>6, HandleIsPut
<1>8. SearchedOn(t, x)
  <2>1. x \notin Dotted => b.hnd[x].search_index \in Nat
    BY DEF RefsOK
  <2>2. x \notin Dotted => k.search_index # 0
    BY <1>3, <2>1
  <2>3. k.search_index # -1
    BY <1>3
  <2> QED BY <1>3, <1>7, <2>2, <2>3 DEF SearchedOn, HandlePut
<1>9. \A y \in Handles : SearchedOn(b, y) => SearchedOn(t, y)
  BY <1>7, <1>8 DEF SearchedOn, HandlePut
<1>10. \A y \in Handles : t.hnd[y].current_req = b.hnd[y].current_req
  BY <1>3, <1>7 DEF HandlePut
<1>11. HandlesChange(b, t, {}, {})
  BY <1>6, <1>7, <1>9, <1>10 DEF HandlesChange, HandlePut
<1>12. Core(t, {})
  BY <1>11, HandlesKeepCore
<1>13. t.search = b.search /\ t.global = b.global
  BY <1>4 DEF Changes, Fields
<1>14. RefsLike(b, t)
  <2>1. ASSUME NEW y \in Handles
        PROVE  /\ t.hnd[y].search_state = b.hnd[y].search_state
               /\ y \notin Dotted => t.hnd[y].search_index \in Nat
    <3>1. CASE y = x
      BY <1>3, <1>7, <3>1 DEF HandlePut
    <3>2. CASE y # x
      <4>1. y \notin Dotted => b.hnd[y].search_index \in Nat
        BY DEF RefsOK
      <4> QED BY <1>7, <3>2, <4>1 DEF HandlePut
    <3> QED BY <3>1, <3>2
  <2> QED BY <1>10, <1>13, <2>1 DEF RefsLike
<1>15. RefsOK(t)
  BY <1>14, RefsLikeKeeps
<1> QED BY <1>2, <1>4, <1>6, <1>12, <1>15 DEF WalkedOn


\* search_try_next up to the point where the old request is finished.
NextBase(b, x, name) ==
  LET c == request_new([b EXCEPT !.hnd[x].search_index = @ + 1], x, name)
      d == IF name = Raw(x) THEN search_request_finished(c, x) ELSE c
  IN [d EXCEPT !.req[x] = b.req[x]]
NextRequest(b, x, name) ==
  request_new([b EXCEPT !.hnd[x].search_index = @ + 1], x, name).req[x]

TriesNext(b, e, x, r) == NewRequest(b, r) /\ \E k : SearchMoves(b, e, x, k)

LEMMA TryMoves ==
  ASSUME NEW b, Core(b, {}), RefsOK(b), NEW x \in Users, b.hnd[x].current_req,
         NEW name, name = NextName(b, x), name # None
  PROVE  TriesNext(b, NextBase(b, x, name), x, NextRequest(b, x, name))
<1>1. x \in Handles /\ DOMAIN b = Fields /\ b.hnd \in [Handles -> Handle] /\ b.hnd[x] \in Handle
      /\ b.req \in [Handles -> Request]
  BY HandleKinds DEF Core, NetTyped
<1>2. name \in Names /\ (name = Raw(x) => x \notin Dotted) /\ b.hnd[x].search_state # None
  BY <1>1, NextNameFacts
<1>3. PICK t : t = [b EXCEPT !.hnd[x].search_index = @ + 1]
  OBVIOUS
<1>4. PICK c : c = request_new(t, x, name)
  OBVIOUS
<1>5. PICK d : d = IF name = Raw(x) THEN search_request_finished(c, x) ELSE c
  OBVIOUS
<1>6. PICK e : e = [d EXCEPT !.req[x] = b.req[x]]
  OBVIOUS
<1>7. NextBase(b, x, name) = e
  <2>1. NextBase(b, x, name) =
          [(IF name = Raw(x) THEN search_request_finished(request_new([b EXCEPT !.hnd[x].search_index = @ + 1], x, name), x)
            ELSE request_new([b EXCEPT !.hnd[x].search_index = @ + 1], x, name)) EXCEPT !.req[x] = b.req[x]]
    BY Zenon DEF NextBase
  <2> QED BY <1>3, <1>4, <1>5, <1>6, <2>1
<1>8. NextRequest(b, x, name) = c.req[x]
  <2>1. NextRequest(b, x, name) = request_new([b EXCEPT !.hnd[x].search_index = @ + 1], x, name).req[x]
    BY DEF NextRequest
  <2> QED BY <1>3, <1>4, <2>1
<1>9. WalkedOn(b, t, x)
  BY <1>1, <1>2, <1>3, WalkedOnKeeps
<1>10. PICK k1 : k1 = Walked(b.hnd[x])
  OBVIOUS
<1>11. /\ k1 \in Handle /\ k1.search_index = b.hnd[x].search_index + 1 /\ k1.search_index \in Nat
       /\ k1.current_req = b.hnd[x].current_req /\ k1.pending_cb = b.hnd[x].pending_cb
       /\ k1.ns = b.hnd[x].ns /\ k1.search_state = b.hnd[x].search_state
  BY <1>1, <1>10, WalkedFacts
<1>12. Core(t, {}) /\ RefsOK(t) /\ Changes(b, t, {"hnd"}) /\ t.hnd = [b.hnd EXCEPT ![x] = k1]
  BY <1>9, <1>10 DEF WalkedOn, PutsHandle
<1>13. PICK r : NewFields(t, c, x, r)
  BY <1>1, <1>2, <1>4, <1>12, RequestNewFields
<1>14. /\ t.servers = b.servers /\ t.inflight = b.inflight /\ t.req = b.req /\ t.ninflight = b.ninflight
       /\ t.max_inflight = b.max_inflight /\ DOMAIN t = Fields
  BY <1>12 DEF Changes, Fields
<1>15. /\ Changes(t, c, {"servers", "dangling", "draw", "req"}) /\ TurnedServers(t, c)
       /\ c.draw \in Seq(Ids) /\ c.draw # <<>> /\ c.req = [t.req EXCEPT ![x] = r] /\ NewRequest(t, r)
  BY <1>13 DEF NewFields
<1>16. c.hnd = t.hnd /\ c.search = t.search /\ c.global = t.global /\ DOMAIN c = Fields
  BY <1>15 DEF Changes, Fields
<1>17. c.req[x] = r
  BY <1>1, <1>14, <1>15
<1>18. RefsOK(c) /\ c.hnd \in [Handles -> Handle]
  BY <1>12, <1>16, RefsSame DEF Core
<1>19. NewRequest(b, r)
  BY <1>14, <1>15 DEF NewRequest, Picks
<1>20. PICK k : k = IF name = Raw(x) THEN [k1 EXCEPT !.search_state = None] ELSE k1
  OBVIOUS
<1>21. /\ Changes(c, d, {"hnd", "search"}) /\ d.hnd = [b.hnd EXCEPT ![x] = k] /\ RefsOK(d)
  <2>1. CASE name = Raw(x)
    <3>1. SearchDropped(c, d, x)
      BY <1>1, <1>5, <1>16, <1>18, <2>1, SearchFinishedDrops
    <3>2. d.hnd = [c.hnd EXCEPT ![x] = [c.hnd[x] EXCEPT !.search_state = None]] /\ RefsOK(d)
          /\ Changes(c, d, {"search", "hnd"})
      BY <1>18, <3>1 DEF SearchDropped
    <3>3. c.hnd = [b.hnd EXCEPT ![x] = k1] /\ c.hnd[x] = k1
      BY <1>1, <1>12, <1>16
    <3>4. d.hnd = [b.hnd EXCEPT ![x] = k]
      BY <1>1, <1>20, <2>1, <3>2, <3>3
    <3> QED BY <3>2, <3>4 DEF Changes
  <2>2. CASE name # Raw(x)
    <3>1. d = c /\ k = k1
      BY <1>5, <1>20, <2>2
    <3> QED BY <1>12, <1>16, <1>18, <3>1 DEF Changes
  <2> QED BY <2>1, <2>2
<1>22. Changes(d, e, {"req"}) /\ e.req = b.req
  <2>1. DOMAIN d = Fields /\ d.req = c.req
    BY <1>21 DEF Changes, Fields
  <2>2. Changes(d, e, {"req"})
    BY <1>6, <2>1 DEF Changes, Fields
  <2>3. e.req = [[b.req EXCEPT ![x] = r] EXCEPT ![x] = b.req[x]]
    BY <1>6, <1>14, <1>15, <2>1 DEF Fields
  <2>4. e.req = b.req
    BY <1>1, <2>3
  <2> QED BY <2>2, <2>4
<1>23. Changes(b, e, {"hnd", "search", "servers", "dangling", "draw"})
  <2>1. ASSUME NEW f \in Fields, f \notin {"hnd", "search", "servers", "dangling", "draw"} PROVE e[f] = b[f]
    <3>1. CASE f = "req"
      BY <1>22, <3>1
    <3>2. CASE f # "req"
      <4>1. e[f] = d[f]
        BY <1>22, <3>2 DEF Changes
      <4>2. d[f] = c[f]
        BY <1>21, <2>1 DEF Changes
      <4>3. c[f] = t[f]
        BY <1>15, <2>1, <3>2 DEF Changes
      <4>4. t[f] = b[f]
        BY <1>12, <2>1 DEF Changes
      <4> QED BY <4>1, <4>2, <4>3, <4>4
    <3> QED BY <3>1, <3>2
  <2> QED BY <1>22, <2>1 DEF Changes
<1>24. e.servers = c.servers /\ e.draw = c.draw /\ e.hnd = d.hnd /\ e.search = d.search /\ e.global = d.global
  BY <1>21, <1>22 DEF Changes, Fields
<1>25. TurnedServers(b, e) /\ e.draw \in Seq(Ids) /\ e.draw # <<>>
  BY <1>14, <1>15, <1>24 DEF TurnedServers
<1>26. RefsOK(e)
  BY <1>21, <1>24, RefsSame
<1>27. /\ k \in Handle /\ k.current_req /\ (k.pending_cb <=> b.hnd[x].pending_cb) /\ k.ns = b.hnd[x].ns
       /\ k.search_index = k1.search_index /\ (name # Raw(x) => k.search_state = b.hnd[x].search_state)
  <2>1. CASE name = Raw(x)
    <3>1. k = [k1 EXCEPT !.search_state = None]
      BY <1>20, <2>1
    <3> QED BY <1>11, <2>1, <3>1 DEF Handle
  <2>2. CASE name # Raw(x)
    <3>1. k = k1
      BY <1>20, <2>2
    <3> QED BY <1>11, <3>1
  <2> QED BY <2>1, <2>2
<1>28. PutsHandle(b, e, x, k) /\ e.hnd[x] = k
  BY <1>1, <1>21, <1>24, <1>27 DEF PutsHandle
<1>29. SearchedOn(e, x)
  <2>1. CASE x \in Dotted
    <3>1. name # Raw(x)
      BY <1>2, <2>1
    <3> QED BY <1>2, <1>11, <1>27, <1>28, <2>1, <3>1 DEF SearchedOn
  <2>2. CASE x \notin Dotted
    <3>1. b.hnd[x].search_index \in Nat
      BY <1>1, <2>2 DEF RefsOK
    <3>2. k.search_index # 0
      BY <1>11, <1>27, <3>1
    <3> QED BY <1>28, <2>2, <3>2 DEF SearchedOn
  <2> QED BY <2>1, <2>2
<1>30. SearchMoves(b, e, x, k)
  BY <1>23, <1>25, <1>26, <1>27, <1>28, <1>29 DEF SearchMoves
<1> QED BY <1>7, <1>8, <1>17, <1>19, <1>30 DEF TriesNext


LEMMA SameServers ==
  ASSUME NEW b, NEW c, b.servers \in Seq(Servers), c.servers \in Seq(Servers),
         \A n \in Servers : Lists(c.servers, n) <=> Lists(b.servers, n)
  PROVE  (c.servers = <<>>) <=> (b.servers = <<>>)
<1>1. \A n : Lists(c.servers, n) \/ Lists(b.servers, n) => n \in Servers
  BY MembersFacts
<1> QED BY <1>1, MembersFacts

\* search_try_next: the search has a request again.
LEMMA TryGood ==
  ASSUME NEW b, NEW V, NEW Z, Good(b, V, Z, {}), NEW x \in Users, b.hnd[x].current_req,
         NEW name, name = NextName(b, x), name # None, NEW send \in [Servers -> Sent],
         NEW c, c = search_try_next(b, x, name, send)
  PROVE  Good(c, V, Z, {}) /\ Follows(b, c)
<1>1. x \in Handles /\ Core(b, {}) /\ RefsOK(b)
  BY HandleKinds DEF Good, Sound
<1>2. PICK e : e = NextBase(b, x, name)
  OBVIOUS
<1>3. PICK r : r = NextRequest(b, x, name)
  OBVIOUS
<1>4. TriesNext(b, e, x, r)
  BY <1>1, <1>2, <1>3, TryMoves
<1>5. PICK k : SearchMoves(b, e, x, k)
  BY <1>4 DEF TriesNext
<1>6. Good(e, V, Z, {})
  BY <1>5, SearchMovesGood
<1>7. Core(e, {}) /\ e.max_inflight \in 1 .. 5 /\ e.servers \in Seq(Servers) /\ (e.servers = <<>> => e.suspended)
  BY <1>6 DEF Good, Sound, Core, NetTyped
<1>8. e.req = b.req /\ e.hnd[x].current_req /\ SearchedOn(e, x)
  <2>1. e.req = b.req
    BY <1>5, SearchMovesFields DEF SearchMoves, SearchFields
  <2>2. b.hnd \in [Handles -> Handle]
    BY <1>1 DEF Core
  <2>3. HandlePut(b, e, x, k)
    BY <1>1, <1>5, <2>2, HandleIsPut DEF SearchMoves
  <2> QED BY <1>5, <2>1, <2>3 DEF SearchMoves, HandlePut
<1>9. PICK u : u = Unlink(e, x, e.req[x].ns)
  OBVIOUS
<1>10. PICK v : v = [u EXCEPT !.req[x] = r]
  OBVIOUS
<1>11. PICK w : w = evdns_requests_pump_waiting_queue(v, send)
  OBVIOUS
<1>12. c = request_submit(w, x, send)
  <2>1. search_try_next(b, x, name, send)
        = request_submit(evdns_requests_pump_waiting_queue(
             [Unlink(NextBase(b, x, name), x, b.req[x].ns) EXCEPT !.req[x] = NextRequest(b, x, name)],
             send), x, send)
    BY Zenon DEF search_try_next, NextBase, NextRequest
  <2> QED BY <1>2, <1>3, <1>8, <1>9, <1>10, <1>11, <2>1
<1>13. Unlinked(e, u, x)
  BY <1>1, <1>7, <1>8, <1>9, UnlinkKeeps
<1>14. /\ Core(u, {x}) /\ Same(e, u, ClientFields) /\ ServersEased(e, u) /\ u.servers = e.servers
       /\ (~DisableWhenInactive /\ Watched(e, {x}) => Watched(u, {}))
  BY <1>13 DEF Unlinked
<1>15. SetsRequest(u, v, x, r)
  <2>1. DOMAIN u = Fields /\ u.draw \in Seq(Ids) /\ u.draw # <<>>
    BY <1>14 DEF Core, NetTyped
  <2>2. Changes(u, v, {"req", "draw"})
    BY <1>10, <2>1 DEF Changes, Fields
  <2>3. v.req = [u.req EXCEPT ![x] = r] /\ v.draw = u.draw
    BY <1>10, <2>1 DEF Fields
  <2>4. NewRequest(b, r)
    BY <1>4 DEF TriesNext
  <2>5. \A n : Lists(u.servers, n) <=> Lists(b.servers, n)
    BY <1>5, <1>14 DEF SearchMoves, TurnedServers
  <2> QED BY <2>1, <2>2, <2>3, <2>4, <2>5 DEF SetsRequest, NewRequest
<1>16. RequestSet(u, v, {x}, x, r)
  <2>1. x \in {x} \cap Handles
    BY <1>1
  <2> QED BY <1>14, <1>15, <2>1, SetRequestKeeps
<1>17. Core(v, {x}) /\ Calm(u, v) /\ v.req[x] = r /\ (Watched(u, {}) => Watched(v, {}))
  BY <1>16 DEF RequestSet
<1>18. u.max_inflight = e.max_inflight /\ v.max_inflight = u.max_inflight
  BY <1>14, <1>17 DEF Calm, Same, ClientFields
<1>19. Pumping(v, w, {x})
  BY <1>7, <1>11, <1>17, <1>18, PumpFacts
<1>20. Core(w, {x}) /\ Calm(v, w) /\ (Watched(v, {}) => Watched(w, {}))
  BY <1>19 DEF Pumping
<1>21. Same(e, w, ClientFields)
  BY <1>14, <1>17, <1>20 DEF Calm, Same
<1>22. w.hnd = e.hnd
  BY <1>21 DEF Same, ClientFields
<1>23. w.hnd[x].current_req /\ MayJoin(w, x)
  BY <1>8, <1>22 DEF MayJoin, SearchedOn
<1>24. Submitted(w, c, x)
  BY <1>1, <1>12, <1>20, <1>23, SubmitKeeps
<1>25. Core(c, {}) /\ Calm(w, c) /\ (Watched(w, {}) => Watched(c, {}))
       /\ (Lists(c.inflight, x) \/ Lists(c.waiting, x))
  BY <1>24 DEF Submitted
<1>26. Same(e, c, ClientFields)
  BY <1>21, <1>25 DEF Calm, Same
<1>27. ServersEased(e, c)
  <2>1. ServersEased(u, v) /\ ServersEased(v, w) /\ ServersEased(w, c)
    BY <1>17, <1>20, <1>25, CalmEased
  <2>2. ServersEased(e, v)
    BY <1>14, <2>1, EasedTwice
  <2>3. ServersEased(e, w)
    BY <2>1, <2>2, EasedTwice
  <2> QED BY <2>1, <2>3, EasedTwice
<1>28. Sound(c, V, Z)
  BY <1>6, <1>25, <1>26, <1>27, EasedSound DEF Good
<1>29. c.hnd = e.hnd /\ c.deferred = e.deferred /\ c.suspended = e.suspended
  BY <1>26 DEF Same, ClientFields
<1>30. FedOK(c)
  <2>1. c.inflight \in Seq(Handles)
    BY <1>25 DEF Core, NetTyped
  <2>2. Lists(c.inflight, x) => c.inflight # <<>>
    BY <2>1, MembersFacts
  <2>3. SearchedOn(c, x)
    BY <1>8, <1>29 DEF SearchedOn
  <2> QED BY <1>1, <1>25, <2>2, <2>3 DEF FedOK
<1>31. c.servers = <<>> => c.suspended
  <2>1. c.servers \in Seq(Servers) /\ \A n \in Servers : Lists(c.servers, n) <=> Lists(e.servers, n)
    BY <1>25, <1>27 DEF Core, NetTyped, ServersEased
  <2> QED BY <1>7, <1>29, <2>1, SameServers
<1>32. ASSUME ~DisableWhenInactive PROVE Watched(c, {}) /\ DownOK(c, V, Z)
  <2>1. Watched(e, {}) /\ DownOK(e, V, Z)
    BY <1>6, <1>32 DEF Good
  <2>2. Watched(e, {x})
    BY <2>1 DEF Watched
  <2> QED BY <1>14, <1>17, <1>20, <1>25, <1>27, <1>29, <1>32, <2>1, <2>2, EasedDown
<1>33. Follows(b, c)
  <2>1. Pend(b, V)
    BY DEF Good, Sound
  <2>2. b.deferred \in Seq(Entry)
    BY <2>1 DEF Pend, Entry
  <2>3. e.deferred = b.deferred /\ e.told = b.told /\ e.hnd[x].current_req
    BY <1>5, <1>8, SearchMovesFields DEF SearchMoves, SearchFields
  <2>4. b.hnd \in [Handles -> Handle]
    BY <1>1 DEF Core
  <2>5. HandlePut(b, e, x, k)
    BY <1>1, <1>5, <2>4, HandleIsPut DEF SearchMoves
  <2>6. k.current_req = b.hnd[x].current_req
    BY <1>1, <1>5, <2>4, <2>5 DEF SearchMoves, HandlePut, Handle
  <2>7. \A y \in Users : c.hnd[y].current_req = b.hnd[y].current_req
    BY <1>29, <2>5, <2>6, HandleKinds DEF HandlePut
  <2>8. c.told = b.told
    BY <1>26, <2>3 DEF Same, ClientFields
  <2> QED BY <1>29, <2>2, <2>3, <2>7, <2>8, FollowsCurrent
<1> QED BY <1>28, <1>30, <1>31, <1>32, <1>33 DEF Good

-----------------------------------------------------------------------------
(* The client: answers and timeouts.                                       *)

LEMMA GoodCore ==
  ASSUME NEW b, NEW V, NEW Z, NEW X, Good(b, V, Z, X)
  PROVE  /\ Core(b, {}) /\ RefsOK(b) /\ Pend(b, V) /\ Rest(b, V, Z) /\ NetTyped(b)
         /\ DOMAIN b = Fields /\ b.hnd \in [Handles -> Handle] /\ b.ns \in [Servers -> Server]
         /\ b.req \in [Handles -> Request] /\ b.servers \in Seq(Servers)
         /\ b.inflight \in Seq(Handles) /\ b.waiting \in Seq(Handles)
         /\ b.max_inflight \in 1 .. 5
BY DEF Good, Sound, Core, NetTyped

\* Steps that leave the handles and the results alone.
LEMMA GoodFollows ==
  ASSUME NEW b, NEW V, NEW Z, NEW X, Good(b, V, Z, X), NEW c, c.hnd = b.hnd,
         c.deferred = b.deferred, c.told = b.told
  PROVE  Follows(b, c)
<1>1. Pend(b, V)
  BY GoodCore
<1> QED BY <1>1, FollowsSame

LEMMA KeptFollows ==
  ASSUME NEW b, NEW V, NEW Z, NEW X, Good(b, V, Z, X), NEW c, Kept(b, c)
  PROVE  Follows(b, c)
<1>1. c.hnd = b.hnd /\ c.deferred = b.deferred /\ c.told = b.told
  BY DEF Kept, Same, ClientFields
<1> QED BY <1>1, GoodFollows

\* A request gets its result and is finished.
LEMMA EndGood ==
  ASSUME NEW b, NEW V, NEW X \in SUBSET Handles, Good(b, V, {}, X), NEW x \in Handles, V \subseteq {x},
         X \subseteq {x}, b.hnd[x].current_req, ~b.hnd[x].pending_cb,
         NEW err \in Errors \ {"CANCEL"}, NEW send \in [Servers -> Sent],
         NEW c, c = request_finished(reply_schedule_callback(b, x, err), x, send)
  PROVE  /\ Good(c, {}, {}, {}) /\ Follows(b, c)
         /\ \A n : Lists(b.servers, n) /\ n \in Servers => Lists(c.servers, n)
<1>1. PICK a : a = reply_schedule_callback(b, x, err)
  OBVIOUS
<1>2. MayEnd(b, x, err, {})
  BY DEF MayEnd
<1>3. Good(a, V \cup {x}, {}, X) /\ ScheduledFacts(b, a, x, err)
  BY <1>1, <1>2, ScheduleGood
<1>4. a.hnd[x].pending_cb /\ a.hnd[x].current_req /\ a.servers = b.servers
  BY <1>3 DEF ScheduledFacts, Fields
<1>5. Good(c, (V \cup {x}) \ {x}, {}, {}) /\ Finished(a, c, x)
  BY <1>1, <1>3, <1>4, FinishGood
<1>6. (V \cup {x}) \ {x} = {}
  OBVIOUS
<1>7. Follows(b, c)
  <2>1. Pend(b, V) /\ DOMAIN b = Fields /\ b.hnd \in [Handles -> Handle]
    BY GoodCore
  <2>2. Follows(b, a) /\ HasResult(a, x)
    BY <1>1, <1>3, <2>1, FollowsSchedule
  <2>3. Pend(a, V \cup {x}) /\ a.hnd \in [Handles -> Handle]
    BY <1>3, GoodCore
  <2>4. Follows(a, c)
    BY <1>5, <2>2, <2>3, FollowsFinish
  <2> QED BY <2>2, <2>4, FollowsTwice
<1> QED BY <1>4, <1>5, <1>6, <1>7 DEF Finished, ServersEased

\* Fail: the search goes on, or the request ends.
LEMMA FailGood ==
  ASSUME NEW b, NEW V, Good(b, V, {}, {}), NEW x \in Handles, V \subseteq {x},
         x \in Users => V = {}, b.hnd[x].current_req, ~b.hnd[x].pending_cb,
         NEW err \in Errors \ {"CANCEL"}, NEW send \in [Servers -> Sent],
         NEW c, c = Fail(b, x, err, send)
  PROVE  Good(c, {}, {}, {}) /\ Follows(b, c)
<1>1. PICK name : name = NextName(b, x)
  OBVIOUS
<1>2. c = IF name # None THEN search_try_next(b, x, name, send)
          ELSE request_finished(reply_schedule_callback(b, x, err), x, send)
  BY <1>1 DEF Fail
<1>3. CASE name # None
  <2>1. x \in Users
    BY <1>1, <1>3, GoodCore, NextNameFacts
  <2>2. Good(b, {}, {}, {})
    BY <2>1
  <2> QED BY <1>1, <1>2, <1>3, <2>1, <2>2, TryGood
<1>4. CASE name = None
  BY <1>2, <1>4, EndGood
<1> QED BY <1>3, <1>4

\* nameserver_failed.
LEMMA ServerFailsGood ==
  ASSUME NEW b, NEW V, NEW Z, NEW X, Good(b, V, Z, X), NEW n \in Servers, Lists(b.servers, n),
         NEW c, c = nameserver_failed(b, n)
  PROVE  Good(c, V, Z, X) /\ Moved(b, c, {}) /\ Follows(b, c)
<1>1. Moved(b, c, {})
  BY GoodCore, ServerFailedMoved
<1>2. Follows(b, c)
  BY <1>1, KeptFollows DEF Moved
<1> QED BY <1>1, <1>2, MovedGood

\* A request in flight has no result yet.
LEMMA InflightFacts ==
  ASSUME NEW b, NEW X, Good(b, {}, {}, X), NEW x \in Handles, Lists(b.inflight, x)
  PROVE  /\ b.req[x].ns \in Servers /\ Lists(b.servers, b.req[x].ns)
         /\ b.hnd[x].current_req /\ ~b.hnd[x].pending_cb
<1>1. Core(b, {}) /\ Pend(b, {})
  BY GoodCore
<1> QED BY <1>1, InflightAt DEF Pend

LEMMA GiveUpGood ==
  ASSUME NEW b, NEW x \in Handles, NEW X \in SUBSET {x}, Good(b, {}, {}, X), Lists(b.inflight, x),
         NEW send \in [Servers -> Sent], NEW c, c = GiveUp(b, x, send)
  PROVE  Good(c, {}, {}, {}) /\ Follows(b, c)
<1>1. PICK n : n = b.req[x].ns
  OBVIOUS
<1>2. n \in Servers /\ Lists(b.servers, n) /\ b.hnd[x].current_req /\ ~b.hnd[x].pending_cb
  BY <1>1, InflightFacts
<1>3. PICK a : a = request_finished(reply_schedule_callback(b, x, "TIMEOUT"), x, send)
  OBVIOUS
<1>4. "TIMEOUT" \in Errors \ {"CANCEL"}
  BY DEF Errors
<1>5. Good(a, {}, {}, {}) /\ Lists(a.servers, n) /\ Follows(b, a)
  BY <1>2, <1>3, <1>4, EndGood
<1>6. c = nameserver_failed(a, n)
  BY <1>1, <1>3 DEF GiveUp
<1>7. Good(c, {}, {}, {}) /\ Follows(a, c)
  BY <1>2, <1>5, <1>6, ServerFailsGood
<1> QED BY <1>5, <1>7, FollowsTwice


\* timedout is not looked at by anything else.
Counted(k, t) == [k EXCEPT !.timedout = t]

LEMMA CountedFacts ==
  ASSUME NEW k \in Server, NEW t \in Nat, NEW m, m = Counted(k, t)
  PROVE  /\ m \in Server /\ QuietServer(k, m) /\ m.choked = k.choked
         /\ m.write_waiting = k.write_waiting /\ m.event = k.event
<1>1. m = [k EXCEPT !.timedout = t]
  BY DEF Counted
<1> QED BY <1>1 DEF Server, QuietServer

CountPut(b, c, V, Z, X) == Good(c, V, Z, X) /\ c.servers = b.servers /\ c.inflight = b.inflight /\ c.req = b.req
                           /\ c.hnd = b.hnd /\ Follows(b, c)

LEMMA CountedGood ==
  ASSUME NEW b, NEW V, NEW Z, NEW X, Good(b, V, Z, X), NEW c, Changes(b, c, {"ns", "net"}),
         NEW n \in Servers, NEW t \in Nat, c.ns = [b.ns EXCEPT ![n] = Counted(b.ns[n], t)]
  PROVE  CountPut(b, c, V, Z, X)
<1>1. b.ns[n] \in Server
  BY GoodCore
<1>2. PICK k : k = Counted(b.ns[n], t)
  OBVIOUS
<1>3. /\ k \in Server /\ QuietServer(b.ns[n], k) /\ k.choked = b.ns[n].choked
      /\ k.write_waiting = b.ns[n].write_waiting /\ k.event = b.ns[n].event
  BY <1>1, <1>2, CountedFacts
<1>4. ServerPut(b, c, n, k) /\ Changes(b, c, {"ns", "net", "faults"})
  BY <1>2, <1>3 DEF ServerPut, Changes
<1>5. Good(c, V, Z, X)
  BY <1>3, <1>4, ServerPutGood
<1>6. c.servers = b.servers /\ c.inflight = b.inflight /\ c.req = b.req /\ c.hnd = b.hnd
  BY DEF Changes, Fields
<1>7. Follows(b, c)
  <2>1. c.deferred = b.deferred /\ c.told = b.told
    BY DEF Changes, Fields
  <2> QED BY <1>6, <2>1, GoodFollows
<1> QED BY <1>5, <1>6, <1>7 DEF CountPut

LEMMA CountTimeoutGood ==
  ASSUME NEW b, NEW V, NEW Z, NEW X, Good(b, V, Z, X), NEW n \in Servers, Lists(b.servers, n),
         NEW c, c = CountTimeout(b, n)
  PROVE  Good(c, V, Z, X) /\ Follows(b, c)
<1>1. b.ns[n] \in Server /\ b.ns[n].timedout \in Nat /\ DOMAIN b = Fields /\ b.ns \in [Servers -> Server]
  BY GoodCore DEF Server
<1>2. CASE b.ns[n].timedout + 1 > MaxTimeouts
  <2>1. PICK a : a = [b EXCEPT !.ns[n].timedout = 0]
    OBVIOUS
  <2>2. c = nameserver_failed(a, n)
    BY <1>2, <2>1 DEF CountTimeout
  <2>3. Changes(b, a, {"ns", "net"})
    BY <1>1, <2>1 DEF Changes, Fields
  <2>4. a.ns = [b.ns EXCEPT ![n] = Counted(b.ns[n], 0)]
    BY <1>1, <2>1 DEF Counted, Fields
  <2>5. 0 \in Nat
    OBVIOUS
  <2>6. CountPut(b, a, V, Z, X)
    BY <2>3, <2>4, <2>5, CountedGood
  <2>7. Good(c, V, Z, X) /\ Follows(a, c)
    BY <2>2, <2>6, ServerFailsGood DEF CountPut
  <2> QED BY <2>6, <2>7, FollowsTwice DEF CountPut
<1>3. CASE ~(b.ns[n].timedout + 1 > MaxTimeouts)
  <2>1. PICK t : t = b.ns[n].timedout + 1
    OBVIOUS
  <2>2. t \in Nat
    BY <1>1, <2>1
  <2>3. c = [b EXCEPT !.ns[n].timedout = @ + 1]
    BY <1>3 DEF CountTimeout
  <2>4. Changes(b, c, {"ns", "net"})
    BY <1>1, <2>3 DEF Changes, Fields
  <2>5. c.ns = [b.ns EXCEPT ![n] = Counted(b.ns[n], t)]
    BY <1>1, <2>1, <2>3 DEF Counted, Fields
  <2>6. CountPut(b, c, V, Z, X)
    BY <2>2, <2>4, <2>5, CountedGood
  <2> QED BY <2>6 DEF CountPut
<1> QED BY <1>2, <1>3

\* One request in flight is changed in a quiet way.
TimerStopped(b, c, x) ==
  /\ Good(c, {}, {}, {x}) /\ c.servers = b.servers /\ c.inflight = b.inflight /\ c.ns = b.ns
  /\ Follows(b, c)

LEMMA RequestPutGood ==
  ASSUME NEW b, NEW X, Good(b, {}, {}, X), NEW x \in Handles, Lists(b.inflight, x), NEW c,
         Changes(b, c, {"req", "net", "faults"}), NEW r, RequestPut(b, c, x, r), QuietRequest(b.req[x], r),
         NEW Y, Watched(b, X) /\ (\A y \in Handles : y # x => c.req[y] = b.req[y]) /\ c.req[x] = r => Watched(c, Y)
  PROVE  Good(c, {}, {}, Y)
<1>1. Core(b, {}) /\ NetTyped(b)
  BY GoodCore
<1>2. Quiet(b, c) /\ c.ns = b.ns /\ c.req[x] = r /\ \A y \in Handles : y # x => c.req[y] = b.req[y]
  BY <1>1, QuietRequestStep
<1>3. Core(c, {}) /\ Kept(b, c) /\ SameQueues(b, c)
  BY <1>1, <1>2, QuietKeeps
<1> QED BY <1>2, <1>3, KeptGood

\* The timer of a request has fired, or is stopped.
LEMMA TimerStopGood ==
  ASSUME NEW b, NEW x \in Handles, NEW X \in SUBSET {x}, Good(b, {}, {}, X), Lists(b.inflight, x),
         NEW c, c = [b EXCEPT !.req[x].timeout = FALSE]
  PROVE  TimerStopped(b, c, x)
<1>1. DOMAIN b = Fields /\ b.req \in [Handles -> Request] /\ b.req[x] \in Request
  BY GoodCore
<1>2. PICK r : r = [b.req[x] EXCEPT !.timeout = FALSE]
  OBVIOUS
<1>3. r \in Request /\ QuietRequest(b.req[x], r)
  BY <1>1, <1>2 DEF Request, QuietRequest
<1>4. Changes(b, c, {"req"})
  BY <1>1 DEF Changes, Fields
<1>5. c.req = [b.req EXCEPT ![x] = r]
  BY <1>1, <1>2 DEF Fields
<1>6. c.servers = b.servers /\ c.inflight = b.inflight /\ c.ns = b.ns
  BY <1>4 DEF Changes, Fields
<1>7. ASSUME Watched(b, X), \A y \in Handles : y # x => c.req[y] = b.req[y] PROVE Watched(c, {x})
  BY <1>6, <1>7 DEF Watched, SomeWaits
<1>8. Changes(b, c, {"req", "net", "faults"}) /\ RequestPut(b, c, x, r)
  BY <1>3, <1>4, <1>5 DEF Changes, RequestPut
<1>9. Good(c, {}, {}, {x})
  BY <1>3, <1>7, <1>8, RequestPutGood
<1>10. Follows(b, c)
  <2>1. c.hnd = b.hnd /\ c.deferred = b.deferred /\ c.told = b.told
    BY <1>4 DEF Changes, Fields
  <2> QED BY <2>1, GoodFollows
<1> QED BY <1>6, <1>9, <1>10 DEF TimerStopped

LEMMA RetransmitGood ==
  ASSUME NEW b, NEW x \in Handles, NEW X \in SUBSET {x}, Good(b, {}, {}, X), Lists(b.inflight, x),
         NEW send \in [Servers -> Sent], NEW c, c = Retransmit(b, x, send)
  PROVE  Good(c, {}, {}, {}) /\ Follows(b, c)
<1>1. PICK a : a = [b EXCEPT !.req[x].timeout = FALSE]
  OBVIOUS
<1>2. PICK d : d = SwapToPicked(a, x)
  OBVIOUS
<1>3. PICK e : e = evdns_request_transmit(d, x, send)
  OBVIOUS
<1>4. c = CountTimeout(e, e.req[x].ns)
  BY <1>1, <1>2, <1>3 DEF Retransmit
<1>5. Good(a, {}, {}, {x}) /\ Lists(a.inflight, x) /\ Follows(b, a)
  BY <1>1, TimerStopGood DEF TimerStopped
<1>6. Moved(a, d, {})
  BY <1>2, <1>5, GoodCore, SwapToPickedMoved
<1>7. Good(d, {}, {}, {x}) /\ Lists(d.inflight, x)
  BY <1>5, <1>6, MovedGood DEF Moved, SameQueues
<1>8. Sending(d, e, {}, x)
  BY <1>3, <1>7, GoodCore, TransmitSending
<1>9. Good(e, {}, {}, {}) /\ Lists(e.inflight, x)
  BY <1>7, <1>8, KeptGood DEF Sending, SameQueues
<1>10. PICK n : n = e.req[x].ns
  OBVIOUS
<1>11. n \in Servers /\ Lists(e.servers, n)
  BY <1>9, <1>10, InflightFacts
<1>12. Good(c, {}, {}, {}) /\ Follows(e, c)
  BY <1>4, <1>9, <1>10, <1>11, CountTimeoutGood
<1>13. Follows(b, e)
  <2>1. Follows(a, d)
    BY <1>5, <1>6, KeptFollows DEF Moved
  <2>2. Follows(d, e)
    BY <1>7, <1>8, KeptFollows DEF Sending
  <2>3. Follows(b, d)
    BY <1>5, <2>1, FollowsTwice
  <2> QED BY <2>2, <2>3, FollowsTwice
<1> QED BY <1>12, <1>13, FollowsTwice

LEMMA TimeoutGood ==
  ASSUME NEW b, NEW x \in Handles, NEW X \in SUBSET {x}, Good(b, {}, {}, X), Lists(b.inflight, x),
         NEW send \in [Servers -> Sent], NEW c, c = evdns_request_timeout(b, x, send)
  PROVE  Good(c, {}, {}, {}) /\ Follows(b, c)
<1>1. c = GiveUp(b, x, send) \/ c = Retransmit(b, x, send)
  BY DEF evdns_request_timeout
<1> QED BY <1>1, GiveUpGood, RetransmitGood

-----------------------------------------------------------------------------
(* What an answer does to the base.                                        *)

Retried(r) == [r EXCEPT !.reissue_count = @ + 1, !.tx_count = 0, !.transmit_me = TRUE]

LEMMA RetriedFacts ==
  ASSUME NEW r \in Request, NEW q, q = Retried(r)
  PROVE  q \in Request /\ QuietRequest(r, q) /\ (q.timeout <=> r.timeout) /\ q.transmit_me
<1>1. PICK i : i = r.reissue_count + 1
  OBVIOUS
<1>2. i \in Nat
  BY <1>1 DEF Request
<1>3. q = [r EXCEPT !.reissue_count = i, !.tx_count = 0, !.transmit_me = TRUE]
  BY <1>1 DEF Retried
<1>4. q \in Request
  <2>1. PICK p : p = [r EXCEPT !.reissue_count = i]
    OBVIOUS
  <2>2. p \in Request
    BY <1>2, <2>1 DEF Request
  <2>3. PICK z \in Nat : z = 0
    OBVIOUS
  <2>4. PICK o : o = [p EXCEPT !.tx_count = z]
    OBVIOUS
  <2>5. o \in Request
    BY <2>2, <2>3, <2>4 DEF Request
  <2>6. q = [o EXCEPT !.transmit_me = TRUE]
    BY <1>3, <2>1, <2>3, <2>4 DEF Request
  <2> QED BY <2>5, <2>6 DEF Request
<1>5. q.ns = r.ns /\ q.trans_id = r.trans_id /\ (q.timeout <=> r.timeout) /\ q.transmit_me
  BY <1>3 DEF Request
<1> QED BY <1>4, <1>5 DEF QuietRequest

\* A server refused: another one gets the request, or it fails.
LEMMA RefusedGood ==
  ASSUME NEW b, Good(b, {}, {}, {}), NEW x \in Handles, Lists(b.inflight, x),
         NEW send \in [Servers -> Sent], NEW c, c = reply_refused(b, x, send)
  PROVE  Good(c, {}, {}, {}) /\ Follows(b, c)
<1>1. /\ b.req[x].ns \in Servers /\ Lists(b.servers, b.req[x].ns)
      /\ b.hnd[x].current_req /\ ~b.hnd[x].pending_cb
  BY InflightFacts
<1>2. "REFUSED" \in Errors \ {"CANCEL"}
  BY DEF Errors, Answers
<1>3. CASE b.req[x].reissue_count >= MaxReissues
  <2>1. c = Fail(b, x, "REFUSED", send)
    BY <1>3 DEF reply_refused
  <2> QED BY <1>1, <1>2, <2>1, FailGood
<1>4. CASE ~(b.req[x].reissue_count >= MaxReissues)
  <2>1. PICK n : n = b.req[x].ns
    OBVIOUS
  <2>2. PICK a : a = nameserver_failed(b, n)
    OBVIOUS
  <2>3. PICK s : s = SwapToPicked(a, x)
    OBVIOUS
  <2>4. PICK last : last = a.req[x].ns
    OBVIOUS
  <2>5. c = request_reissue(s, last, x, send)
    BY <1>4, <2>1, <2>2, <2>3, <2>4 DEF reply_refused
  <2>6. Good(a, {}, {}, {}) /\ Lists(a.inflight, x) /\ Follows(b, a)
    BY <1>1, <2>1, <2>2, ServerFailsGood DEF Moved, SameQueues
  <2>7. Moved(a, s, {})
    BY <2>3, <2>6, GoodCore, SwapToPickedMoved
  <2>8. Good(s, {}, {}, {}) /\ Lists(s.inflight, x)
    BY <2>6, <2>7, MovedGood DEF Moved, SameQueues
  <2>11. Follows(b, s)
    <3>1. Follows(a, s)
      BY <2>6, <2>7, KeptFollows DEF Moved
    <3> QED BY <2>6, <3>1, FollowsTwice
  <2>9. CASE s.req[x].ns = last
    <3>1. c = Fail(s, x, "REFUSED", send)
      BY <2>5, <2>9 DEF request_reissue
    <3>2. s.hnd[x].current_req /\ ~s.hnd[x].pending_cb
      BY <2>8, InflightFacts
    <3>3. Good(c, {}, {}, {}) /\ Follows(s, c)
      BY <1>2, <2>8, <3>1, <3>2, FailGood
    <3> QED BY <2>11, <3>3, FollowsTwice
  <2>10. CASE s.req[x].ns # last
    <3>1. c = [s EXCEPT !.req[x].reissue_count = @ + 1, !.req[x].tx_count = 0,
                        !.req[x].transmit_me = TRUE]
      BY <2>5, <2>10 DEF request_reissue
    <3>2. DOMAIN s = Fields /\ s.req \in [Handles -> Request] /\ s.req[x] \in Request
      BY <2>8, GoodCore
    <3>3. PICK q : q = Retried(s.req[x])
      OBVIOUS
    <3>4. q \in Request /\ QuietRequest(s.req[x], q) /\ (q.timeout <=> s.req[x].timeout) /\ q.transmit_me
      BY <3>2, <3>3, RetriedFacts
    <3>5. Changes(s, c, {"req"})
      BY <3>1, <3>2 DEF Changes, Fields
    <3>6. c.req = [s.req EXCEPT ![x] = q]
      <4>1. PICK i : i = s.req[x].reissue_count + 1
        OBVIOUS
      <4>2. q = [s.req[x] EXCEPT !.reissue_count = i, !.tx_count = 0, !.transmit_me = TRUE]
        BY <3>3, <4>1 DEF Retried
      <4>3. c = [s EXCEPT !.req[x].reissue_count = i, !.req[x].tx_count = 0, !.req[x].transmit_me = TRUE]
        BY <3>1, <3>2, <4>1
      <4>4. c.req = [s.req EXCEPT ![x].reissue_count = i, ![x].tx_count = 0, ![x].transmit_me = TRUE]
        BY <3>2, <4>3 DEF Fields
      <4> QED BY <3>2, <4>2, <4>4
    <3>7. c.servers = s.servers /\ c.inflight = s.inflight /\ c.ns = s.ns
      BY <3>5 DEF Changes, Fields
    <3>8. ASSUME Watched(s, {}), \A y \in Handles : y # x => c.req[y] = s.req[y], c.req[x] = q
          PROVE  Watched(c, {})
      BY <3>4, <3>7, <3>8 DEF Watched, SomeWaits
    <3>9. Changes(s, c, {"req", "net", "faults"}) /\ RequestPut(s, c, x, q)
      BY <3>4, <3>5, <3>6 DEF Changes, RequestPut
    <3>10. Good(c, {}, {}, {})
      BY <2>8, <3>4, <3>8, <3>9, RequestPutGood
    <3>11. Follows(s, c)
      <4>1. c.hnd = s.hnd /\ c.deferred = s.deferred /\ c.told = s.told
        BY <3>5 DEF Changes, Fields
      <4> QED BY <2>8, <4>1, GoodFollows
    <3> QED BY <2>11, <3>10, <3>11, FollowsTwice
  <2> QED BY <2>9, <2>10
<1> QED BY <1>3, <1>4

\* The answer is the result: it is on its way, the server is up, the request ends.
LEMMA AnswerGood ==
  ASSUME NEW b, Good(b, {}, {}, {}), NEW x \in Handles, Lists(b.inflight, x),
         NEW send \in [Servers -> Sent], NEW c,
         c = request_finished(MarkUp(reply_schedule_callback(b, x, "NONE"), x, send), x, send)
  PROVE  Good(c, {}, {}, {}) /\ Follows(b, c)
<1>1. b.hnd[x].current_req /\ ~b.hnd[x].pending_cb
  BY InflightFacts
<1>2. "NONE" \in Errors /\ MayEnd(b, x, "NONE", {})
  BY DEF Errors, Answers, MayEnd
<1>3. PICK a : a = reply_schedule_callback(b, x, "NONE")
  OBVIOUS
<1>4. PICK d : d = MarkUp(a, x, send)
  OBVIOUS
<1>5. c = request_finished(d, x, send)
  BY <1>3, <1>4
<1>6. Good(a, {} \cup {x}, {}, {}) /\ ScheduledFacts(b, a, x, "NONE")
  BY <1>1, <1>2, <1>3, ScheduleGood
<1>7. Good(a, {x}, {}, {}) /\ Lists(a.inflight, x) /\ a.hnd[x].current_req /\ a.hnd[x].pending_cb
  <2>1. {} \cup {x} = {x}
    OBVIOUS
  <2>2. a.inflight = b.inflight
    BY <1>6 DEF ScheduledFacts, Fields
  <2> QED BY <1>1, <1>6, <2>1, <2>2 DEF ScheduledFacts
<1>8. PICK W \in SUBSET {x} : Good(d, W, {}, {}) /\ {x} \subseteq W
  BY <1>4, <1>7, MarkUpGood
<1>9. d.hnd[x].current_req /\ d.hnd[x].pending_cb
  BY <1>4, <1>7, MarkUpGood DEF Answered
<1>10. Good(c, W \ {x}, {}, {}) /\ Finished(d, c, x)
  BY <1>5, <1>8, <1>9, FinishGood
<1>11. W \ {x} = {}
  BY <1>8
<1>12. Follows(b, a)
  <2>1. Pend(b, {}) /\ DOMAIN b = Fields /\ b.hnd \in [Handles -> Handle]
    BY GoodCore
  <2> QED BY <1>1, <1>2, <1>3, <1>6, <2>1, FollowsSchedule
<1>13. Follows(a, d)
  BY <1>4, <1>7, MarkUpGood DEF Answered
<1>14. Follows(d, c)
  <2>1. Pend(d, W) /\ d.hnd \in [Handles -> Handle]
    BY <1>8, GoodCore
  <2>2. HasResult(d, x)
    BY <1>9, <2>1 DEF Pend
  <2> QED BY <1>10, <2>1, <2>2, FollowsFinish
<1>15. Follows(b, c)
  <2>1. Follows(b, d)
    BY <1>12, <1>13, FollowsTwice
  <2> QED BY <1>14, <2>1, FollowsTwice
<1> QED BY <1>10, <1>11, <1>15

\* An answer that holds no address: the search goes on, or the request fails.
LEMMA ErrorGood ==
  ASSUME NEW b, Good(b, {}, {}, {}), NEW x \in Handles, Lists(b.inflight, x),
         NEW err \in Errors \ {"CANCEL"}, NEW send \in [Servers -> Sent], NEW c,
         c = Fail(MarkUp(b, x, send), x, err, send)
  PROVE  Good(c, {}, {}, {}) /\ Follows(b, c)
<1>1. b.hnd[x].current_req /\ ~b.hnd[x].pending_cb
  BY InflightFacts
<1>2. PICK d : d = MarkUp(b, x, send)
  OBVIOUS
<1>3. PICK W \in SUBSET {x} : Good(d, W, {}, {}) /\ (x \in Users => W = {})
  BY <1>2, MarkUpGood
<1>4. d.hnd[x].current_req /\ ~d.hnd[x].pending_cb /\ Follows(b, d)
  BY <1>1, <1>2, MarkUpGood DEF Answered
<1>5. c = Fail(d, x, err, send)
  BY <1>2
<1>6. Good(c, {}, {}, {}) /\ Follows(d, c)
  BY <1>3, <1>4, <1>5, FailGood
<1> QED BY <1>4, <1>6, FollowsTwice

LEMMA ReplyGood ==
  ASSUME NEW b, Good(b, {}, {}, {}), NEW x \in Handles, Lists(b.inflight, x),
         NEW err \in Answers, NEW send \in [Servers -> Sent], NEW c, c = reply_handle(b, x, err, send)
  PROVE  Good(c, {}, {}, {}) /\ Follows(b, c)
<1>1. CASE err = "NONE"
  <2>1. c = request_finished(MarkUp(reply_schedule_callback(b, x, "NONE"), x, send), x, send)
    BY <1>1 DEF reply_handle
  <2> QED BY <2>1, AnswerGood
<1>2. CASE err = "REFUSED"
  <2>1. c = reply_refused(b, x, send)
    BY <1>2 DEF reply_handle
  <2> QED BY <2>1, RefusedGood
<1>3. CASE err = "SERVERFAILED"
  <2>1. c = evdns_request_timeout(b, x, send)
    BY <1>3 DEF reply_handle
  <2>2. {} \in SUBSET {x}
    OBVIOUS
  <2> QED BY <2>1, <2>2, TimeoutGood
<1>4. CASE err \notin {"NONE", "REFUSED", "SERVERFAILED"}
  <2>1. c = Fail(MarkUp(b, x, send), x, err, send)
    BY <1>4 DEF reply_handle
  <2>2. err \in Errors \ {"CANCEL"}
    BY DEF Errors, Answers
  <2> QED BY <2>1, <2>2, ErrorGood
<1> QED BY <1>1, <1>2, <1>3, <1>4

-----------------------------------------------------------------------------
(* The steps of a base that is in use.                                     *)

\* What the promise is about, seen from outside.
SameView(b, c) == c.hnd = b.hnd /\ c.deferred = b.deferred /\ c.told = b.told
SameAsked(b, c) == \A x \in Users : c.hnd[x].current_req <=> b.hnd[x].current_req

\* Each user has one result at most, when its request has ended.
Tidy(b) ==
  /\ b.deferred \in Seq(Entry)
  /\ \A i, j \in 1 .. Len(b.deferred) : b.deferred[i][1] = b.deferred[j][1] => i = j
  /\ \A x \in Users : HasResult(b, x) => ~b.hnd[x].current_req

\* A user asks.
Asking(b, c, x) ==
  /\ c.deferred = b.deferred /\ c.told = b.told /\ c.hnd[x].current_req /\ ~b.hnd[x].current_req
  /\ ~HasResult(b, x) /\ x \notin b.told
  /\ \A y \in Users : y # x => (c.hnd[y].current_req <=> b.hnd[y].current_req)

\* A user is told the first result.
Tells(b, c, x) ==
  /\ b.deferred # <<>> /\ x = Head(b.deferred)[1] /\ x \in Users /\ x \notin b.told
  /\ c.deferred = Tail(b.deferred) /\ c.told = b.told \cup {x} /\ SameAsked(b, c)

\* The result of a probe leaves the queue.
Drops(b, c) ==
  /\ b.deferred # <<>> /\ Head(b.deferred)[1] \notin Users
  /\ c.deferred = Tail(b.deferred) /\ c.told = b.told /\ SameAsked(b, c)

\* Nobody will be told of the requests that are left.
Abandons(b, c) == /\ c.deferred = b.deferred /\ c.told = b.told
                  /\ \A x \in Users : ~c.hnd[x].current_req

\* One step of the client, as its promise sees it.
PromiseStep(b, c) ==
  \/ Tidy(c) /\ (Follows(b, c) \/ \E d : Drops(b, d) /\ Follows(d, c))
  \/ SameView(b, c) \/ Drops(b, c) \/ Abandons(b, c)
  \/ \E x \in Users : Asking(b, c, x) \/ Tells(b, c, x)

LEMMA ZeroIsAnId ==
  0 \in Ids /\ <<0>> \in Seq(Ids) /\ <<0>> # <<>>
<1>1. Cardinality(Users \cup Probes) \in Nat
  BY LimitAssumption, FS_CardinalityType
<1>2. 0 \in Ids
  BY <1>1, LimitAssumption DEF Ids
<1> QED BY <1>2

LEMMA TidyWhenPend ==
  ASSUME NEW b, Pend(b, {})
  PROVE  Tidy(b)
<1>1. \A x \in Users : x \in Handles
  BY HandleKinds
<1> QED BY <1>1 DEF Pend, Tidy, Entry

LEMMA TriflingView ==
  ASSUME NEW b, NEW c, Trifling(b, c)
  PROVE  SameView(b, c)
BY TriflingFields DEF SameView

LEMMA ViewFollows ==
  ASSUME NEW b, NEW a, SameView(b, a), NEW c, Follows(a, c)
  PROVE  Follows(b, c)
BY DEF SameView, Follows, HasResult

LEMMA FollowsView ==
  ASSUME NEW b, NEW a, Follows(b, a), NEW c, SameView(a, c)
  PROVE  Follows(b, c)
BY DEF SameView, Follows, HasResult

LEMMA ViewTwice ==
  ASSUME NEW b, NEW a, SameView(b, a), NEW c, SameView(a, c)
  PROVE  SameView(b, c)
BY DEF SameView

LEMMA ViewAsks ==
  ASSUME NEW b, NEW a, SameView(b, a), NEW e, NEW x, Asking(a, e, x), NEW c, SameView(e, c)
  PROVE  Asking(b, c, x)
BY DEF SameView, Asking, HasResult

LEMMA BecomesKeeps ==
  ASSUME NEW b, DOMAIN b = Fields, Becomes(b)
  PROVE  /\ Trifling(b, base') /\ (base'.dangling <=> b.dangling) /\ (base'.freed <=> b.freed)
<1>1. PICK c : c = [b EXCEPT !.draw = <<0>>]
  OBVIOUS
<1>2. c.draw = <<0>> /\ c.dangling = b.dangling /\ c.freed = b.freed
  BY <1>1 DEF Fields
<1>3. Changes(b, c, Trifles)
  BY <1>1 DEF Changes, Trifles, Fields
<1>4. Trifling(b, c)
  BY <1>2, <1>3, ZeroIsAnId DEF Trifling
<1> QED BY <1>1, <1>2, <1>4 DEF Becomes

LEMMA BecomesView ==
  ASSUME NEW b, DOMAIN b = Fields, Becomes(b)
  PROVE  SameView(b, base')
BY BecomesKeeps, TriflingView

\* Between two steps nothing is drawn.
LEMMA BecomesGood ==
  ASSUME NEW b, Good(b, {}, {}, {}), Becomes(b)
  PROVE  InUse(base')
<1>1. PICK c : c = [b EXCEPT !.draw = <<0>>]
  OBVIOUS
<1>2. DOMAIN b = Fields
  BY GoodCore
<1>3. c.draw = <<0>>
  BY <1>1, <1>2 DEF Fields
<1>4. Changes(b, c, Trifles)
  BY <1>1, <1>2 DEF Changes, Trifles, Fields
<1>5. Trifling(b, c)
  BY <1>3, <1>4, ZeroIsAnId DEF Trifling
<1>6. Good(c, {}, {}, {})
  BY <1>5, TriflingGood
<1> QED BY <1>1, <1>6 DEF Becomes, InUse

LEMMA BecomesFollows ==
  ASSUME NEW b, Good(b, {}, {}, {}), Becomes(b), Follows(base, b)
  PROVE  InUse(base') /\ Follows(base, base')
<1>1. SameView(b, base')
  BY GoodCore, BecomesView
<1> QED BY <1>1, BecomesGood, FollowsView

LEMMA DrawsTyped ==
  ASSUME NEW d \in Draws
  PROVE  d \in Seq(Ids) /\ d # <<>>
BY LimitAssumption DEF Ids

LEMMA DrawnGood ==
  ASSUME NEW b, NEW V, NEW Z, NEW X, Good(b, V, Z, X), NEW d \in Draws, NEW c, c = [b EXCEPT !.draw = d]
  PROVE  Good(c, V, Z, X) /\ Trifling(b, c) /\ SameView(b, c)
<1>1. DOMAIN b = Fields
  BY GoodCore
<1>2. c.draw = d
  BY <1>1 DEF Fields
<1>3. Changes(b, c, Trifles)
  BY <1>1 DEF Changes, Trifles, Fields
<1>4. Trifling(b, c)
  BY <1>2, <1>3, DrawsTyped DEF Trifling
<1> QED BY <1>4, TriflingGood, TriflingView

Asks(b, c, x) ==
  /\ Changes(b, c, {"asked"}) /\ c.asked = b.asked \cup {x}

LEMMA AskGood ==
  ASSUME NEW b, Good(b, {}, {}, {}), NEW x \in Users, x \notin b.asked, NEW c, Asks(b, c, x)
  PROVE  Good(c, {}, {}, {}) /\ c.hnd[x] = NewHandle /\ x \in c.asked /\ x \notin c.told
<1>1. /\ DOMAIN c = Fields /\ c.servers = b.servers /\ c.good = b.good /\ c.ns = b.ns
      /\ c.inflight = b.inflight /\ c.waiting = b.waiting /\ c.max_inflight = b.max_inflight
      /\ c.hnd = b.hnd /\ c.search = b.search /\ c.global = b.global /\ c.req = b.req
      /\ c.deferred = b.deferred /\ c.told = b.told /\ c.suspended = b.suspended
  BY DEF Asks, Changes, Fields
<1>2. /\ Core(b, {}) /\ RefsOK(b) /\ Pend(b, {}) /\ Rest(b, {}, {}) /\ b.hnd \in [Handles -> Handle]
      /\ b.max_inflight \in 1 .. 5
  BY GoodCore
<1>3. HandlesChange(b, c, {}, {})
  <2>1. Changes(b, c, HandleFields)
    BY DEF Asks, Changes, HandleFields, Fields
  <2> QED BY <1>1, <1>2, <2>1 DEF HandlesChange, SearchedOn
<1>4. Core(c, {})
  BY <1>2, <1>3, HandlesKeepCore
<1>5. RefsOK(c)
  BY <1>1, <1>2, RefsSame
<1>6. Pend(c, {})
  BY <1>1, <1>2 DEF Pend, HasResult
<1>7. Rest(c, {}, {})
  BY <1>1, <1>2 DEF Rest, Asks, ProbeOfServer, ProbeIsOut
<1>8. FedOK(c) /\ (c.servers = <<>> => c.suspended)
  BY <1>1 DEF Good, FedOK, SearchedOn
<1>9. ASSUME ~DisableWhenInactive PROVE Watched(c, {}) /\ DownOK(c, {}, {})
  BY <1>1, <1>9 DEF Good, Watched, SomeWaits, DownOK, ProbeBusy, LiveResult
<1>10. b.hnd[x] = NewHandle /\ x \notin b.told
  BY <1>2, HandleKinds DEF Rest
<1> QED BY <1>1, <1>2, <1>4, <1>5, <1>6, <1>7, <1>8, <1>9, <1>10 DEF Good, Sound, Asks

LEMMA AskedForIsAsked ==
  ASSUME NEW b, Good(b, {}, {}, {}), NEW x \in Users, b.hnd[x] = NewHandle, x \notin b.told,
         NEW c, AsksFor(b, c, x)
  PROVE  Asking(b, c, x)
<1>1. PICK h : UserAsks(b, c, x, h)
  BY DEF AsksFor
<1>2. c.deferred = b.deferred /\ c.told = b.told /\ h.current_req
  BY <1>1 DEF UserAsks, Same, OtherFields, ClientFields
<1>3. x \in Handles /\ \A y \in Users : y \in Handles
  BY HandleKinds
<1>4. b.hnd \in [Handles -> Handle] /\ Pend(b, {})
  BY GoodCore
<1>5. HandlePut(b, c, x, h)
  BY <1>1, <1>3, <1>4, HandleIsPut DEF UserAsks
<1>6. ~b.hnd[x].current_req /\ ~b.hnd[x].pending_cb
  BY NewHandleFacts
<1>7. ~HasResult(b, x)
  BY <1>3, <1>4, <1>6 DEF Pend
<1> QED BY <1>2, <1>3, <1>5, <1>6, <1>7 DEF Asking, HandlePut

LEMMA ResolveStep ==
  ASSUME InUse(base), NEW x \in Users, Resolve(x)
  PROVE  InUse(base') /\ Asking(base, base', x)
<1>1. Good(base, {}, {}, {})
  BY DEF InUse
<1>2. PICK send \in Sends, d \in Draws :
        Becomes(evdns_base_resolve([Drawn(d) EXCEPT !.asked = @ \cup {x}], x, send))
  BY DEF Resolve
<1>3. PICK a : a = Drawn(d)
  OBVIOUS
<1>4. Good(a, {}, {}, {}) /\ Trifling(base, a) /\ SameView(base, a)
  BY <1>1, <1>3, DrawnGood DEF Drawn
<1>5. PICK c : c = [a EXCEPT !.asked = @ \cup {x}]
  OBVIOUS
<1>6. DOMAIN a = Fields
  BY <1>4, GoodCore
<1>7. Asks(a, c, x)
  BY <1>5, <1>6 DEF Asks, Changes, Fields
<1>8. x \notin a.asked
  BY <1>4, TriflingFields DEF Resolve
<1>9. Good(c, {}, {}, {}) /\ c.hnd[x] = NewHandle /\ x \in c.asked /\ x \notin c.told
  BY <1>4, <1>7, <1>8, AskGood
<1>10. send \in [Servers -> Sent]
  BY DEF Sends, Sent
<1>11. PICK e : e = evdns_base_resolve(c, x, send)
  OBVIOUS
<1>12. Good(e, {}, {}, {}) /\ AsksFor(c, e, x)
  BY <1>9, <1>10, <1>11, ResolveGood
<1>13. Becomes(e)
  BY <1>2, <1>3, <1>5, <1>11
<1>14. Asking(c, e, x)
  BY <1>9, <1>12, AskedForIsAsked
<1>15. SameView(base, c)
  <2>1. SameView(a, c)
    BY <1>7 DEF Asks, Changes, Fields, SameView
  <2> QED BY <1>4, <2>1, ViewTwice
<1>16. SameView(e, base')
  BY <1>12, <1>13, GoodCore, BecomesView
<1>17. Asking(base, base', x)
  BY <1>14, <1>15, <1>16, ViewAsks
<1> QED BY <1>12, <1>13, <1>17, BecomesGood

LEMMA CancelStep ==
  ASSUME InUse(base), NEW x \in Users, Cancel(x)
  PROVE  InUse(base') /\ Follows(base, base')
<1>1. Good(base, {}, {}, {})
  BY DEF InUse
<1>2. PICK send \in Sends, d \in Draws : Becomes(evdns_cancel_request(Drawn(d), x, send))
  BY DEF Cancel
<1>3. PICK a : a = Drawn(d)
  OBVIOUS
<1>4. Good(a, {}, {}, {}) /\ SameView(base, a)
  BY <1>1, <1>3, DrawnGood DEF Drawn
<1>5. send \in [Servers -> Sent]
  BY DEF Sends, Sent
<1>6. PICK e : e = evdns_cancel_request(a, x, send)
  OBVIOUS
<1>7. MayEnd(a, x, "CANCEL", {})
  BY <1>4, GoodCore, NoneIsNot DEF MayEnd, Rest
<1>8. Good(e, {}, {}, {}) /\ Cancelled(a, e, x)
  BY <1>4, <1>5, <1>6, <1>7, CancelGood, HandleKinds
<1>9. Becomes(e)
  BY <1>2, <1>3, <1>6
<1>10. Follows(base, e)
  BY <1>4, <1>8, ViewFollows DEF Cancelled
<1> QED BY <1>8, <1>9, <1>10, BecomesFollows

LEMMA TimeoutStep ==
  ASSUME InUse(base), NEW x \in Handles, evdns_request_timeout_callback(x)
  PROVE  InUse(base') /\ Follows(base, base')
<1>1. Good(base, {}, {}, {})
  BY DEF InUse
<1>2. PICK send \in Sends, d \in Draws :
        Becomes(evdns_request_timeout([Drawn(d) EXCEPT !.req[x].timeout = FALSE], x, send))
  BY DEF evdns_request_timeout_callback
<1>3. PICK a : a = Drawn(d)
  OBVIOUS
<1>4. Good(a, {}, {}, {}) /\ Trifling(base, a) /\ SameView(base, a)
  BY <1>1, <1>3, DrawnGood DEF Drawn
<1>5. Lists(a.inflight, x)
  <2>1. ListedOK(a, x, {})
    BY <1>4, GoodCore DEF Core, ListsOK
  <2>2. a.req[x].timeout
    BY <1>4, TriflingFields DEF evdns_request_timeout_callback
  <2> QED BY <2>1, <2>2 DEF ListedOK
<1>6. PICK c : c = [a EXCEPT !.req[x].timeout = FALSE]
  OBVIOUS
<1>7. Good(c, {}, {}, {x}) /\ Lists(c.inflight, x) /\ Follows(a, c)
  <2>1. {} \in SUBSET {x}
    OBVIOUS
  <2> QED BY <1>4, <1>5, <1>6, <2>1, TimerStopGood DEF TimerStopped
<1>8. send \in [Servers -> Sent]
  BY DEF Sends, Sent
<1>9. PICK e : e = evdns_request_timeout(c, x, send)
  OBVIOUS
<1>10. {x} \in SUBSET {x}
  OBVIOUS
<1>11. Good(e, {}, {}, {}) /\ Follows(c, e)
  BY <1>7, <1>8, <1>9, <1>10, TimeoutGood
<1>12. Becomes(e)
  BY <1>2, <1>3, <1>6, <1>9
<1>13. Follows(base, e)
  <2>1. Follows(a, e)
    BY <1>7, <1>11, FollowsTwice
  <2> QED BY <1>4, <2>1, ViewFollows
<1> QED BY <1>11, <1>12, <1>13, BecomesFollows

\* A server whose timer for the next probe fires has no probe under way.
LEMMA ProbeIsDue ==
  ASSUME NEW b, Good(b, {}, {}, {}), NEW n \in Servers, Lists(b.servers, n), b.ns[n].timeout,
         \A y \in Members(b.deferred) : b.hnd[y[1]].ns # n
  PROVE  ~b.ns[n].state /\ \A y \in Probes : b.hnd[y].ns # n
<1>1. Rest(b, {}, {}) /\ Pend(b, {})
  BY GoodCore
<1>2. ~b.ns[n].state
  BY <1>1 DEF Rest
<1>3. ASSUME NEW y \in Probes, b.hnd[y].ns = n PROVE FALSE
  <2>1. n # None
    BY NoneIsNot
  <2>2. y \in Handles
    BY HandleKinds
  <2>3. Active(b.hnd[y])
    BY <1>1, <1>3, <2>1, <2>2, NewHandleFacts DEF Rest
  <2>4. ~b.hnd[y].current_req
    <3>1. ASSUME b.hnd[y].current_req PROVE FALSE
      <4>1. ProbeIsOut(b, y)
        BY <1>1, <3>1 DEF Rest
      <4> QED BY <1>3, <4>1 DEF ProbeIsOut
    <3> QED BY <3>1
  <2>5. PICK i \in 1 .. Len(b.deferred) : b.deferred[i][1] = y
    BY <1>1, <2>2, <2>3, <2>4 DEF Active, Pend, HasResult
  <2>6. b.deferred[i] \in Members(b.deferred)
    BY <1>1, <2>5 DEF Members, Pend
  <2> QED BY <1>3, <2>5, <2>6
<1> QED BY <1>2, <1>3

LEMMA ProbeStep ==
  ASSUME InUse(base), NEW n \in Servers, nameserver_prod_callback(n)
  PROVE  InUse(base') /\ Follows(base, base')
<1>1. Good(base, {}, {}, {})
  BY DEF InUse
<1>2. PICK x \in Probes, send \in Sends, d \in Draws :
        /\ base.hnd[x] = NewHandle
        /\ Becomes(nameserver_send_probe([Drawn(d) EXCEPT !.ns[n].timeout = FALSE,
                                                          !.probes = @ - 1], n, x, send))
  BY DEF nameserver_prod_callback
<1>3. PICK a : a = Drawn(d)
  OBVIOUS
<1>4. Good(a, {}, {}, {}) /\ Trifling(base, a) /\ SameView(base, a)
  BY <1>1, <1>3, DrawnGood DEF Drawn
<1>5. a.servers = base.servers /\ a.ns = base.ns /\ a.hnd = base.hnd /\ a.deferred = base.deferred
  BY <1>4, TriflingFields
<1>6. Lists(a.servers, n)
  BY <1>4, <1>5, GoodCore, MembersFacts DEF nameserver_prod_callback
<1>7. ~a.ns[n].state /\ \A y \in Probes : a.hnd[y].ns # n
  BY <1>4, <1>5, <1>6, ProbeIsDue DEF nameserver_prod_callback
<1>8. PICK c : c = [a EXCEPT !.ns[n].timeout = FALSE]
  OBVIOUS
<1>9. Good(c, {}, {n}, {}) /\ TunedFields(a, c, n, TimerOff(a.ns[n]))
  <2>1. {} \subseteq {n}
    OBVIOUS
  <2> QED BY <1>4, <1>8, <2>1, TimerOffGood
<1>10. a.ns[n] \in Server
  BY <1>4, GoodCore
<1>11. c.servers = a.servers /\ c.hnd = a.hnd /\ ~c.ns[n].state /\ ~c.ns[n].timeout
  BY <1>7, <1>9, <1>10, TimerOffFacts DEF TunedFields
<1>12. PICK e : e = [c EXCEPT !.probes = @ - 1]
  OBVIOUS
<1>13. DOMAIN c = Fields /\ c.draw \in Seq(Ids) /\ c.draw # <<>>
  BY <1>9, GoodCore DEF NetTyped
<1>14. Trifling(c, e)
  BY <1>12, <1>13 DEF Trifling, Changes, Trifles, Fields
<1>15. Good(e, {}, {n}, {})
  BY <1>9, <1>14, TriflingGood
<1>16. e.servers = c.servers /\ e.hnd = c.hnd /\ e.ns = c.ns
  BY <1>14, TriflingFields
<1>17. WantsProbe(e, n)
  BY <1>6, <1>7, <1>11, <1>16 DEF WantsProbe
<1>18. send \in [Servers -> Sent] /\ e.hnd[x] = NewHandle
  BY <1>2, <1>5, <1>11, <1>16 DEF Sends, Sent
<1>19. PICK g : g = nameserver_send_probe(e, n, x, send)
  OBVIOUS
<1>20. Good(g, {}, {}, {}) /\ Follows(e, g)
  BY <1>15, <1>17, <1>18, <1>19, SendProbeGood
<1>21. DOMAIN a = Fields
  BY <1>4, GoodCore
<1>22. e = [a EXCEPT !.ns[n].timeout = FALSE, !.probes = @ - 1]
  BY <1>8, <1>12, <1>21 DEF Fields
<1>23. Becomes(g)
  BY <1>2, <1>3, <1>19, <1>22
<1>24. Follows(base, g)
  <2>1. SameView(a, c)
    BY <1>9 DEF TunedFields, SameView
  <2>2. SameView(c, e)
    BY <1>14, TriflingView
  <2>3. SameView(base, e)
    BY <1>4, <2>1, <2>2, ViewTwice
  <2> QED BY <1>20, <2>3, ViewFollows
<1> QED BY <1>20, <1>23, <1>24, BecomesFollows

Unchoked(k) == [k EXCEPT !.choked = FALSE]

LEMMA UnchokedFacts ==
  ASSUME NEW k \in Server, NEW m, m = Unchoked(k)
  PROVE  /\ m \in Server /\ QuietServer(k, m) /\ ~m.choked
         /\ (m.write_waiting <=> k.write_waiting) /\ (m.event <=> k.event)
<1>1. m = [k EXCEPT !.choked = FALSE]
  BY DEF Unchoked
<1> QED BY <1>1 DEF Server, QuietServer

\* With nothing to transmit the requests in flight have their timers.
LEMMA StopWaitingGood ==
  ASSUME NEW b, Good(b, {}, {}, {}), NEW n \in Servers, ~b.ns[n].choked, ~TriedToTransmit(b),
         NEW c, c = nameserver_write_waiting(b, n, FALSE)
  PROVE  Good(c, {}, {}, {}) /\ Follows(b, c)
<1>1. Core(b, {}) /\ NetTyped(b) /\ b.inflight \in Seq(Handles)
  BY GoodCore
<1>2. WaitsAfter(b, c, n, FALSE)
  BY <1>1, WriteWaitingQuiet
<1>3. Quiet(b, c) /\ c.req = b.req /\ ~c.ns[n].write_waiting /\ ~c.ns[n].choked
      /\ \A m \in Servers : m # n => c.ns[m] = b.ns[m]
  BY <1>2 DEF WaitsAfter
<1>4. Core(c, {}) /\ Kept(b, c) /\ SameQueues(b, c)
  BY <1>1, <1>3, QuietKeeps
<1>5. \A x \in Handles : Lists(b.inflight, x) => ~b.req[x].transmit_me
  BY <1>1, MembersFacts DEF TriedToTransmit
<1>6. Watched(b, {}) => Watched(c, {})
  BY <1>3, <1>4, <1>5 DEF Watched, ServerWatched, SameQueues
<1> QED BY <1>4, <1>6, KeptGood, KeptFollows

LEMMA WritableStep ==
  ASSUME InUse(base), NEW n \in Servers, Writable(n)
  PROVE  InUse(base') /\ Follows(base, base')
<1>1. Good(base, {}, {}, {}) /\ DOMAIN base = Fields /\ base.ns \in [Servers -> Server] /\ base.ns[n] \in Server
  BY GoodCore DEF InUse
<1>2. PICK b : b = [base EXCEPT !.ns[n].choked = FALSE]
  OBVIOUS
<1>3. PICK send \in Sends : Becomes(IF TriedToTransmit(b) THEN evdns_transmit(b, send)
                                    ELSE nameserver_write_waiting(b, n, FALSE))
  BY <1>2 DEF Writable
<1>4. PICK k : k = Unchoked(base.ns[n])
  OBVIOUS
<1>5. /\ k \in Server /\ QuietServer(base.ns[n], k) /\ ~k.choked
      /\ (k.write_waiting <=> base.ns[n].write_waiting) /\ (k.event <=> base.ns[n].event)
  BY <1>1, <1>4, UnchokedFacts
<1>6. Changes(base, b, {"ns", "net", "faults"})
  BY <1>1, <1>2 DEF Changes, Fields
<1>7. b.ns = [base.ns EXCEPT ![n] = k]
  BY <1>1, <1>2, <1>4 DEF Fields, Unchoked
<1>8. ServerPut(base, b, n, k)
  BY <1>5, <1>7 DEF ServerPut
<1>9. Good(b, {}, {}, {}) /\ ServerPutQuietly(base, b, n, k)
  BY <1>1, <1>5, <1>6, <1>8, ServerPutGood
<1>13. SameView(base, b)
  BY <1>6 DEF Changes, Fields, SameView
<1>10. ~b.ns[n].choked
  BY <1>5, <1>9 DEF ServerPutQuietly
<1>11. CASE TriedToTransmit(b)
  <2>1. PICK c : c = evdns_transmit(b, send)
    OBVIOUS
  <2>2. send \in [Servers -> Sent]
    BY DEF Sends, Sent
  <2>3. Carried(b, c, {})
    BY <1>9, <2>1, <2>2, GoodCore, TransmitCarried
  <2>4. Good(c, {}, {}, {}) /\ Follows(b, c)
    BY <1>9, <2>3, KeptGood, KeptFollows DEF Carried
  <2>5. Becomes(c)
    BY <1>3, <1>11, <2>1
  <2>6. Follows(base, c)
    BY <1>13, <2>4, ViewFollows
  <2> QED BY <2>4, <2>5, <2>6, BecomesFollows
<1>12. CASE ~TriedToTransmit(b)
  <2>1. PICK c : c = nameserver_write_waiting(b, n, FALSE)
    OBVIOUS
  <2>2. Good(c, {}, {}, {}) /\ Follows(b, c)
    BY <1>9, <1>10, <1>12, <2>1, StopWaitingGood
  <2>3. Becomes(c)
    BY <1>3, <1>12, <2>1
  <2>4. Follows(base, c)
    BY <1>13, <2>2, ViewFollows
  <2> QED BY <2>2, <2>3, <2>4, BecomesFollows
<1> QED BY <1>11, <1>12

LEMMA OutcomeIsAnswer ==
  ASSUME NEW b, NEW x, NEW p, NEW code \in Answers
  PROVE  Outcome(b, x, p, code) \in Answers
BY DEF Outcome, Answers

LEMMA ReadStep ==
  ASSUME InUse(base), NEW n \in Servers, nameserver_read(n)
  PROVE  InUse(base') /\ Follows(base, base')
<1>1. Good(base, {}, {}, {}) /\ DOMAIN base = Fields /\ base.ns \in [Servers -> Server]
  BY GoodCore DEF InUse
<1>2. PICK p \in {q \in base.net : q.ns = n} :
        LET b == [base EXCEPT !.net = @ \ {p}, !.ns[n].timedout = 0]
            X == {x \in Members(b.inflight) : b.req[x].trans_id = p.id}
        IN IF X = {} THEN Becomes(b)
           ELSE \E code \in Answers, send \in Sends, d \in Draws, x \in X :
                   Becomes(reply_handle([b EXCEPT !.draw = d], x, Outcome(b, x, p, code), send))
  BY DEF nameserver_read
<1>3. PICK b : b = [base EXCEPT !.net = @ \ {p}, !.ns[n].timedout = 0]
  OBVIOUS
<1>4. Changes(base, b, {"ns", "net"})
  BY <1>1, <1>3 DEF Changes, Fields
<1>5. b.ns = [base.ns EXCEPT ![n] = Counted(base.ns[n], 0)]
  BY <1>1, <1>3 DEF Fields, Counted
<1>6. Good(b, {}, {}, {}) /\ Follows(base, b)
  <2>1. 0 \in Nat
    OBVIOUS
  <2> QED BY <1>1, <1>4, <1>5, <2>1, CountedGood DEF CountPut
<1>7. CASE Becomes(b)
  BY <1>6, <1>7, BecomesFollows
<1>8. CASE \E code \in Answers, send \in Sends, d \in Draws, x \in Members(b.inflight) :
              Becomes(reply_handle([b EXCEPT !.draw = d], x, Outcome(b, x, p, code), send))
  <2>1. PICK code \in Answers, send \in Sends, d \in Draws, x \in Members(b.inflight) :
           Becomes(reply_handle([b EXCEPT !.draw = d], x, Outcome(b, x, p, code), send))
    BY <1>8
  <2>2. PICK a : a = [b EXCEPT !.draw = d]
    OBVIOUS
  <2>3. PICK err : err = Outcome(b, x, p, code)
    OBVIOUS
  <2>4. PICK c : c = reply_handle(a, x, err, send)
    OBVIOUS
  <2>5. Good(a, {}, {}, {}) /\ Trifling(b, a) /\ SameView(b, a)
    BY <1>6, <2>2, DrawnGood
  <2>6. Lists(a.inflight, x) /\ x \in Handles
    BY <1>6, <2>5, GoodCore, MembersFacts, TriflingFields
  <2>7. err \in Answers /\ send \in [Servers -> Sent]
    BY <2>3, OutcomeIsAnswer DEF Sends, Sent
  <2>8. Good(c, {}, {}, {}) /\ Follows(a, c)
    BY <2>4, <2>5, <2>6, <2>7, ReplyGood
  <2>9. Becomes(c)
    BY <2>1, <2>2, <2>3, <2>4
  <2>10. Follows(base, c)
    <3>1. Follows(b, c)
      BY <2>5, <2>8, ViewFollows
    <3> QED BY <1>6, <3>1, FollowsTwice
  <2> QED BY <2>8, <2>9, <2>10, BecomesFollows
<1> QED BY <1>2, <1>3, <1>7, <1>8

LEMMA ReadErrorStep ==
  ASSUME InUse(base), NEW n \in Servers, ReadError(n)
  PROVE  InUse(base') /\ Follows(base, base')
<1>1. Good(base, {}, {}, {}) /\ DOMAIN base = Fields
  BY GoodCore DEF InUse
<1>2. PICK b : b = [base EXCEPT !.faults = @ - 1]
  OBVIOUS
<1>3. Trifling(base, b)
  BY <1>1, <1>2, GoodCore DEF Trifling, Changes, Trifles, Fields, NetTyped
<1>4. Good(b, {}, {}, {})
  BY <1>1, <1>3, TriflingGood
<1>5. Lists(b.servers, n)
  BY <1>1, <1>3, GoodCore, MembersFacts, TriflingFields DEF ReadError
<1>6. PICK c : c = nameserver_failed(b, n)
  OBVIOUS
<1>7. Good(c, {}, {}, {}) /\ Follows(b, c)
  BY <1>4, <1>5, <1>6, ServerFailsGood
<1>8. Becomes(c)
  BY <1>2, <1>6 DEF ReadError
<1>9. Follows(base, c)
  BY <1>3, <1>7, TriflingView, ViewFollows
<1> QED BY <1>7, <1>8, <1>9, BecomesFollows

LEMMA LoseStep ==
  ASSUME InUse(base), Lose
  PROVE  InUse(base') /\ Follows(base, base')
<1>1. Good(base, {}, {}, {}) /\ DOMAIN base = Fields
  BY GoodCore DEF InUse
<1>2. PICK p : base' = [base EXCEPT !.net = @ \ {p}]
  BY DEF Lose
<1>3. PICK c : c = [base EXCEPT !.net = @ \ {p}]
  OBVIOUS
<1>4. Trifling(base, c)
  BY <1>1, <1>3, GoodCore DEF Trifling, Changes, Trifles, Fields, NetTyped
<1>5. Good(c, {}, {}, {})
  BY <1>1, <1>4, TriflingGood
<1>6. Follows(base, c)
  BY <1>1, <1>4, TriflingFields, GoodFollows
<1> QED BY <1>2, <1>3, <1>5, <1>6 DEF InUse

-----------------------------------------------------------------------------
(* The callbacks: the first result in the queue is handled.                *)

Dequeues(b, c, x) ==
  /\ b.deferred # <<>> /\ x = Head(b.deferred)[1]
  /\ Changes(b, c, {"deferred", "hnd", "told"}) /\ c.deferred = Tail(b.deferred)
  /\ PutsHandle(b, c, x, NewHandle)
  /\ c.told = b.told \/ c.told = b.told \cup {x}

Shifted(b, c, x) ==
  /\ x \in Handles /\ HasResult(b, x)
  /\ c.deferred \in Seq(Handles \X Errors)
  /\ \A y : HasResult(c, y) <=> HasResult(b, y) /\ y # x
  /\ \A y : y # x /\ LiveResult(b, y) => LiveResult(c, y)
  /\ \A i, j \in 1 .. Len(c.deferred) : c.deferred[i][1] = c.deferred[j][1] => i = j
  /\ \A i \in 1 .. Len(c.deferred) : \E j \in 1 .. Len(b.deferred) : c.deferred[i] = b.deferred[j]

LEMMA TailShifts ==
  ASSUME NEW b, NEW c, NEW x, b.deferred \in Seq(Handles \X Errors),
         \A i, j \in 1 .. Len(b.deferred) : b.deferred[i][1] = b.deferred[j][1] => i = j,
         b.deferred # <<>>, x = Head(b.deferred)[1], c.deferred = Tail(b.deferred)
  PROVE  Shifted(b, c, x)
<1>1. PICK s : s = b.deferred
  OBVIOUS
<1>2. PICK t : t = c.deferred
  OBVIOUS
<1>3. s \in Seq(Handles \X Errors) /\ s # <<>> /\ t = Tail(s) /\ x = s[1][1]
  BY <1>1, <1>2
<1>4. /\ Len(s) \in Nat \ {0} /\ t \in Seq(Handles \X Errors) /\ Len(t) = Len(s) - 1
      /\ \A i \in 1 .. Len(t) : i + 1 \in 2 .. Len(s) /\ t[i] = s[i + 1]
  BY <1>3
<1>5. \A i \in 2 .. Len(s) : i - 1 \in 1 .. Len(t) /\ t[i - 1] = s[i]
  BY <1>4
<1>6. \A i, j \in 1 .. Len(s) : s[i][1] = s[j][1] => i = j
  BY <1>1
<1>7. x \in Handles /\ 1 \in 1 .. Len(s)
  BY <1>3, <1>4
<1>8. HasResult(b, x)
  BY <1>1, <1>3, <1>7 DEF HasResult
<1>9. ASSUME NEW y, HasResult(c, y) PROVE HasResult(b, y) /\ y # x
  <2>1. PICK i \in 1 .. Len(t) : t[i][1] = y
    BY <1>2, <1>9 DEF HasResult
  <2>2. i + 1 \in 1 .. Len(s) /\ s[i + 1][1] = y /\ i + 1 # 1
    BY <1>4, <2>1
  <2> QED BY <1>1, <1>3, <1>6, <1>7, <2>2 DEF HasResult
<1>10. ASSUME NEW y, y # x, NEW i \in 1 .. Len(s), s[i][1] = y
       PROVE  i - 1 \in 1 .. Len(t) /\ t[i - 1] = s[i]
  <2>1. i # 1
    BY <1>3, <1>10
  <2>2. i \in 2 .. Len(s)
    BY <1>4, <2>1
  <2> QED BY <1>5, <2>2
<1>11. ASSUME NEW y, HasResult(b, y), y # x PROVE HasResult(c, y)
  <2>1. PICK i \in 1 .. Len(s) : s[i][1] = y
    BY <1>1, <1>11 DEF HasResult
  <2>2. i - 1 \in 1 .. Len(t) /\ t[i - 1][1] = y
    BY <1>10, <1>11, <2>1
  <2> QED BY <1>2, <2>2 DEF HasResult
<1>12. ASSUME NEW y, LiveResult(b, y), y # x PROVE LiveResult(c, y)
  <2>1. PICK i \in 1 .. Len(s) : s[i][1] = y /\ s[i][2] # "CANCEL"
    BY <1>1, <1>12 DEF LiveResult
  <2>2. i - 1 \in 1 .. Len(t) /\ t[i - 1][1] = y /\ t[i - 1][2] # "CANCEL"
    BY <1>10, <1>12, <2>1
  <2> QED BY <1>2, <2>2 DEF LiveResult
<1>13. ASSUME NEW i \in 1 .. Len(t), NEW j \in 1 .. Len(t), t[i][1] = t[j][1] PROVE i = j
  <2>1. s[i + 1][1] = s[j + 1][1] /\ i + 1 \in 1 .. Len(s) /\ j + 1 \in 1 .. Len(s)
    BY <1>4, <1>13
  <2>2. i + 1 = j + 1
    BY <1>6, <2>1
  <2> QED BY <1>4, <2>2
<1>14. \A i \in 1 .. Len(t) : \E j \in 1 .. Len(s) : t[i] = s[j]
  BY <1>4
<1> QED BY <1>1, <1>2, <1>4, <1>7, <1>8, <1>9, <1>11, <1>12, <1>13, <1>14 DEF Shifted

DequeueFields(b, c, x) ==
  /\ DOMAIN c = Fields /\ c.servers = b.servers /\ c.good = b.good /\ c.ns = b.ns
  /\ c.inflight = b.inflight /\ c.waiting = b.waiting /\ c.max_inflight = b.max_inflight
  /\ c.search = b.search /\ c.global = b.global /\ c.req = b.req /\ c.asked = b.asked
  /\ c.suspended = b.suspended /\ c.freed = b.freed
  /\ HandlePut(b, c, x, NewHandle) /\ Shifted(b, c, x)
  /\ b.hnd[x].pending_cb /\ ~b.hnd[x].current_req

\* The handle of the result is free again.
LEMMA DequeueKeeps ==
  ASSUME NEW b, Core(b, {}), RefsOK(b), Pend(b, {}), NEW x, NEW c, Dequeues(b, c, x)
  PROVE  /\ Core(c, {}) /\ RefsOK(c) /\ Pend(c, {}) /\ DequeueFields(b, c, x)
<1>1. Shifted(b, c, x)
  BY TailShifts DEF Pend, Dequeues
<1>2. x \in Handles /\ b.hnd[x].pending_cb /\ ~b.hnd[x].current_req
  BY <1>1 DEF Pend, Shifted
<1>3. HandlePut(b, c, x, NewHandle)
  BY <1>2, HandleIsPut DEF Core, Dequeues
<1>4. DequeueFields(b, c, x)
  BY <1>1, <1>2, <1>3 DEF DequeueFields, Dequeues, Changes, Fields
<1>5. ~Lists(b.inflight, x) /\ ~Lists(b.waiting, x)
  <2>1. ListedOK(b, x, {})
    BY <1>2 DEF Core, ListsOK
  <2> QED BY <1>2, <2>1 DEF ListedOK
<1>6. Core(c, {})
  <2>1. Changes(b, c, HandleFields)
    BY DEF Dequeues, Changes, HandleFields, Fields
  <2>2. {} \in SUBSET Handles /\ x \notin {}
    OBVIOUS
  <2>3. PutsHandle(b, c, x, NewHandle)
    BY DEF Dequeues
  <2> QED BY <1>2, <1>5, <2>1, <2>2, <2>3, TakeInHand, NewHandleFacts
<1>7. RefsOK(c)
  <2>1. b.hnd[x].search_state = None
    BY <1>2 DEF RefsOK
  <2>2. RefsLike(b, c)
    BY <1>2, <1>4, <2>1, NewHandleFacts DEF RefsLike, DequeueFields, HandlePut, RefsOK
  <2> QED BY <2>2, RefsLikeKeeps
<1>8. Pend(c, {})
  <2>1. \A y \in Handles : c.hnd[y].pending_cb <=> HasResult(c, y)
    BY <1>1, <1>3, NewHandleFacts DEF Pend, HandlePut, Shifted
  <2>2. \A y \in Handles : c.hnd[y].pending_cb /\ c.hnd[y].current_req => y \in {}
    BY <1>3, NewHandleFacts DEF Pend, HandlePut
  <2>3. \A y \in Users : y \in c.told => ~Active(c.hnd[y])
    BY <1>3, NewHandleFacts, HandleKinds DEF Pend, HandlePut, Active, Dequeues
  <2> QED BY <1>1, <2>1, <2>2, <2>3 DEF Pend, Shifted
<1> QED BY <1>4, <1>6, <1>7, <1>8

\* No server waits for the result any more.
NotAwaited(b, x, Z) ==
  x \in Probes => /\ \A m \in Servers : Lists(b.servers, m) => b.ns[m].probe # x
                  /\ \A m \in Servers : LiveResult(b, x) /\ Lists(b.servers, m) /\ b.hnd[x].ns = m
                                        /\ ~b.ns[m].state => m \in Z

LEMMA DequeueRest ==
  ASSUME NEW b, NEW Z, Core(b, {}), Rest(b, {}, Z), Pend(b, {}), NEW x, NEW c, DequeueFields(b, c, x),
         NotAwaited(b, x, Z), c.told = b.told \/ c.told = b.told \cup {x}
  PROVE  Rest(c, {}, Z)
<1> DEFINE h == NewHandle
<1>1. /\ c.servers = b.servers /\ c.ns = b.ns /\ c.asked = b.asked /\ x \in Handles
      /\ c.hnd[x] = NewHandle /\ \A y \in Handles : y # x => c.hnd[y] = b.hnd[y]
  BY DEF DequeueFields, HandlePut, Shifted
<1>2. Active(b.hnd[x]) /\ ~b.hnd[x].current_req
  BY DEF DequeueFields, Active
<1>3. ~Active(NewHandle) /\ NewHandle.ns = None /\ ~NewHandle.current_req
  BY NewHandleFacts DEF Active
<1>4. \A y \in Handles : ~Active(c.hnd[y]) => c.hnd[y] = NewHandle
  BY <1>1 DEF Rest
<1>5. ASSUME NEW y \in Users
      PROVE  c.hnd[y].ns = None /\ (y \notin c.asked => ~Active(c.hnd[y]) /\ y \notin c.told)
  <2>1. CASE y = x
    BY <1>1, <1>2, <1>3, <2>1 DEF Rest
  <2>2. CASE y # x
    BY <1>1, <2>2, HandleKinds DEF Rest
  <2> QED BY <2>1, <2>2
<1>6. ASSUME NEW n \in Servers, Lists(c.servers, n)
      PROVE  ProbeOfServer(c, n) /\ (c.ns[n].timeout => ~c.ns[n].state)
  <2>1. b.ns[n].probe \in Probes \cup {None} /\ Lists(b.servers, n)
    BY <1>1, <1>6 DEF Core, NetTyped, Server
  <2>2. ProbeOfServer(b, n) /\ (b.ns[n].timeout => ~b.ns[n].state)
    BY <2>1 DEF Rest
  <2>3. b.ns[n].probe # None => b.ns[n].probe # x
    BY <2>1 DEF NotAwaited
  <2> QED BY <1>1, <2>1, <2>2, <2>3, HandleKinds DEF ProbeOfServer
<1>7. ASSUME NEW y \in Probes, c.hnd[y].current_req PROVE ProbeIsOut(c, y)
  <2>1. y # x /\ y \in Handles
    BY <1>1, <1>3, <1>7, HandleKinds
  <2>2. ProbeIsOut(b, y)
    BY <1>1, <1>7, <2>1 DEF Rest
  <2> QED BY <1>1, <2>1, <2>2 DEF ProbeIsOut
<1>8. \A y, z \in Probes : c.hnd[y].ns = c.hnd[z].ns /\ c.hnd[y].ns # None => y = z
  BY <1>1, <1>3, HandleKinds DEF Rest
<1>9. \A y \in Probes : Active(c.hnd[y]) => c.hnd[y].ns # None
  BY <1>1, <1>3, HandleKinds DEF Rest
<1>10. \A i \in 1 .. Len(c.deferred), n \in Servers :
          c.deferred[i][2] = "CANCEL" /\ Lists(c.servers, n) /\ n \notin Z
          => c.ns[n].probe # c.deferred[i][1]
  BY <1>1 DEF Rest, DequeueFields, Shifted
<1> QED BY <1>4, <1>5, <1>6, <1>7, <1>8, <1>9, <1>10 DEF Rest

LEMMA DequeueGood ==
  ASSUME NEW b, NEW Z, Good(b, {}, Z, {}), NEW x, NEW c, Dequeues(b, c, x), NotAwaited(b, x, Z)
  PROVE  Good(c, {}, Z, {}) /\ DequeueFields(b, c, x)
<1>1. /\ Core(b, {}) /\ RefsOK(b) /\ Pend(b, {}) /\ Rest(b, {}, Z) /\ b.max_inflight \in 1 .. 5
  BY GoodCore
<1>2. Core(c, {}) /\ RefsOK(c) /\ Pend(c, {}) /\ DequeueFields(b, c, x)
  BY <1>1, DequeueKeeps
<1>3. Rest(c, {}, Z)
  BY <1>1, <1>2, DequeueRest DEF Dequeues
<1>4. /\ c.servers = b.servers /\ c.ns = b.ns /\ c.inflight = b.inflight /\ c.waiting = b.waiting
      /\ c.req = b.req /\ c.suspended = b.suspended /\ c.max_inflight = b.max_inflight /\ x \in Handles
      /\ c.hnd[x] = NewHandle /\ \A y \in Handles : y # x => c.hnd[y] = b.hnd[y]
  BY <1>2 DEF DequeueFields, HandlePut, Shifted
<1>5. FedOK(c) /\ (c.servers = <<>> => c.suspended)
  <2>1. ~Lists(b.waiting, x)
    <3>1. ListedOK(b, x, {})
      BY <1>1, <1>4 DEF Core, ListsOK
    <3> QED BY <1>2, <3>1 DEF ListedOK, DequeueFields
  <2>2. \A y \in Handles : Lists(b.waiting, y) /\ SearchedOn(b, y) => SearchedOn(c, y)
    BY <1>4, <2>1 DEF SearchedOn
  <2> QED BY <1>4, <2>2 DEF Good, FedOK
<1>6. ASSUME ~DisableWhenInactive PROVE Watched(c, {}) /\ DownOK(c, {}, Z)
  <2>1. Watched(b, {}) /\ DownOK(b, {}, Z)
    BY <1>6 DEF Good
  <2>2. Watched(c, {})
    BY <1>4, <2>1 DEF Watched, SomeWaits
  <2>3. ASSUME NEW n \in Servers, Lists(c.servers, n), ~c.ns[n].state, n \notin Z, ~c.ns[n].timeout
        PROVE  \E y \in Probes : c.hnd[y].ns = n /\ ProbeBusy(c, y, {})
    <3>1. PICK y \in Probes : b.hnd[y].ns = n /\ ProbeBusy(b, y, {})
      BY <1>4, <2>1, <2>3 DEF DownOK
    <3>2. y # x
      BY <1>2, <1>4, <2>3, <3>1 DEF NotAwaited, ProbeBusy, DequeueFields
    <3>3. ProbeBusy(c, y, {})
      BY <1>2, <1>4, <3>1, <3>2, HandleKinds DEF ProbeBusy, DequeueFields, Shifted
    <3> QED BY <1>4, <3>1, <3>2, <3>3, HandleKinds
  <2> QED BY <2>2, <2>3 DEF DownOK
<1> QED BY <1>2, <1>3, <1>4, <1>5, <1>6, <1>1 DEF Good, Sound

\* What the promise sees of it.
LEMMA DequeueDrops ==
  ASSUME NEW b, NEW c, NEW x \in Probes, Dequeues(b, c, x), DequeueFields(b, c, x), c.told = b.told
  PROVE  Drops(b, c)
<1>1. \A y \in Users : y \in Handles /\ y # x
  BY HandleKinds
<1>2. SameAsked(b, c)
  BY <1>1 DEF SameAsked, DequeueFields, HandlePut
<1>3. x \notin Users
  BY HandleKinds
<1> QED BY <1>2, <1>3 DEF Drops, Dequeues

LEMMA DequeueTells ==
  ASSUME NEW b, Pend(b, {}), NEW c, NEW x \in Users, Dequeues(b, c, x), DequeueFields(b, c, x),
         c.told = b.told \cup {x}
  PROVE  Tells(b, c, x)
<1>1. x \notin b.told
  BY DEF Pend, DequeueFields, Active
<1>2. ASSUME NEW y \in Users PROVE c.hnd[y].current_req <=> b.hnd[y].current_req
  <2>1. CASE y = x
    BY <2>1, NewHandleFacts DEF DequeueFields, HandlePut
  <2>2. CASE y # x
    BY <2>2, HandleKinds DEF DequeueFields, HandlePut
  <2> QED BY <2>1, <2>2
<1> QED BY <1>1, <1>2 DEF Tells, SameAsked, Dequeues

LEMMA DropsSeen ==
  ASSUME NEW b, NEW a, SameView(b, a), NEW c, Drops(a, c)
  PROVE  Drops(b, c)
BY DEF SameView, Drops, SameAsked

LEMMA SeenDrops ==
  ASSUME NEW b, NEW a, Drops(b, a), NEW c, SameView(a, c)
  PROVE  Drops(b, c)
BY DEF SameView, Drops, SameAsked

LEMMA SeenTells ==
  ASSUME NEW b, NEW a, NEW x, Tells(b, a, x), NEW c, SameView(a, c)
  PROVE  Tells(b, c, x)
BY DEF SameView, Tells, SameAsked

LEMMA DropsPromised ==
  ASSUME NEW b, Drops(base, b), DOMAIN b = Fields, Becomes(b)
  PROVE  PromiseStep(base, base')
BY BecomesView, SeenDrops DEF PromiseStep

LEMMA DropsAndFollows ==
  ASSUME NEW b, Drops(base, b), NEW c, Follows(b, c), Good(c, {}, {}, {}), Becomes(c)
  PROVE  PromiseStep(base, base')
<1>1. DOMAIN c = Fields
  BY GoodCore
<1>2. Follows(b, base')
  BY <1>1, BecomesView, FollowsView
<1>3. InUse(base')
  BY BecomesGood
<1>4. Tidy(base')
  BY <1>3, GoodCore, TidyWhenPend DEF InUse
<1> QED BY <1>2, <1>4 DEF PromiseStep

LEMMA BecomesGone ==
  ASSUME NEW b, Gone(b), b.freed, Becomes(b)
  PROVE  IInv'
<1>1. DOMAIN b = Fields
  BY DEF Gone, Core, NetTyped
<1>2. Trifling(b, base') /\ base'.freed
  BY <1>1, BecomesKeeps
<1>3. Core(base', {}) /\ RefsOK(base') /\ Pend(base', {})
  BY <1>2, TriflingCore, TriflingRefs, TriflingPend DEF Gone
<1>4. Gone(base')
  BY <1>2, <1>3, TriflingFields DEF Gone
<1> QED BY <1>2, <1>4 DEF IInv

LEMMA BecomesDangling ==
  ASSUME NEW b, DOMAIN b = Fields, b.dangling, Becomes(b)
  PROVE  IInv'
BY BecomesKeeps DEF IInv

LEMMA BecomesInUse ==
  ASSUME NEW b, Good(b, {}, {}, {}), Becomes(b)
  PROVE  IInv'
BY BecomesGood DEF IInv

\* The callback of a probe learns its server.
LEMMA ProbeResult ==
  ASSUME NEW b, Good(b, {}, {}, {}), b.deferred # <<>>, NEW x \in Probes, x = Head(b.deferred)[1]
  PROVE  /\ b.hnd[x].ns \in Servers
         /\ ~b.hnd[x].current_req
         /\ \A i \in 1 .. Len(b.deferred) : b.deferred[i][1] = x => i = 1
         /\ b.deferred[1] = Head(b.deferred) /\ 1 \in 1 .. Len(b.deferred)
<1>1. Pend(b, {}) /\ Rest(b, {}, {}) /\ b.hnd \in [Handles -> Handle]
  BY GoodCore
<1>2. b.deferred \in Seq(Handles \X Errors)
  BY <1>1 DEF Pend
<1>3. b.deferred[1] = Head(b.deferred) /\ 1 \in 1 .. Len(b.deferred)
  BY <1>2
<1>4. x \in Handles
  BY HandleKinds
<1>5. HasResult(b, x)
  BY <1>3 DEF HasResult
<1>6. b.hnd[x].pending_cb /\ ~b.hnd[x].current_req
  BY <1>1, <1>4, <1>5 DEF Pend
<1>7. b.hnd[x].ns # None
  BY <1>1, <1>6 DEF Rest, Active
<1>8. b.hnd[x].ns \in Servers \cup {None}
  BY <1>1, <1>4 DEF Handle
<1>9. \A i \in 1 .. Len(b.deferred) : b.deferred[i][1] = x => i = 1
  BY <1>1, <1>3 DEF Pend
<1> QED BY <1>3, <1>6, <1>7, <1>8, <1>9

LEMMA CancelledAwaited ==
  ASSUME NEW b, Good(b, {}, {}, {}), b.deferred # <<>>, NEW x \in Probes, x = Head(b.deferred)[1],
         Head(b.deferred)[2] = "CANCEL"
  PROVE  NotAwaited(b, x, {})
<1>1. Rest(b, {}, {})
  BY GoodCore
<1>2. /\ \A i \in 1 .. Len(b.deferred) : b.deferred[i][1] = x => i = 1
      /\ b.deferred[1] = Head(b.deferred) /\ 1 \in 1 .. Len(b.deferred)
  BY ProbeResult
<1>3. \A m \in Servers : Lists(b.servers, m) => b.ns[m].probe # x
  BY <1>1, <1>2 DEF Rest
<1>4. ~LiveResult(b, x)
  BY <1>2 DEF LiveResult
<1> QED BY <1>3, <1>4 DEF NotAwaited

ProbeForgotten(b, f, n, Y) ==
  /\ Good(f, {}, Y, {}) /\ f.deferred = b.deferred /\ f.hnd = b.hnd /\ f.servers = b.servers
  /\ f.ns[n].probe = None /\ (f.ns[n].state <=> b.ns[n].state)
  /\ Y = IF b.ns[n].state THEN {} ELSE {n}

MadeFor(b, x, n) == b.hnd[x].ns = n

LEMMA ForgetProbe ==
  ASSUME NEW b, Good(b, {}, {}, {}), b.deferred # <<>>, NEW x \in Probes, x = Head(b.deferred)[1],
         NEW n, MadeFor(b, x, n), Lists(b.servers, n), NEW f, f = [b EXCEPT !.ns[n].probe = None],
         NEW Y, Y = IF b.ns[n].state THEN {} ELSE {n}
  PROVE  ProbeForgotten(b, f, n, Y) /\ NotAwaited(f, x, Y) /\ n \in Servers
<1>1. n \in Servers /\ ~b.hnd[x].current_req
  BY ProbeResult DEF MadeFor
<1>2. Rest(b, {}, {}) /\ b.ns \in [Servers -> Server] /\ b.ns[n] \in Server
  BY <1>1, GoodCore
<1>3. n # None
  BY <1>1, NoneIsNot
<1>4. ASSUME NEW m \in Servers, Lists(b.servers, m), NEW y \in Probes, b.ns[m].probe = y
      PROVE  b.hnd[y].ns = m
  <2>1. ProbeOfServer(b, m) /\ y # None
    BY <1>2, <1>4, NoneIsNot DEF Rest
  <2> QED BY <1>4, <2>1 DEF ProbeOfServer
<1>5. ASSUME NEW y \in Probes, b.ns[n].probe = y PROVE ~b.hnd[y].current_req
  <2>1. b.hnd[y].ns = n
    BY <1>1, <1>4, <1>5
  <2>2. y = x
    BY <1>2, <1>3, <2>1 DEF Rest, MadeFor
  <2> QED BY <1>1, <2>2
<1>6. Good(f, {}, Y, {}) /\ TunedFields(b, f, n, Forgot(b.ns[n]))
  <2>1. PICK V : V = {}
    OBVIOUS
  <2>2. Good(b, V, V, {}) /\ V \subseteq {n}
    BY <2>1
  <2>3. \A y \in Probes : b.ns[n].probe = y /\ y \notin V => ~b.hnd[y].current_req
    BY <1>5
  <2>4. Good(f, V, Y, {}) /\ TunedFields(b, f, n, Forgot(b.ns[n]))
    BY <1>1, <2>2, <2>3, ForgetGood
  <2> QED BY <2>1, <2>4
<1>7. f.deferred = b.deferred /\ f.hnd = b.hnd /\ f.servers = b.servers /\ f.ns[n] = Forgot(b.ns[n])
      /\ \A m \in Servers : m # n => f.ns[m] = b.ns[m]
  BY <1>6 DEF TunedFields
<1>8. f.ns[n].probe = None /\ (f.ns[n].state <=> b.ns[n].state)
  BY <1>2, <1>7, ForgotFacts
<1>9. NotAwaited(f, x, Y)
  <2>1. ASSUME NEW m \in Servers, Lists(f.servers, m), f.ns[m].probe = x PROVE FALSE
    <3>1. m # n
      BY <1>8, <2>1, NoneIsNot
    <3>2. b.ns[m].probe = x /\ Lists(b.servers, m)
      BY <1>7, <2>1, <3>1
    <3> QED BY <1>4, <3>1, <3>2 DEF MadeFor
  <2>2. \A m \in Servers : f.hnd[x].ns = m /\ ~f.ns[m].state => m \in Y
    BY <1>7, <1>8 DEF MadeFor
  <2> QED BY <2>1, <2>2 DEF NotAwaited
<1> QED BY <1>1, <1>6, <1>7, <1>8, <1>9 DEF ProbeForgotten

Timed(k) == [k EXCEPT !.timeout = ~k.state]

LEMMA TimedFacts ==
  ASSUME NEW k \in Server, NEW m, m = Timed(k)
  PROVE  /\ m \in Server /\ (m.state <=> k.state) /\ m.probe = k.probe /\ (m.timeout <=> ~k.state)
         /\ m.requests_inflight = k.requests_inflight /\ (m.choked <=> k.choked)
         /\ (m.write_waiting <=> k.write_waiting) /\ (m.event <=> k.event)
<1>1. m = [k EXCEPT !.timeout = ~k.state]
  BY DEF Timed
<1>2. PICK t \in BOOLEAN : t = ~k.state
  BY DEF Server
<1>3. m = [k EXCEPT !.timeout = t]
  BY <1>1, <1>2
<1> QED BY <1>2, <1>3 DEF Server

\* The next probe of a server that is down will be made.
LEMMA ProbeFailedGood ==
  ASSUME NEW b, NEW n \in Servers, NEW Z, Good(b, {}, Z, {}), Z \subseteq {n}, b.ns[n].probe = None,
         \A y \in Probes : b.hnd[y].ns # n, NEW c, c = nameserver_probe_failed(b, n)
  PROVE  Good(c, {}, {}, {})
<1>1. DOMAIN b = Fields /\ b.ns \in [Servers -> Server] /\ b.ns[n] \in Server /\ Core(b, {})
      /\ b.draw \in Seq(Ids) /\ b.draw # <<>>
  BY GoodCore DEF NetTyped
<1>2. PICK k : k = Timed(b.ns[n])
  OBVIOUS
<1>3. /\ k \in Server /\ (k.state <=> b.ns[n].state) /\ k.probe = None /\ (k.timeout <=> ~b.ns[n].state)
      /\ k.requests_inflight = b.ns[n].requests_inflight /\ (k.choked <=> b.ns[n].choked)
      /\ (k.write_waiting <=> b.ns[n].write_waiting) /\ (k.event <=> b.ns[n].event)
  BY <1>1, <1>2, TimedFacts
<1>4. c = [b EXCEPT !.ns[n].timeout = ~b.ns[n].state]
  BY DEF nameserver_probe_failed
<1>5. c.ns = [b.ns EXCEPT ![n] = k]
  BY <1>1, <1>2, <1>4 DEF Fields, Timed
<1>6. Changes(b, c, Trifles \cup {"ns"}) /\ c.draw = b.draw
  BY <1>1, <1>4 DEF Changes, Trifles, Fields
<1>7. Tunes(b, c, n, k)
  BY <1>1, <1>3, <1>5, <1>6, SetsServerTunes DEF SetsServer
<1>8. TunesRight(b, n, k, {}, Z, {})
  BY <1>3 DEF TunesRight
<1>9. TunesDown(b, n, k, Z, {}) /\ TunesWatch(b, n, k)
  BY <1>3 DEF TunesDown, TunesWatch
<1> QED BY <1>7, <1>8, <1>9, TunedGood


LEMMA UserTold ==
  ASSUME IInv, base.deferred # <<>>, ~base.dangling, NEW x \in Users, x = Head(base.deferred)[1],
         Becomes([[base EXCEPT !.deferred = Tail(@), !.hnd[x] = NewHandle] EXCEPT !.told = @ \cup {x}])
  PROVE  IInv' /\ Tells(base, base', x)
<1>1. PICK c : c = [[base EXCEPT !.deferred = Tail(@), !.hnd[x] = NewHandle] EXCEPT !.told = @ \cup {x}]
  OBVIOUS
<1>2. Core(base, {}) /\ RefsOK(base) /\ Pend(base, {}) /\ DOMAIN base = Fields
      /\ base.hnd \in [Handles -> Handle]
  BY GoodCore DEF IInv, InUse, Gone, Core, NetTyped
<1>3. Changes(base, c, {"deferred", "hnd", "told"})
  BY <1>1, <1>2 DEF Changes, Fields
<1>4. c.deferred = Tail(base.deferred) /\ c.hnd = [base.hnd EXCEPT ![x] = NewHandle]
      /\ c.told = base.told \cup {x}
  BY <1>1, <1>2 DEF Fields
<1>5. Dequeues(base, c, x)
  BY <1>3, <1>4, NewHandleFacts DEF Dequeues, PutsHandle
<1>8. DequeueFields(base, c, x)
  BY <1>2, <1>5, DequeueKeeps
<1>9. Tells(base, c, x)
  BY <1>2, <1>4, <1>5, <1>8, DequeueTells
<1>10. Tells(base, base', x)
  <2>1. DOMAIN c = Fields
    BY <1>8 DEF DequeueFields
  <2> QED BY <1>1, <1>9, <2>1, BecomesView, SeenTells
<1>6. CASE InUse(base)
  <2>1. NotAwaited(base, x, {})
    BY HandleKinds DEF NotAwaited
  <2>2. Good(c, {}, {}, {})
    BY <1>5, <1>6, <2>1, DequeueGood DEF InUse
  <2> QED BY <1>1, <1>10, <2>2, BecomesInUse
<1>7. CASE base.freed /\ Gone(base)
  <2>1. Core(c, {}) /\ RefsOK(c) /\ Pend(c, {}) /\ DequeueFields(base, c, x)
    BY <1>2, <1>5, DequeueKeeps
  <2>2. c.freed /\ Gone(c)
    BY <1>7, <2>1, NewHandleFacts DEF Gone, DequeueFields, HandlePut
  <2> QED BY <1>1, <1>10, <2>2, BecomesGone
<1> QED BY <1>6, <1>7, <1>10 DEF IInv

LEMMA ProbeTold ==
  ASSUME Good(base, {}, {}, {}), base.deferred # <<>>, NEW x \in Probes, x = Head(base.deferred)[1],
         NEW err, err = Head(base.deferred)[2], NEW send \in [Servers -> Sent], NEW d \in Draws,
         NEW b, b = [[base EXCEPT !.deferred = Tail(@), !.hnd[x] = NewHandle] EXCEPT !.draw = d],
         Becomes(nameserver_probe_callback(b, base.hnd[x].ns, err, send))
  PROVE  IInv' /\ PromiseStep(base, base')
<1>1. PICK a : a = [base EXCEPT !.draw = d]
  OBVIOUS
<1>2. Good(a, {}, {}, {}) /\ Trifling(base, a) /\ SameView(base, a)
  BY <1>1, DrawnGood
<1>3. DOMAIN base = Fields /\ DOMAIN a = Fields /\ a.servers = base.servers /\ a.ns = base.ns
      /\ a.hnd = base.hnd /\ a.deferred = base.deferred /\ a.told = base.told
  BY <1>2, GoodCore, TriflingFields
<1>4. PICK n : n = base.hnd[x].ns
  OBVIOUS
<1>5. n \in Servers
  BY <1>4, ProbeResult
<1>6. b = [a EXCEPT !.deferred = Tail(@), !.hnd[x] = NewHandle]
  BY <1>1, <1>3 DEF Fields
<1>7. b.servers = a.servers /\ DOMAIN b = Fields
  BY <1>3, <1>6 DEF Fields
<1>8. b.servers \in Seq(Servers)
  BY <1>2, <1>7, GoodCore
<1>12. Dequeues(a, b, x) /\ b.told = a.told
  <2>2. Changes(a, b, {"deferred", "hnd", "told"}) /\ b.told = a.told
    BY <1>3, <1>6 DEF Changes, Fields
  <2>3. b.deferred = Tail(a.deferred) /\ b.hnd = [a.hnd EXCEPT ![x] = NewHandle]
    BY <1>3, <1>6 DEF Fields
  <2> QED BY <1>3, <2>2, <2>3, NewHandleFacts DEF Dequeues, PutsHandle
<1>13. Drops(base, b)
  <2>1. Core(a, {}) /\ RefsOK(a) /\ Pend(a, {})
    BY <1>2, GoodCore
  <2>2. DequeueFields(a, b, x)
    BY <1>12, <2>1, DequeueKeeps
  <2>3. Drops(a, b)
    BY <1>12, <2>2, DequeueDrops
  <2> QED BY <1>2, <2>3, DropsSeen
<1>9. CASE err = "CANCEL"
  <2>1. Becomes(b)
    BY <1>9 DEF nameserver_probe_callback
  <2>4. Dequeues(a, b, x)
    BY <1>12
  <2>5. NotAwaited(a, x, {})
    BY <1>2, <1>3, <1>9, CancelledAwaited
  <2>6. Good(b, {}, {}, {})
    BY <1>2, <2>4, <2>5, DequeueGood
  <2> QED BY <1>7, <1>13, <2>1, <2>6, BecomesInUse, DropsPromised
<1>10. CASE err # "CANCEL" /\ n \notin Members(b.servers)
  <2>1. PICK c : c = [b EXCEPT !.dangling = TRUE]
    OBVIOUS
  <2>2. Becomes(c)
    BY <1>4, <1>10, <2>1 DEF nameserver_probe_callback
  <2>3. DOMAIN c = Fields /\ c.dangling /\ SameView(b, c)
    BY <1>7, <2>1 DEF Fields, SameView
  <2>4. Drops(base, c)
    BY <1>13, <2>3, SeenDrops
  <2> QED BY <2>2, <2>3, <2>4, BecomesDangling, DropsPromised
<1>11. CASE err # "CANCEL" /\ n \in Members(b.servers)
  <2>1. PICK c : c = [b EXCEPT !.ns[n].probe = None]
    OBVIOUS
  <2>2. Becomes(IF err \in {"NONE", "NOTEXIST"} THEN nameserver_up(c, n, send)
                ELSE nameserver_probe_failed(c, n))
    BY <1>4, <1>11, <2>1 DEF nameserver_probe_callback
  <2>3. PICK f : f = [a EXCEPT !.ns[n].probe = None]
    OBVIOUS
  <2>4. PICK Y : Y = IF a.ns[n].state THEN {} ELSE {n}
    OBVIOUS
  <2>5. Lists(a.servers, n)
    BY <1>7, <1>8, <1>11, MembersFacts
  <2>6. ProbeForgotten(a, f, n, Y) /\ NotAwaited(f, x, Y)
    <3>1. MadeFor(a, x, n)
      BY <1>3, <1>4 DEF MadeFor
    <3> QED BY <1>2, <1>3, <2>3, <2>4, <2>5, <3>1, ForgetProbe
  <2>7. DOMAIN f = Fields /\ f.deferred = a.deferred /\ f.hnd = a.hnd
    BY <2>6, GoodCore DEF ProbeForgotten
  <2>8. c = [f EXCEPT !.deferred = Tail(@), !.hnd[x] = NewHandle]
    BY <1>3, <1>6, <2>1, <2>3 DEF Fields
  <2>9. Changes(f, c, {"deferred", "hnd", "told"}) /\ c.told = f.told
    BY <2>7, <2>8 DEF Changes, Fields
  <2>10. c.deferred = Tail(f.deferred) /\ c.hnd = [f.hnd EXCEPT ![x] = NewHandle]
    BY <2>7, <2>8 DEF Fields
  <2>11. Dequeues(f, c, x)
    BY <1>3, <2>7, <2>9, <2>10, NewHandleFacts DEF Dequeues, PutsHandle
  <2>12. Good(c, {}, Y, {}) /\ DequeueFields(f, c, x)
    BY <2>6, <2>11, DequeueGood DEF ProbeForgotten
  <2>13. c.servers = f.servers /\ c.ns = f.ns /\ c.hnd[x] = NewHandle
         /\ \A y \in Handles : y # x => c.hnd[y] = f.hnd[y]
    BY <2>12 DEF DequeueFields, HandlePut
  <2>14. c.ns[n].probe = None /\ (c.ns[n].state <=> a.ns[n].state) /\ Lists(c.servers, n)
    BY <2>5, <2>6, <2>13 DEF ProbeForgotten
  <2>15. Y \subseteq {n} /\ (c.ns[n].state => Y = {})
    BY <2>4, <2>14
  <2>18. Drops(base, c)
    <3>1. SameView(b, c)
      BY <1>7, <2>1 DEF Fields, SameView
    <3> QED BY <1>13, <3>1, SeenDrops
  <2>16. CASE err \in {"NONE", "NOTEXIST"}
    <3>1. PICK e : e = nameserver_up(c, n, send)
      OBVIOUS
    <3>2. None \notin {}
      OBVIOUS
    <3>3. Good(e, {}, {}, {}) /\ Follows(c, e)
      BY <1>5, <2>12, <2>14, <2>15, <3>1, <3>2, ServerUpGood DEF UpAgain
    <3>4. Becomes(e)
      BY <2>2, <2>16, <3>1
    <3> QED BY <2>18, <3>3, <3>4, BecomesInUse, DropsAndFollows
  <2>17. CASE err \notin {"NONE", "NOTEXIST"}
    <3>1. PICK e : e = nameserver_probe_failed(c, n)
      OBVIOUS
    <3>2. ASSUME NEW y \in Probes, c.hnd[y].ns = n PROVE FALSE
      <4>1. n # None /\ y # x
        BY <1>5, <2>13, <3>2, NoneIsNot, NewHandleFacts
      <4>2. a.hnd[y].ns = n /\ a.hnd[x].ns = n
        BY <1>3, <1>4, <2>7, <2>13, <3>2, <4>1, HandleKinds
      <4>3. Rest(a, {}, {})
        BY <1>2, GoodCore
      <4> QED BY <4>1, <4>2, <4>3 DEF Rest
    <3>3. Good(e, {}, {}, {})
      BY <1>5, <2>12, <2>14, <2>15, <3>1, <3>2, ProbeFailedGood
    <3>4. Becomes(e)
      BY <2>2, <2>17, <3>1
    <3>5. DOMAIN e = Fields /\ SameView(c, e)
      <4>1. DOMAIN c = Fields
        BY <2>12, GoodCore
      <4> QED BY <3>1, <4>1 DEF nameserver_probe_failed, SameView, Fields
    <3>6. Drops(base, e)
      BY <2>18, <3>5, SeenDrops
    <3> QED BY <3>3, <3>4, <3>5, <3>6, BecomesInUse, DropsPromised
  <2> QED BY <2>16, <2>17
<1> QED BY <1>9, <1>10, <1>11

LEMMA CallbackStep ==
  ASSUME IInv, reply_run_callback
  PROVE  IInv' /\ PromiseStep(base, base')
<1>1. ~base.dangling /\ base.deferred # <<>>
  BY DEF reply_run_callback
<1>2. PICK x : x = Head(base.deferred)[1]
  OBVIOUS
<1>3. PICK err : err = Head(base.deferred)[2]
  OBVIOUS
<1>4. PICK b : b = [base EXCEPT !.deferred = Tail(@), !.hnd[x] = NewHandle]
  OBVIOUS
<1>5. IF x \in Users THEN Becomes([b EXCEPT !.told = @ \cup {x}])
      ELSE \E send \in Sends, d \in Draws :
              Becomes(nameserver_probe_callback([b EXCEPT !.draw = d], base.hnd[x].ns, err, send))
  BY <1>2, <1>3, <1>4 DEF reply_run_callback
<1>6. DOMAIN base = Fields /\ base.deferred \in Seq(Handles \X Errors)
  BY <1>1, GoodCore DEF IInv, InUse, Gone, Core, NetTyped, Pend
<1>7. x \in Handles
  BY <1>1, <1>2, <1>6
<1>8. CASE x \in Users
  BY <1>1, <1>2, <1>4, <1>5, <1>8, UserTold DEF PromiseStep
<1>9. CASE x \notin Users
  <2>1. x \in Probes
    BY <1>7, <1>9 DEF Handles
  <2>2. PICK send \in Sends, d \in Draws :
          Becomes(nameserver_probe_callback([b EXCEPT !.draw = d], base.hnd[x].ns, err, send))
    BY <1>5, <1>9
  <2>3. send \in [Servers -> Sent]
    BY DEF Sends, Sent
  <2>4. PICK c : c = [b EXCEPT !.draw = d]
    OBVIOUS
  <2>5. CASE InUse(base)
    BY <1>1, <1>2, <1>3, <1>4, <2>1, <2>2, <2>3, <2>4, <2>5, ProbeTold DEF InUse
  <2>6. CASE base.freed /\ Gone(base)
    <3>1. c.servers = <<>> /\ DOMAIN c = Fields
      BY <1>4, <1>6, <2>4, <2>6 DEF Fields, Gone
    <3>2. PICK n : n = base.hnd[x].ns
      OBVIOUS
    <3>3. n \notin Members(c.servers)
      BY <3>1 DEF Members
    <3>6. PICK a : a = [base EXCEPT !.draw = d]
      OBVIOUS
    <3>7. Trifling(base, a) /\ SameView(base, a)
        <5>1. a.draw = d /\ Changes(base, a, Trifles)
          BY <1>6, <3>6 DEF Changes, Trifles, Fields
        <5> QED BY <5>1, DrawsTyped, TriflingView DEF Trifling
    <3>8. Dequeues(a, c, x) /\ DequeueFields(a, c, x) /\ Core(c, {}) /\ RefsOK(c) /\ Pend(c, {})
          /\ c.told = a.told
      <4>4. Core(a, {}) /\ RefsOK(a) /\ Pend(a, {}) /\ DOMAIN a = Fields
        BY <2>6, <3>7, TriflingCore, TriflingRefs, TriflingPend, TriflingFields DEF Gone
      <4>5. c = [a EXCEPT !.deferred = Tail(@), !.hnd[x] = NewHandle]
        BY <1>4, <1>6, <2>4, <3>6 DEF Fields
      <4>6. Changes(a, c, {"deferred", "hnd", "told"}) /\ c.told = a.told
        BY <4>4, <4>5 DEF Changes, Fields
      <4>7. c.deferred = Tail(a.deferred) /\ c.hnd = [a.hnd EXCEPT ![x] = NewHandle]
        BY <4>4, <4>5 DEF Fields
      <4>8. a.deferred = base.deferred
        BY <3>7, TriflingFields
      <4>9. Dequeues(a, c, x)
        BY <1>1, <1>2, <4>6, <4>7, <4>8, NewHandleFacts DEF Dequeues, PutsHandle
      <4>10. Core(c, {}) /\ RefsOK(c) /\ Pend(c, {}) /\ DequeueFields(a, c, x)
        BY <4>4, <4>9, DequeueKeeps
      <4> QED BY <4>6, <4>9, <4>10
    <3>9. Drops(base, c)
      BY <2>1, <3>7, <3>8, DequeueDrops, DropsSeen
    <3>4. CASE err = "CANCEL"
      <4>1. Becomes(c)
        BY <2>2, <2>4, <3>4 DEF nameserver_probe_callback
      <4>8. a.ns = base.ns /\ a.hnd = base.hnd /\ a.freed = base.freed
        BY <3>7, TriflingFields
      <4>11. c.freed /\ Gone(c)
        BY <2>6, <3>1, <3>8, <4>8, NewHandleFacts DEF Gone, DequeueFields, HandlePut
      <4> QED BY <3>1, <3>9, <4>1, <4>11, BecomesGone, DropsPromised
    <3>5. CASE err # "CANCEL"
      <4>1. PICK e : e = [c EXCEPT !.dangling = TRUE]
        OBVIOUS
      <4>2. Becomes(e)
        BY <2>2, <2>4, <3>2, <3>3, <3>5, <4>1 DEF nameserver_probe_callback
      <4>3. DOMAIN e = Fields /\ e.dangling /\ SameView(c, e)
        BY <3>1, <4>1 DEF Fields, SameView
      <4>4. Drops(base, e)
        BY <3>9, <4>3, SeenDrops
      <4> QED BY <4>2, <4>3, <4>4, BecomesDangling, DropsPromised
    <3> QED BY <3>4, <3>5
  <2> QED BY <1>1, <2>5, <2>6 DEF IInv
<1> QED BY <1>8, <1>9

-----------------------------------------------------------------------------
(* The configuration of a base that is in use.                             *)

Reconfigures(b, c) == Changes(b, c, {"search", "global", "max_inflight"})

LEMMA ReconfiguredGood ==
  ASSUME NEW b, Good(b, {}, {}, {}), NEW c, Reconfigures(b, c), RefsOK(c), c.max_inflight \in 1 .. 5
  PROVE  Good(c, {}, {}, {}) /\ SameView(b, c)
<1>1. /\ DOMAIN c = Fields /\ c.servers = b.servers /\ c.good = b.good /\ c.ns = b.ns
      /\ c.inflight = b.inflight /\ c.waiting = b.waiting /\ c.hnd = b.hnd /\ c.req = b.req
      /\ c.deferred = b.deferred /\ c.told = b.told /\ c.asked = b.asked /\ c.suspended = b.suspended
  BY DEF Reconfigures, Changes, Fields
<1>2. Core(b, {}) /\ Pend(b, {}) /\ Rest(b, {}, {}) /\ b.hnd \in [Handles -> Handle]
  BY GoodCore
<1>3. Core(c, {})
  <2>1. Changes(b, c, HandleFields)
    BY DEF Reconfigures, Changes, HandleFields, Fields
  <2>2. HandlesChange(b, c, {}, {})
    BY <1>1, <1>2, <2>1 DEF HandlesChange, SearchedOn
  <2> QED BY <1>2, <2>2, HandlesKeepCore
<1>4. Pend(c, {})
  BY <1>1, <1>2 DEF Pend, HasResult
<1>5. Rest(c, {}, {})
  BY <1>1, <1>2 DEF Rest, ProbeOfServer, ProbeIsOut
<1>6. FedOK(c) /\ (c.servers = <<>> => c.suspended)
  BY <1>1 DEF Good, FedOK, SearchedOn
<1>7. ASSUME ~DisableWhenInactive PROVE Watched(c, {}) /\ DownOK(c, {}, {})
  BY <1>1, <1>7 DEF Good, Watched, SomeWaits, DownOK, ProbeBusy, LiveResult
<1>8. SameView(b, c)
  BY <1>1 DEF SameView
<1> QED BY <1>3, <1>4, <1>5, <1>6, <1>7, <1>8 DEF Good, Sound

LEMMA LimitGood ==
  ASSUME NEW b, Good(b, {}, {}, {}), NEW m \in Limits, NEW c, c = [b EXCEPT !.max_inflight = m]
  PROVE  Good(c, {}, {}, {}) /\ SameView(b, c)
<1>1. DOMAIN b = Fields /\ RefsOK(b)
  BY GoodCore
<1>2. Changes(b, c, {"max_inflight"}) /\ c.max_inflight = m
  BY <1>1 DEF Changes, Fields
<1>3. Reconfigures(b, c)
  BY <1>2 DEF Reconfigures, Changes
<1>4. c.hnd = b.hnd /\ c.search = b.search /\ c.global = b.global
  BY <1>2 DEF Changes, Fields
<1>5. RefsOK(c)
  BY <1>1, <1>4, RefsSame
<1>6. c.max_inflight \in 1 .. 5
  BY <1>2, LimitAssumption
<1> QED BY <1>3, <1>5, <1>6, ReconfiguredGood

\* A new list of search domains, when the base refers to none.
FirstState == [refcount |-> 1, domains |-> <<>>]

StateAdded(b, c, k) ==
  /\ Changes(b, c, {"search", "global"}) /\ c.global = k
  /\ c.search = [b.search EXCEPT ![k] = FirstState]

LEMMA FirstStateFacts ==
  FirstState \in SearchState /\ FirstState.refcount = 1
<1>1. <<>> \in Seq(Domains) /\ 1 \in Int
  OBVIOUS
<1> QED BY <1>1 DEF FirstState, SearchState

LEMMA StateIsAdded ==
  ASSUME NEW b, DOMAIN b = Fields, NEW k, k = FreeState(b), NEW c, c = search_state_new(b)
  PROVE  StateAdded(b, c, k)
<1>1. c = [b EXCEPT !.search[k] = [refcount |-> 1, domains |-> <<>>], !.global = k]
  BY DEF search_state_new
<1>2. c.global = k /\ Changes(b, c, {"search", "global"})
  BY <1>1 DEF Changes, Fields
<1>3. c.search = [b.search EXCEPT ![k] = FirstState]
  BY <1>1 DEF Fields, FirstState
<1> QED BY <1>2, <1>3 DEF StateAdded

\* Every list of domains is counted as if the base did not refer to one.
Detached(b) ==
  /\ b.search \in [States -> SearchState]
  /\ \A k \in States : b.search[k].refcount = Cardinality(Holders(b, k))
  /\ \A x \in Handles : b.hnd[x].search_state # None => x \in Users /\ b.hnd[x].current_req
  /\ \A x \in Handles : x \notin Dotted => b.hnd[x].search_index \in Nat

LEMMA AddedRefs ==
  ASSUME NEW b, Detached(b), DOMAIN b = Fields, \E j \in States : b.search[j].refcount = 0,
         NEW c, c = search_state_new(b)
  PROVE  RefsOK(c) /\ Changes(b, c, {"search", "global"}) /\ c.global \in States
<1>1. PICK k : k = FreeState(b)
  OBVIOUS
<1>2. k \in States /\ b.search[k].refcount = 0
  BY <1>1 DEF FreeState
<1>3. StateAdded(b, c, k)
  BY <1>1, StateIsAdded
<1>4. c.hnd = b.hnd /\ c.global = k /\ c.search = [b.search EXCEPT ![k] = FirstState]
  BY <1>3 DEF StateAdded, Changes, Fields
<1>5. c.search \in [States -> SearchState] /\ c.search[k].refcount = 1
      /\ \A j \in States : j # k => c.search[j] = b.search[j]
  BY <1>2, <1>4, FirstStateFacts DEF Detached
<1>6. \A j \in States : Holders(c, j) = Holders(b, j)
  BY <1>4 DEF Holders
<1>7. ASSUME NEW j \in States PROVE CountedOK(c, j)
  <2>1. b.search[j].refcount = Cardinality(Holders(b, j))
    BY DEF Detached
  <2>2. Cardinality(Holders(b, j)) \in Nat
    BY HoldersFinite
  <2>3. CASE j = k
    BY <1>2, <1>4, <1>5, <1>6, <2>1, <2>2, <2>3 DEF CountedOK
  <2>4. CASE j # k
    BY <1>4, <1>5, <1>6, <2>1, <2>2, <2>4 DEF CountedOK
  <2> QED BY <2>3, <2>4
<1>8. k # None
  BY <1>2, NoneIsNot
<1> QED BY <1>2, <1>3, <1>4, <1>5, <1>7, <1>8 DEF RefsOK, Detached, StateAdded

LEMMA UnsharedDetached ==
  ASSUME NEW b, RefsOK(b), b.global = None
  PROVE  Detached(b) /\ \E j \in States : b.search[j].refcount = 0
<1>1. \A k \in States : Holders(b, k) = {}
  BY NoneIsNot DEF RefsOK, Holders
<1>2. ASSUME NEW k \in States PROVE b.search[k].refcount = Cardinality(Holders(b, k)) /\ b.search[k].refcount = 0
  <2>1. CountedOK(b, k)
    BY DEF RefsOK
  <2>2. b.global # k
    BY NoneIsNot
  <2>3. Cardinality(Holders(b, k)) = 0
    BY <1>1, FS_EmptySet
  <2> QED BY <2>1, <2>2, <2>3 DEF CountedOK
<1>3. 1 \in States
  BY DEF States
<1> QED BY <1>2, <1>3 DEF RefsOK, Detached

LEMMA DecrefDetached ==
  ASSUME NEW b, RefsOK(b), DOMAIN b = Fields, b.global # None, \E j \in States : b.search[j].refcount = 0,
         NEW c, c = search_state_decref(b, b.global)
  PROVE  /\ Detached(c) /\ (\E j \in States : c.search[j].refcount = 0) /\ Changes(b, c, {"search"})
<1>1. PICK g \in States : g = b.global
  BY DEF RefsOK
<1>2. b.search \in [States -> SearchState] /\ b.search[g] \in SearchState
  BY <1>1 DEF RefsOK
<1>3. DecrefFields(b, c, b.global)
  BY <1>1, <1>2, DecrefHasFields
<1>4. /\ c.search \in [States -> SearchState] /\ c.hnd = b.hnd
      /\ c.search[g].refcount = b.search[g].refcount - 1
      /\ \A j \in States : j # g => c.search[j] = b.search[j]
  BY <1>1, <1>3 DEF DecrefFields, Changes, Fields
<1>5. \A j \in States : Holders(c, j) = Holders(b, j)
  BY <1>4 DEF Holders
<1>6. ASSUME NEW j \in States PROVE c.search[j].refcount = Cardinality(Holders(c, j))
  <2>1. CountedOK(b, j) /\ Cardinality(Holders(b, j)) \in Nat
    BY HoldersFinite DEF RefsOK
  <2>2. CASE j = g
    BY <1>1, <1>4, <1>5, <2>1, <2>2 DEF CountedOK
  <2>3. CASE j # g
    BY <1>1, <1>4, <1>5, <2>1, <2>3 DEF CountedOK
  <2> QED BY <2>2, <2>3
<1>7. PICK j \in States : b.search[j].refcount = 0
  OBVIOUS
<1>8. j # g
  <2>1. CountedOK(b, g) /\ Cardinality(Holders(b, g)) \in Nat
    BY HoldersFinite DEF RefsOK
  <2> QED BY <1>1, <1>7, <2>1 DEF CountedOK
<1>9. c.search[j].refcount = 0
  BY <1>4, <1>7, <1>8
<1> QED BY <1>3, <1>4, <1>6, <1>9 DEF Detached, RefsOK, DecrefFields

LEMMA ClearDomainsGood ==
  ASSUME NEW b, Good(b, {}, {}, {}), \E j \in States : b.search[j].refcount = 0,
         NEW c, c = search_postfix_clear(b)
  PROVE  Good(c, {}, {}, {}) /\ SameView(b, c)
<1>1. DOMAIN b = Fields /\ RefsOK(b) /\ b.max_inflight \in 1 .. 5
  BY GoodCore
<1>2. PICK a : a = search_state_decref(b, b.global)
  OBVIOUS
<1>3. c = search_state_new(a)
  BY <1>2 DEF search_postfix_clear
<1>4. Detached(a) /\ (\E j \in States : a.search[j].refcount = 0) /\ Changes(b, a, {"search"})
  <2>1. CASE b.global = None
    <3>1. a = b
      BY <1>2, <2>1 DEF search_state_decref
    <3> QED BY <1>1, <2>1, <3>1, UnsharedDetached DEF Changes
  <2>2. CASE b.global # None
    BY <1>1, <1>2, <2>2, DecrefDetached
  <2> QED BY <2>1, <2>2
<1>5. RefsOK(c) /\ Changes(a, c, {"search", "global"})
  BY <1>3, <1>4, AddedRefs DEF Changes
<1>6. Reconfigures(b, c)
  BY <1>4, <1>5 DEF Reconfigures, Changes
<1>7. c.max_inflight = b.max_inflight
  BY <1>4, <1>5 DEF Changes, Fields
<1> QED BY <1>1, <1>5, <1>6, <1>7, ReconfiguredGood

Longer(s, d) == [s EXCEPT !.domains = <<d>> \o @]

LEMMA LongerFacts ==
  ASSUME NEW s \in SearchState, NEW d \in Domains, NEW t, t = Longer(s, d)
  PROVE  t \in SearchState /\ t.refcount = s.refcount
<1>1. PICK e : e = <<d>> \o s.domains
  OBVIOUS
<1>2. e \in Seq(Domains)
  <2>1. s.domains \in Seq(Domains) /\ <<d>> \in Seq(Domains)
    BY DEF SearchState
  <2> QED BY <1>1, <2>1
<1>3. t = [s EXCEPT !.domains = e]
  BY <1>1 DEF Longer
<1> QED BY <1>2, <1>3 DEF SearchState

LEMMA AddDomainGood ==
  ASSUME NEW b, Good(b, {}, {}, {}), NEW d \in Domains, NEW c, c = search_postfix_add(b, d)
  PROVE  Good(c, {}, {}, {}) /\ SameView(b, c)
<1>1. DOMAIN b = Fields /\ RefsOK(b) /\ b.max_inflight \in 1 .. 5
  BY GoodCore
<1>2. PICK a : a = IF b.global = None THEN search_state_new(b) ELSE b
  OBVIOUS
<1>3. c = [a EXCEPT !.search[a.global].domains = <<d>> \o @]
  BY <1>2 DEF search_postfix_add
<1>4. RefsOK(a) /\ Changes(b, a, {"search", "global"}) /\ a.global \in States
  <2>1. CASE b.global = None
    BY <1>1, <1>2, <2>1, UnsharedDetached, AddedRefs
  <2>2. CASE b.global # None
    BY <1>1, <1>2, <2>2 DEF RefsOK, Changes
  <2> QED BY <2>1, <2>2
<1>5. PICK k \in States : k = a.global
  BY <1>4
<1>6. DOMAIN a = Fields /\ a.search \in [States -> SearchState] /\ a.search[k] \in SearchState
  BY <1>4, <1>5 DEF Changes, RefsOK
<1>7. PICK t : t = Longer(a.search[k], d)
  OBVIOUS
<1>8. t \in SearchState /\ t.refcount = a.search[k].refcount
  BY <1>6, <1>7, LongerFacts
<1>9. Changes(a, c, {"search"})
  BY <1>3, <1>6 DEF Changes, Fields
<1>10. c.search = [a.search EXCEPT ![k] = t]
  BY <1>3, <1>5, <1>6, <1>7 DEF Fields, Longer
<1>11. c.hnd = a.hnd /\ c.global = a.global /\ c.max_inflight = b.max_inflight
  BY <1>4, <1>9 DEF Changes, Fields
<1>12. c.search \in [States -> SearchState] /\ \A j \in States : c.search[j].refcount = a.search[j].refcount
  BY <1>6, <1>8, <1>10
<1>13. RefsOK(c)
  BY <1>4, <1>11, <1>12 DEF RefsOK, CountedOK, Holders
<1>14. Reconfigures(b, c)
  BY <1>4, <1>9 DEF Reconfigures, Changes
<1> QED BY <1>1, <1>11, <1>13, <1>14, ReconfiguredGood

-----------------------------------------------------------------------------
(* A nameserver is added.                                                  *)

Inserted(X, s, n, t) ==
  /\ t \in Seq(X) /\ Distinct(t) /\ t # <<>>
  /\ \A m : Lists(t, m) <=> Lists(s, m) \/ m = n

LEMMA InsertFacts ==
  ASSUME NEW X, NEW s \in Seq(X), Distinct(s), NEW n \in X, ~Lists(s, n),
         NEW t, t = IF s = <<>> THEN <<n>> ELSE <<Head(s), n>> \o Tail(s)
  PROVE  Inserted(X, s, n, t)
<1>1. CASE s = <<>>
  <2>1. t = <<n>>
    BY <1>1
  <2>2. Len(t) = 1 /\ t[1] = n /\ t \in Seq(X)
    BY <2>1
  <2>3. \A m : ~Lists(s, m)
    BY <1>1 DEF Lists
  <2> QED BY <2>2, <2>3 DEF Inserted, Distinct, Lists
<1>2. CASE s # <<>>
  <2>1. PICK u : u = <<Head(s), n>>
    OBVIOUS
  <2>2. PICK v : v = Tail(s)
    OBVIOUS
  <2>3. u \in Seq(X) /\ Len(u) = 2 /\ u[1] = s[1] /\ u[2] = n
    BY <1>2, <2>1
  <2>4. v \in Seq(X) /\ Len(v) = Len(s) - 1 /\ Len(s) \in Nat \ {0}
        /\ \A i \in 1 .. Len(v) : i + 1 \in 2 .. Len(s) /\ v[i] = s[i + 1]
    BY <1>2, <2>2
  <2>5. t = u \o v
    BY <1>2, <2>1, <2>2
  <2>6. Joined(X, t, u, v)
    BY <2>3, <2>4, <2>5, JoinedFacts
  <2>7. t \in Seq(X) /\ Len(t) = Len(s) + 1 /\ t[1] = s[1] /\ t[2] = n
        /\ \A j \in 3 .. Len(t) : j - 1 \in 2 .. Len(s) /\ t[j] = s[j - 1]
    BY <2>3, <2>4, <2>6 DEF Joined
  <2>8. \A i \in 1 .. Len(s) : s[i] # n
    BY DEF Lists
  <2>9. \A i \in 2 .. Len(s) : i + 1 \in 3 .. Len(t) /\ t[i + 1] = s[i]
    BY <2>4, <2>7
  <2>10. ASSUME NEW i \in 1 .. Len(t), NEW j \in 1 .. Len(t), t[i] = t[j], i < j PROVE FALSE
    <3>1. \A k, l \in 1 .. Len(s) : s[k] = s[l] => k = l
      BY DEF Distinct
    <3>2. CASE j = 2
      <4>1. i = 1 /\ 1 \in 1 .. Len(s)
        BY <2>4, <2>10, <3>2
      <4> QED BY <2>7, <2>8, <2>10, <3>2, <4>1
    <3>3. CASE j # 2
      <4>1. j \in 3 .. Len(t) /\ j - 1 \in 2 .. Len(s) /\ t[j] = s[j - 1] /\ j - 1 \in 1 .. Len(s)
        BY <2>4, <2>7, <2>10, <3>3
      <4>2. CASE i = 1
        <5>1. t[i] = s[1] /\ 1 \in 1 .. Len(s) /\ j - 1 # 1
          BY <2>4, <2>7, <4>1, <4>2
        <5> QED BY <2>10, <3>1, <4>1, <5>1
      <4>3. CASE i = 2
        BY <2>7, <2>8, <2>10, <4>1, <4>3
      <4>4. CASE i # 1 /\ i # 2
        <5>1. i \in 3 .. Len(t) /\ i - 1 \in 1 .. Len(s) /\ t[i] = s[i - 1] /\ i - 1 # j - 1
          BY <2>4, <2>7, <2>10, <4>4
        <5> QED BY <2>10, <3>1, <4>1, <5>1
      <4> QED BY <4>2, <4>3, <4>4
    <3> QED BY <3>2, <3>3
  <2>11. Distinct(t)
    <3>1. \A i, j \in 1 .. Len(t) : i = j \/ i < j \/ j < i
      BY <2>7, <2>4
    <3> QED BY <2>10, <3>1 DEF Distinct
  <2>12. ASSUME NEW m, Lists(t, m) PROVE Lists(s, m) \/ m = n
    <3>1. PICK j \in 1 .. Len(t) : t[j] = m
      BY <2>12 DEF Lists
    <3>2. CASE j = 1
      <4>1. 1 \in 1 .. Len(s) /\ s[1] = m
        BY <2>4, <2>7, <3>1, <3>2
      <4> QED BY <4>1 DEF Lists
    <3>3. CASE j = 2
      BY <2>7, <3>1, <3>3
    <3>4. CASE j # 1 /\ j # 2
      <4>1. j \in 3 .. Len(t)
        BY <2>4, <2>7, <3>4
      <4>2. j - 1 \in 1 .. Len(s) /\ s[j - 1] = m
        BY <2>4, <2>7, <3>1, <4>1
      <4> QED BY <4>2 DEF Lists
    <3> QED BY <3>2, <3>3, <3>4
  <2>13. ASSUME NEW m, Lists(s, m) PROVE Lists(t, m)
    <3>1. PICK i \in 1 .. Len(s) : s[i] = m
      BY <2>13 DEF Lists
    <3>2. CASE i = 1
      <4>1. 1 \in 1 .. Len(t) /\ t[1] = m
        BY <2>4, <2>7, <3>1, <3>2
      <4> QED BY <4>1 DEF Lists
    <3>3. CASE i # 1
      <4>1. i \in 2 .. Len(s)
        BY <2>4, <3>3
      <4>2. i + 1 \in 1 .. Len(t) /\ t[i + 1] = m
        BY <2>7, <2>9, <3>1, <4>1
      <4> QED BY <4>2 DEF Lists
    <3> QED BY <3>2, <3>3
  <2>14. Lists(t, n)
    BY <2>4, <2>7 DEF Lists
  <2>15. t # <<>>
    BY <2>4, <2>7
  <2> QED BY <2>7, <2>11, <2>12, <2>13, <2>14, <2>15 DEF Inserted
<1> QED BY <1>1, <1>2

LEMMA NewServerFacts ==
  /\ NewServer \in Server /\ NewServer.state /\ ~NewServer.timeout /\ NewServer.probe = None
  /\ NewServer.requests_inflight = 0 /\ ~NewServer.choked /\ ~NewServer.write_waiting
<1>1. DisableWhenInactive \in BOOLEAN \/ DisableWhenInactive \notin BOOLEAN
  OBVIOUS
<1> QED BY DEF NewServer, Server

AddFields(b, c, n) ==
  /\ Changes(b, c, {"servers", "ns", "good"})
  /\ c.ns = [b.ns EXCEPT ![n] = NewServer] /\ c.good = b.good + 1
  /\ c.servers = (IF b.servers = <<>> THEN <<n>> ELSE <<Head(b.servers), n>> \o Tail(b.servers))

LEMMA AddHasFields ==
  ASSUME NEW b, DOMAIN b = Fields, NEW n, NEW c, c = evdns_nameserver_add(b, n)
  PROVE  AddFields(b, c, n)
<1>1. c = [b EXCEPT !.servers = IF @ = <<>> THEN <<n>> ELSE <<Head(@), n>> \o Tail(@),
                    !.ns[n] = NewServer, !.good = @ + 1]
  BY DEF evdns_nameserver_add
<1>2. Changes(b, c, {"servers", "ns", "good"})
  BY <1>1 DEF Changes, Fields
<1>3. c.ns = [b.ns EXCEPT ![n] = NewServer] /\ c.good = b.good + 1
  BY <1>1 DEF Fields
<1>4. c.servers = (IF b.servers = <<>> THEN <<n>> ELSE <<Head(b.servers), n>> \o Tail(b.servers))
  BY <1>1 DEF Fields
<1> QED BY <1>2, <1>3, <1>4 DEF AddFields

AddedServer(b, c, n) ==
  /\ DOMAIN c = Fields /\ c.inflight = b.inflight /\ c.waiting = b.waiting /\ c.ninflight = b.ninflight
  /\ c.nwaiting = b.nwaiting /\ c.max_inflight = b.max_inflight /\ c.hnd = b.hnd /\ c.req = b.req
  /\ c.search = b.search /\ c.global = b.global /\ c.deferred = b.deferred /\ c.told = b.told
  /\ c.asked = b.asked /\ c.suspended = b.suspended /\ c.draw = b.draw
  /\ Inserted(Servers, b.servers, n, c.servers)
  /\ c.ns \in [Servers -> Server] /\ c.ns[n] = NewServer /\ c.good = b.good + 1
  /\ \A m \in Servers : m # n => c.ns[m] = b.ns[m]

LEMMA ServerIsAdded ==
  ASSUME NEW b, Core(b, {}), NEW n \in Servers, ~Lists(b.servers, n),
         NEW c, c = evdns_nameserver_add(b, n)
  PROVE  AddedServer(b, c, n)
<1>1. DOMAIN b = Fields /\ b.ns \in [Servers -> Server] /\ b.servers \in Seq(Servers) /\ Distinct(b.servers)
  BY DEF Core, NetTyped, ListsOK
<1>2. AddFields(b, c, n)
  BY <1>1, AddHasFields
<1>3. Inserted(Servers, b.servers, n, c.servers)
  BY <1>1, <1>2, InsertFacts DEF AddFields
<1>4. /\ c.ns \in [Servers -> Server] /\ c.ns[n] = NewServer /\ c.good = b.good + 1
      /\ \A m \in Servers : m # n => c.ns[m] = b.ns[m]
  BY <1>1, <1>2, NewServerFacts DEF AddFields
<1>5. /\ DOMAIN c = Fields /\ c.inflight = b.inflight /\ c.waiting = b.waiting
      /\ c.ninflight = b.ninflight
      /\ c.nwaiting = b.nwaiting /\ c.max_inflight = b.max_inflight /\ c.hnd = b.hnd /\ c.req = b.req
      /\ c.search = b.search /\ c.global = b.global /\ c.deferred = b.deferred /\ c.told = b.told
      /\ c.asked = b.asked /\ c.suspended = b.suspended /\ c.draw = b.draw
  BY <1>2 DEF AddFields, Changes, Fields
<1> QED BY <1>3, <1>4, <1>5 DEF AddedServer

LEMMA AddedCore ==
  ASSUME NEW b, Core(b, {}), NEW n \in Servers, ~Lists(b.servers, n), NEW c, AddedServer(b, c, n)
  PROVE  Core(c, {})
<1>1. /\ DOMAIN c = Fields /\ c.inflight = b.inflight /\ c.waiting = b.waiting /\ c.ninflight = b.ninflight
      /\ c.nwaiting = b.nwaiting /\ c.hnd = b.hnd /\ c.req = b.req /\ c.draw = b.draw
      /\ c.servers \in Seq(Servers) /\ Distinct(c.servers)
      /\ \A m : Lists(c.servers, m) <=> Lists(b.servers, m) \/ m = n
      /\ c.ns \in [Servers -> Server] /\ c.ns[n] = NewServer /\ c.good = b.good + 1
      /\ \A m \in Servers : m # n => c.ns[m] = b.ns[m]
  BY DEF AddedServer, Inserted
<1>2. NetTyped(c) /\ c.hnd \in [Handles -> Handle]
  BY <1>1 DEF Core, NetTyped
<1>3. ListsOK(c, {})
  <2>1. \A x \in Handles : ListedOK(c, x, {})
    BY <1>1 DEF Core, ListsOK, ListedOK
  <2> QED BY <1>1, <2>1 DEF Core, ListsOK
<1>4. c.good = Cardinality(UpServers(c))
  <2>1. UpServers(c) = UpServers(b) \cup {n}
    BY <1>1, NewServerFacts DEF UpServers
  <2>2. n \notin UpServers(b)
    BY DEF UpServers
  <2>3. b.good = Cardinality(UpServers(b))
    BY DEF Core, CountsOK
  <2> QED BY <1>1, <2>1, <2>2, <2>3, UpFinite, OneMore
<1>5. ASSUME NEW m \in Servers, Lists(c.servers, m)
      PROVE  c.ns[m].requests_inflight = Cardinality(Load(c, m))
  <2>1. Load(c, m) = Load(b, m)
    BY <1>1 DEF Load
  <2>2. CASE m = n
    <3>1. ASSUME NEW x \in Handles, Lists(b.inflight, x), b.req[x].ns = n PROVE FALSE
      <4>1. b.req[x].ns # None /\ ListedOK(b, x, {})
        BY <3>1, NoneIsNot DEF Core, ListsOK
      <4> QED BY <3>1, <4>1 DEF ListedOK
    <3>2. Load(b, m) = {}
      BY <2>2, <3>1 DEF Load
    <3> QED BY <1>1, <2>1, <2>2, <3>2, NewServerFacts, FS_EmptySet
  <2>3. CASE m # n
    BY <1>1, <1>5, <2>1, <2>3 DEF Core, CountsOK
  <2> QED BY <2>2, <2>3
<1>6. IdsOK(c)
  BY <1>1 DEF Core, IdsOK, SearchedOn
<1> QED BY <1>2, <1>3, <1>4, <1>5, <1>6 DEF Core, CountsOK

LEMMA AddServerGood ==
  ASSUME NEW b, Good(b, {}, {}, {}), NEW n \in Servers, ~Lists(b.servers, n),
         NEW c, c = evdns_nameserver_add(b, n)
  PROVE  Good(c, {}, {}, {}) /\ SameView(b, c)
<1>1. Core(b, {}) /\ RefsOK(b) /\ Pend(b, {}) /\ Rest(b, {}, {}) /\ b.max_inflight \in 1 .. 5
      /\ b.servers \in Seq(Servers) /\ b.inflight \in Seq(Handles)
  BY GoodCore
<1>2. AddedServer(b, c, n)
  BY <1>1, ServerIsAdded
<1>3. Core(c, {})
  BY <1>1, <1>2, AddedCore
<1>4. /\ c.inflight = b.inflight /\ c.waiting = b.waiting /\ c.max_inflight = b.max_inflight
      /\ c.hnd = b.hnd /\ c.req = b.req /\ c.search = b.search /\ c.global = b.global
      /\ c.deferred = b.deferred /\ c.told = b.told /\ c.asked = b.asked /\ c.suspended = b.suspended
      /\ c.servers # <<>> /\ \A m : Lists(c.servers, m) <=> Lists(b.servers, m) \/ m = n
      /\ c.ns \in [Servers -> Server] /\ c.ns[n] = NewServer
      /\ \A m \in Servers : m # n => c.ns[m] = b.ns[m]
  BY <1>2 DEF AddedServer, Inserted
<1>5. RefsOK(c)
  BY <1>1, <1>4, RefsSame
<1>6. Pend(c, {})
  BY <1>1, <1>4 DEF Pend, HasResult
<1>7. Rest(c, {}, {})
  <2>1. ASSUME NEW m \in Servers, Lists(c.servers, m)
        PROVE  ProbeOfServer(c, m) /\ (c.ns[m].timeout => ~c.ns[m].state)
    <3>1. CASE m = n
      BY <1>4, <3>1, NewServerFacts DEF ProbeOfServer
    <3>2. CASE m # n
      BY <1>1, <1>4, <2>1, <3>2 DEF Rest, ProbeOfServer
    <3> QED BY <3>1, <3>2
  <2>2. ASSUME NEW x \in Probes, c.hnd[x].current_req PROVE ProbeIsOut(c, x)
    <3>1. ProbeIsOut(b, x)
      BY <1>1, <1>4, <2>2 DEF Rest
    <3>2. PICK m \in Servers : /\ b.hnd[x].ns = m /\ Lists(b.servers, m) /\ b.ns[m].probe = x
                               /\ ~b.ns[m].state /\ ~b.ns[m].timeout
      BY <3>1 DEF ProbeIsOut
    <3>3. m # n
      BY <3>2
    <3> QED BY <1>4, <3>2, <3>3 DEF ProbeIsOut
  <2>3. ASSUME NEW i \in 1 .. Len(c.deferred), NEW m \in Servers, c.deferred[i][2] = "CANCEL",
               Lists(c.servers, m)
        PROVE  c.ns[m].probe # c.deferred[i][1]
    <3>1. CASE m = n
      <4>1. c.deferred[i][1] \in Handles
        BY <1>1, <1>4 DEF Pend
      <4> QED BY <1>4, <3>1, <4>1, NewServerFacts, NoneIsNot
    <3>2. CASE m # n
      BY <1>1, <1>4, <2>3, <3>2 DEF Rest
    <3> QED BY <3>1, <3>2
  <2>4. /\ \A x \in Handles : ~Active(c.hnd[x]) => c.hnd[x] = NewHandle
        /\ \A x \in Users : /\ c.hnd[x].ns = None
                            /\ x \notin c.asked => ~Active(c.hnd[x]) /\ x \notin c.told
        /\ \A x, y \in Probes : c.hnd[x].ns = c.hnd[y].ns /\ c.hnd[x].ns # None => x = y
        /\ \A x \in Probes : Active(c.hnd[x]) => c.hnd[x].ns # None
    BY <1>1, <1>4 DEF Rest
  <2> QED BY <2>1, <2>2, <2>3, <2>4 DEF Rest
<1>8. FedOK(c)
  <2>1. CASE b.servers = <<>>
    BY <1>4, <2>1 DEF Good, FedOK
  <2>2. CASE b.servers # <<>>
    BY <1>4, <2>2 DEF Good, FedOK, SearchedOn
  <2> QED BY <2>1, <2>2
<1>9. ASSUME ~DisableWhenInactive PROVE Watched(c, {}) /\ DownOK(c, {}, {})
  <2>1. Watched(b, {}) /\ DownOK(b, {}, {})
    BY <1>9 DEF Good
  <2>2. \A m \in Servers : ServerWatched(c.ns[m])
    BY <1>4, <2>1, NewServerFacts DEF Watched, ServerWatched
  <2>3. SomeWaits(b) => SomeWaits(c)
    BY <1>4 DEF SomeWaits
  <2>4. Watched(c, {})
    BY <1>4, <2>1, <2>2, <2>3 DEF Watched
  <2>5. DownOK(c, {}, {})
    BY <1>4, <2>1, NewServerFacts DEF DownOK, ProbeBusy, LiveResult
  <2> QED BY <2>4, <2>5
<1>10. SameView(b, c)
  BY <1>4 DEF SameView
<1> QED BY <1>1, <1>3, <1>4, <1>5, <1>6, <1>7, <1>8, <1>9, <1>10 DEF Good, Sound

-----------------------------------------------------------------------------
(* The base goes on after it was suspended.                                *)

LEMMA ResumeGood ==
  ASSUME NEW b, Good(b, {}, {}, {}), NEW a, Changes(b, a, {"suspended"}),
         a.suspended <=> b.servers = <<>>, NEW send \in [Servers -> Sent],
         NEW c, c = evdns_requests_pump_waiting_queue(a, send)
  PROVE  Good(c, {}, {}, {}) /\ SameView(b, c)
<1>1. Core(b, {}) /\ RefsOK(b) /\ Pend(b, {}) /\ Rest(b, {}, {}) /\ b.max_inflight \in 1 .. 5
      /\ b.servers \in Seq(Servers) /\ b.hnd \in [Handles -> Handle]
  BY GoodCore
<1>2. /\ a.inflight = b.inflight /\ a.waiting = b.waiting /\ a.max_inflight = b.max_inflight
      /\ a.hnd = b.hnd /\ a.req = b.req /\ a.search = b.search /\ a.global = b.global
      /\ a.deferred = b.deferred /\ a.told = b.told /\ a.asked = b.asked
      /\ a.servers = b.servers /\ a.ns = b.ns /\ DOMAIN a = Fields
  BY DEF Changes, Fields
<1>3. Core(a, {})
  <2>1. HandlesChange(b, a, {}, {})
    BY <1>1, <1>2 DEF HandlesChange, SearchedOn, Changes, HandleFields
  <2> QED BY <1>1, <2>1, HandlesKeepCore
<1>4. Sound(a, {}, {})
  <2>1. RefsOK(a)
    BY <1>1, <1>2, RefsSame
  <2>2. Pend(a, {})
    BY <1>1, <1>2 DEF Pend, HasResult
  <2>3. Rest(a, {}, {})
    BY <1>1, <1>2 DEF Rest, ProbeOfServer, ProbeIsOut
  <2> QED BY <1>1, <1>2, <1>3, <2>1, <2>2, <2>3 DEF Sound
<1>5. ASSUME ~DisableWhenInactive PROVE Watched(a, {}) /\ DownOK(a, {}, {})
  BY <1>2, <1>5 DEF Good, Watched, SomeWaits, DownOK, ProbeBusy, LiveResult
<1>6. Pumping(a, c, {}) /\ Fed(c)
  BY <1>1, <1>2, <1>3, PumpFacts
<1>7. Core(c, {}) /\ ServersEased(a, c) /\ Same(a, c, ClientFields)
  BY <1>6, CalmEased DEF Pumping
<1>8. Sound(c, {}, {})
  BY <1>4, <1>7, EasedSound
<1>9. c.hnd = a.hnd /\ c.deferred = a.deferred /\ c.suspended = a.suspended
  BY <1>7 DEF Same, ClientFields
<1>10. c.servers = <<>> => c.suspended
  <2>1. c.servers = <<>> <=> a.servers = <<>>
    BY <1>2, <1>1, <1>7, SameServers DEF ServersEased, Core, NetTyped
  <2> QED BY <1>2, <1>9, <2>1
<1>11. ASSUME ~DisableWhenInactive PROVE Watched(c, {}) /\ DownOK(c, {}, {})
  BY <1>5, <1>6, <1>7, <1>9, <1>11, EasedDown DEF Pumping
<1>12. FedOK(c)
  BY <1>6, FedGivesOK
<1>13. SameView(b, c)
  <2>1. c.told = a.told
    BY <1>7 DEF Same, ClientFields
  <2> QED BY <1>2, <1>9, <2>1 DEF SameView
<1> QED BY <1>8, <1>10, <1>11, <1>12, <1>13 DEF Good

LEMMA ResumeStep ==
  ASSUME InUse(base), evdns_base_resume
  PROVE  InUse(base') /\ SameView(base, base')
<1>1. PICK send \in Sends, d \in Draws :
        Becomes(evdns_requests_pump_waiting_queue(
                   [Drawn(d) EXCEPT !.suspended = base.servers = <<>>], send))
  BY DEF evdns_base_resume
<1>2. PICK b : b = Drawn(d)
  OBVIOUS
<1>3. Good(b, {}, {}, {}) /\ Trifling(base, b) /\ SameView(base, b)
  BY <1>2, DrawnGood DEF Drawn, InUse
<1>4. PICK e \in BOOLEAN : e <=> base.servers = <<>>
  OBVIOUS
<1>5. PICK a : a = [b EXCEPT !.suspended = base.servers = <<>>]
  OBVIOUS
<1>6. DOMAIN b = Fields /\ b.servers = base.servers
  BY <1>3, GoodCore, TriflingFields
<1>7. Changes(b, a, {"suspended"})
  BY <1>5, <1>6 DEF Changes, Fields
<1>8. a.suspended <=> b.servers = <<>>
  BY <1>5, <1>6 DEF Fields
<1>9. PICK c : c = evdns_requests_pump_waiting_queue(a, send)
  OBVIOUS
<1>10. send \in [Servers -> Sent]
  BY DEF Sends, Sent
<1>11. Good(c, {}, {}, {}) /\ SameView(b, c)
  BY <1>3, <1>7, <1>8, <1>9, <1>10, ResumeGood
<1>12. Becomes(c)
  BY <1>1, <1>2, <1>5, <1>9
<1>13. SameView(c, base')
  BY <1>11, <1>12, GoodCore, BecomesView
<1>14. SameView(base, c)
  BY <1>3, <1>11, ViewTwice
<1> QED BY <1>11, <1>12, <1>13, <1>14, BecomesGood, ViewTwice

-----------------------------------------------------------------------------
(* The servers are cleared and the base is suspended.                      *)

Dimmed(k) == [k EXCEPT !.event = FALSE, !.timeout = FALSE]

LEMMA DimmedFacts ==
  ASSUME NEW k \in Server, NEW m, m = Dimmed(k)
  PROVE  /\ m \in Server /\ ~m.timeout /\ (m.state <=> k.state) /\ m.probe = k.probe
         /\ m.requests_inflight = k.requests_inflight
<1>1. m = [k EXCEPT !.event = FALSE, !.timeout = FALSE]
  BY DEF Dimmed
<1> QED BY <1>1 DEF Server

Dims(b, a, n) == Sound(a, {}, {n}) /\ TunedFields(b, a, n, Dimmed(b.ns[n])) /\ Tunes(b, a, n, Dimmed(b.ns[n]))

LEMMA DimSound ==
  ASSUME NEW b, Sound(b, {}, {}), NEW n \in Servers,
         NEW a, a = [b EXCEPT !.ns[n].event = FALSE, !.ns[n].timeout = FALSE]
  PROVE  Dims(b, a, n)
<1>1. Core(b, {}) /\ DOMAIN b = Fields /\ b.ns \in [Servers -> Server] /\ b.ns[n] \in Server
      /\ b.draw \in Seq(Ids) /\ b.draw # <<>>
  BY DEF Sound, Core, NetTyped
<1>2. PICK k : k = Dimmed(b.ns[n])
  OBVIOUS
<1>3. /\ k \in Server /\ ~k.timeout /\ (k.state <=> b.ns[n].state) /\ k.probe = b.ns[n].probe
      /\ k.requests_inflight = b.ns[n].requests_inflight
  BY <1>1, <1>2, DimmedFacts
<1>4. a.ns = [b.ns EXCEPT ![n] = k]
  BY <1>1, <1>2 DEF Fields, Dimmed
<1>5. Changes(b, a, Trifles \cup {"ns"}) /\ a.draw = b.draw
  BY <1>1 DEF Changes, Trifles, Fields
<1>6. Tunes(b, a, n, k)
  BY <1>1, <1>3, <1>4, <1>5, SetsServerTunes DEF SetsServer
<1>7. ASSUME NEW y \in Probes, b.hnd[y].current_req, y \notin {}, b.hnd[y].ns = n
      PROVE  k.probe = y /\ ~k.state /\ ~k.timeout
  BY <1>3, <1>7, ProbeOutFor
<1>8. TunesRight(b, n, k, {}, {}, {n})
  BY <1>3, <1>7 DEF TunesRight
<1>9. Sound(a, {}, {n})
  BY <1>6, <1>8, TunedSound
<1> QED BY <1>1, <1>2, <1>6, <1>9, TunedHasFields DEF Dims

ClearedOne(b, c, n) ==
  /\ Sound(c, {}, {}) /\ c.ns[n].probe = None /\ Follows(b, c)
  /\ \A m \in Servers : (Lists(c.servers, m) <=> Lists(b.servers, m))
                        /\ (b.ns[m].probe = None => c.ns[m].probe = None)

\* The probe of the server is cancelled.
ProbeDropped(a, d, n) ==
  /\ Sound(d, {}, {n}) /\ Follows(a, d)
  /\ \A m \in Servers : (Lists(d.servers, m) <=> Lists(a.servers, m)) /\ d.ns[m].probe = a.ns[m].probe
  /\ \A y \in Probes : ~(d.hnd[y].current_req /\ d.hnd[y].ns = n)

LEMMA DropProbe ==
  ASSUME NEW a, NEW n \in Servers, Sound(a, {}, {n}), Lists(a.servers, n), NEW p, p = a.ns[n].probe,
         NEW send \in [Servers -> Sent],
         NEW d, d = IF p = None THEN a ELSE evdns_cancel_request(a, p, send)
  PROVE  ProbeDropped(a, d, n)
<1>1. Rest(a, {}, {n}) /\ a.ns \in [Servers -> Server] /\ n # None
  BY NoneIsNot DEF Sound, Core, NetTyped
<1>2. \A y \in Probes : a.hnd[y].current_req /\ a.hnd[y].ns = n => p = y
  BY ProbeOutFor
<1>3. CASE p = None
  <2>1. d = a
    BY <1>3
  <2>2. Follows(a, d)
    BY <2>1, FollowsSame DEF Sound
  <2> QED BY <1>2, <1>3, <2>1, <2>2, NoneIsNot DEF ProbeDropped
<1>4. CASE p # None
  <2>1. p \in Probes /\ p \in Handles /\ p \notin {}
    BY <1>1, <1>4, HandleKinds DEF Server
  <2>2. a.hnd[p].ns = n
    BY <1>1, <1>4 DEF Rest, ProbeOfServer
  <2>3. MayEnd(a, p, "CANCEL", {n})
    BY <2>2 DEF MayEnd
  <2>4. d = evdns_cancel_request(a, p, send)
    BY <1>4
  <2>5. Sound(d, {}, {n}) /\ Cancelled(a, d, p)
    BY <2>1, <2>3, <2>4, CancelSound
  <2>6. \A m \in Servers : (Lists(d.servers, m) <=> Lists(a.servers, m)) /\ d.ns[m].probe = a.ns[m].probe
    BY <2>5 DEF Cancelled, ServersEased, Eased
  <2>7. ASSUME NEW y \in Probes, d.hnd[y].current_req, d.hnd[y].ns = n PROVE FALSE
    <3>1. y # p
      BY <2>5, <2>7 DEF Cancelled
    <3>2. d.hnd[y] = a.hnd[y]
      BY <2>5, <3>1, HandleKinds DEF Cancelled
    <3> QED BY <1>2, <2>7, <3>1, <3>2
  <2>8. Follows(a, d)
    BY <2>5 DEF Cancelled
  <2> QED BY <2>5, <2>6, <2>7, <2>8 DEF ProbeDropped
<1> QED BY <1>3, <1>4

LEMMA ClearOneSound ==
  ASSUME NEW b, Sound(b, {}, {}), NEW n \in Servers, Lists(b.servers, n),
         NEW send \in [Servers -> Sent], NEW c, c = ClearOne(b, n, send)
  PROVE  ClearedOne(b, c, n)
<1>1. DOMAIN b = Fields /\ b.ns \in [Servers -> Server] /\ b.ns[n] \in Server
  BY DEF Sound, Core, NetTyped
<1>2. PICK a : a = [b EXCEPT !.ns[n].event = FALSE, !.ns[n].timeout = FALSE]
  OBVIOUS
<1>3. PICK p : p = a.ns[n].probe
  OBVIOUS
<1>4. PICK d : d = IF p = None THEN a ELSE evdns_cancel_request(a, p, send)
  OBVIOUS
<1>5. Dims(b, a, n)
  BY <1>2, DimSound
<1>6. /\ Sound(a, {}, {n}) /\ a.servers = b.servers /\ a.ns[n] = Dimmed(b.ns[n])
      /\ \A m \in Servers : m # n => a.ns[m] = b.ns[m]
  BY <1>5 DEF Dims, TunedFields
<1>7. \A m \in Servers : a.ns[m].probe = b.ns[m].probe
  BY <1>1, <1>6, DimmedFacts
<1>8. p = b.ns[n].probe
  BY <1>3, <1>7
<1>9. c = [d EXCEPT !.ns[n].probe = None, !.halfFreed = TRUE]
  BY <1>2, <1>4, <1>8 DEF ClearOne
<1>10. ProbeDropped(a, d, n)
  BY <1>3, <1>4, <1>6, DropProbe
<1>11. Sound(d, {}, {n}) /\ Lists(d.servers, n) /\ Core(d, {}) /\ DOMAIN d = Fields /\ Rest(d, {}, {n})
       /\ d.ns \in [Servers -> Server] /\ d.ns[n] \in Server /\ d.draw \in Seq(Ids) /\ d.draw # <<>>
  BY <1>6, <1>10 DEF ProbeDropped, Sound, Core, NetTyped
<1>12. PICK k : k = Forgot(d.ns[n])
  OBVIOUS
<1>13. /\ k \in Server /\ (k.state <=> d.ns[n].state) /\ k.probe = None
       /\ (k.timeout <=> d.ns[n].timeout) /\ k.requests_inflight = d.ns[n].requests_inflight
  BY <1>11, <1>12, ForgotFacts
<1>14. c.ns = [d.ns EXCEPT ![n] = k]
  BY <1>9, <1>11, <1>12 DEF Fields, Forgot
<1>15. Changes(d, c, Trifles \cup {"ns"}) /\ c.draw = d.draw
  BY <1>9, <1>11 DEF Changes, Trifles, Fields
<1>16. Tunes(d, c, n, k)
  BY <1>11, <1>13, <1>14, <1>15, SetsServerTunes DEF SetsServer
<1>17. TunesRight(d, n, k, {}, {n}, {})
  <2>1. k.timeout => ~k.state
    BY <1>11, <1>13 DEF Rest
  <2> QED BY <1>10, <1>13, <2>1 DEF TunesRight, ProbeDropped
<1>18. Sound(c, {}, {})
  BY <1>11, <1>16, <1>17, TunedSound
<1>19. TunedFields(d, c, n, k)
  BY <1>11, <1>16, TunedHasFields
<1>20. \A m \in Servers : (Lists(c.servers, m) <=> Lists(b.servers, m))
                          /\ (b.ns[m].probe = None => c.ns[m].probe = None)
  BY <1>6, <1>7, <1>10, <1>13, <1>19 DEF TunedFields, ProbeDropped
<1>21. c.ns[n].probe = None
  BY <1>13, <1>19 DEF TunedFields
<1>22. Follows(b, c)
  <2>1. SameView(b, a)
    BY <1>5 DEF Dims, TunedFields, SameView
  <2>2. Follows(a, d)
    BY <1>10 DEF ProbeDropped
  <2>3. SameView(d, c)
    BY <1>19 DEF TunedFields, SameView
  <2>4. Follows(b, d)
    BY <2>1, <2>2, ViewFollows
  <2> QED BY <2>3, <2>4, FollowsView
<1> QED BY <1>18, <1>20, <1>21, <1>22 DEF ClearedOne

LEMMA ClearedSteps ==
  ASSUME NEW b, NEW send, Len(b.servers) \in Nat
  PROVE  /\ Cleared(b, send)[0] = b
         /\ \A i \in 1 .. Len(b.servers) :
               Cleared(b, send)[i] = ClearOne(Cleared(b, send)[i - 1], b.servers[i], send)
<1> DEFINE Is(m, g) == g = [i \in 0 .. m |-> IF i = 0 THEN b ELSE ClearOne(g[i - 1], b.servers[i], send)]
           W == {m \in Nat : \E g : Is(m, g)}
<1>1. ASSUME NEW m \in Nat, \A j \in 0 .. (m - 1) : j \in W PROVE m \in W
  <2>1. CASE m = 0
    <3>1. [i \in 0 .. 0 |-> b] = [i \in 0 .. 0 |-> IF i = 0 THEN b
              ELSE ClearOne([i_1 \in 0 .. 0 |-> b][i - 1], b.servers[i], send)]
      OBVIOUS
    <3>2. Is(m, [i \in 0 .. 0 |-> b])
      BY <2>1, <3>1
    <3> QED BY <3>2
  <2>2. CASE m > 0
    <3>1. m - 1 \in W
      BY <1>1, <2>2
    <3>2. PICK g : Is(m - 1, g)
      BY <3>1
    <3> DEFINE h == [i \in 0 .. m |-> IF i < m THEN g[i] ELSE ClearOne(g[m - 1], b.servers[m], send)]
    <3>3. ASSUME NEW i \in 0 .. m
          PROVE  h[i] = IF i = 0 THEN b ELSE ClearOne(h[i - 1], b.servers[i], send)
      <4>1. CASE i = 0
        BY <2>2, <3>2, <4>1
      <4>2. CASE i > 0 /\ i < m
        <5>1. i \in 0 .. (m - 1) /\ i - 1 \in 0 .. m /\ i - 1 < m /\ i # 0
          BY <4>2
        <5>2. h[i] = g[i] /\ h[i - 1] = g[i - 1]
          BY <4>2, <5>1
        <5>3. g[i] = ClearOne(g[i - 1], b.servers[i], send)
          BY <3>2, <5>1
        <5> QED BY <5>1, <5>2, <5>3
      <4>3. CASE i = m
        <5>1. h[i - 1] = g[m - 1] /\ h[i] = ClearOne(g[m - 1], b.servers[m], send)
          BY <2>2, <4>3
        <5> QED BY <5>1, <2>2, <4>3
      <4> QED BY <4>1, <4>2, <4>3
    <3>4. h = [i \in 0 .. m |-> IF i = 0 THEN b ELSE ClearOne(h[i - 1], b.servers[i], send)]
      <4>1. h = [i \in 0 .. m |-> h[i]]
        OBVIOUS
      <4> HIDE DEF h
      <4> QED BY <3>3, <4>1
    <3> HIDE DEF h
    <3>5. Is(m, h)
      BY <3>4
    <3> HIDE DEF Is
    <3> QED BY <3>5
  <2> QED BY <2>1, <2>2
<1>2. Nat \subseteq W
  <2> HIDE DEF W
  <2> QED BY <1>1, StrongInduction
<1>3. \E g : Is(Len(b.servers), g)
  <2> HIDE DEF Is
  <2> QED BY <1>2
<1>4. Is(Len(b.servers), Cleared(b, send))
  BY <1>3, Zenon DEF Cleared
<1> HIDE DEF W
<1>5. 0 \in 0 .. Len(b.servers) /\ Cleared(b, send)[0] = b
  BY <1>4
<1>6. ASSUME NEW i \in 1 .. Len(b.servers)
      PROVE  Cleared(b, send)[i] = ClearOne(Cleared(b, send)[i - 1], b.servers[i], send)
  <2>1. i \in 0 .. Len(b.servers) /\ i # 0
    OBVIOUS
  <2> QED BY <1>4, <2>1
<1> QED BY <1>5, <1>6


NoProbes(b, c, i) ==
  /\ Follows(b, c) /\ Sound(c, {}, {}) /\ \A m \in Servers : Lists(c.servers, m) <=> Lists(b.servers, m)
  /\ \A j \in 1 .. i : c.ns[b.servers[j]].probe = None

\* No probe is left when all servers are cleared.
LEMMA ClearServersSound ==
  ASSUME NEW b, Sound(b, {}, {}), NEW send \in [Servers -> Sent], NEW c, c = ClearServers(b, send)
  PROVE  Sound(c, {}, {}) /\ Follows(b, c) /\ \A x \in Probes : ~c.hnd[x].current_req
<1> DEFINE k == Len(b.servers)
           R(i) == Cleared(b, send)[i]
           W == {i \in Nat : i <= k => NoProbes(b, R(i), i)}
<1>1. k \in Nat /\ b.servers \in Seq(Servers)
  BY DEF Sound, Core, NetTyped
<1>2. R(0) = b /\ \A i \in 1 .. k : R(i) = ClearOne(R(i - 1), b.servers[i], send)
  BY <1>1, ClearedSteps
<1>3. \A i \in 1 .. k : b.servers[i] \in Servers /\ Lists(b.servers, b.servers[i])
  BY <1>1 DEF Lists
<1>4. \A m : Lists(b.servers, m) <=> \E i \in 1 .. k : b.servers[i] = m
  BY DEF Lists
<1>5. c = R(k)
  BY DEF ClearServers
<1> HIDE DEF k, R
<1>6. ASSUME NEW i \in Nat, \A j \in 0 .. (i - 1) : j \in W PROVE i \in W
  <2>1. CASE i = 0
    <3>2. Follows(b, b)
      BY FollowsSame DEF Sound
    <3>1. NoProbes(b, R(i), i)
      BY <1>2, <2>1, <3>2 DEF NoProbes
    <3> QED BY <3>1
  <2>2. CASE i > 0 /\ i <= k
    <3>1. i - 1 \in Nat /\ i - 1 <= k /\ i - 1 \in W /\ i \in 1 .. k
      BY <1>1, <1>6, <2>2
    <3>2. PICK d : d = R(i - 1)
      OBVIOUS
    <3>3. PICK n : n = b.servers[i]
      OBVIOUS
    <3>4. PICK e : e = R(i)
      OBVIOUS
    <3>5. NoProbes(b, d, i - 1)
      BY <3>1, <3>2
    <3>6. n \in Servers /\ Lists(d.servers, n)
      BY <1>3, <3>1, <3>3, <3>5 DEF NoProbes
    <3>7. e = ClearOne(d, n, send)
      BY <1>2, <3>1, <3>2, <3>3, <3>4
    <3>8. ClearedOne(d, e, n)
      BY <3>5, <3>6, <3>7, ClearOneSound DEF NoProbes
    <3>9. ASSUME NEW j \in 1 .. i PROVE e.ns[b.servers[j]].probe = None
      <4>1. CASE j = i
        BY <3>3, <3>8, <4>1 DEF ClearedOne
      <4>2. CASE j # i
        <5>1. j \in 1 .. i - 1 /\ j \in 1 .. k
          BY <1>1, <3>1, <4>2
        <5> QED BY <1>3, <3>5, <3>8, <5>1 DEF ClearedOne, NoProbes
      <4> QED BY <4>1, <4>2
    <3>11. Follows(b, e)
      <4>1. Follows(b, d) /\ Follows(d, e)
        BY <3>5, <3>8 DEF NoProbes, ClearedOne
      <4> QED BY <4>1, FollowsTwice
    <3>10. NoProbes(b, e, i)
      BY <3>5, <3>8, <3>9, <3>11 DEF NoProbes, ClearedOne
    <3> QED BY <3>4, <3>10
  <2>3. CASE i > k
    BY <1>1, <2>3
  <2> QED BY <1>1, <2>1, <2>2, <2>3
<1>7. k \in W
  <2> HIDE DEF W
  <2> QED BY <1>1, <1>6, StrongInduction
<1>8. NoProbes(b, c, k)
  BY <1>1, <1>5, <1>7
<1>9. ASSUME NEW x \in Probes, c.hnd[x].current_req PROVE FALSE
  <2>1. Rest(c, {}, {})
    BY <1>8 DEF NoProbes, Sound
  <2>2. ProbeIsOut(c, x)
    BY <1>9, <2>1 DEF Rest
  <2>3. PICK n \in Servers : Lists(c.servers, n) /\ c.ns[n].probe = x
    BY <2>2 DEF ProbeIsOut
  <2>4. PICK i \in 1 .. k : b.servers[i] = n
    BY <1>4, <1>8, <2>3 DEF NoProbes
  <2>5. c.ns[n].probe = None
    BY <1>8, <2>4 DEF NoProbes
  <2> QED BY <2>3, <2>5, NoneIsNot
<1> QED BY <1>8, <1>9 DEF NoProbes


-----------------------------------------------------------------------------
\* The requests in flight in reverse order, and then those that waited.
Back(X, s, w, t) ==
  /\ t \in Seq(X) /\ Distinct(t) /\ Len(t) = Len(s) + Len(w)
  /\ \A x : Lists(t, x) <=> Lists(s, x) \/ Lists(w, x)

LEMMA ReversedFacts ==
  ASSUME NEW X, NEW s \in Seq(X), Distinct(s), NEW t, t = Reversed(s)
  PROVE  /\ t \in Seq(X) /\ Distinct(t) /\ Len(t) = Len(s)
         /\ \A x : Lists(t, x) <=> Lists(s, x)
<1>1. PICK k : k = Len(s)
  OBVIOUS
<1>2. k \in Nat /\ DOMAIN s = 1 .. k /\ \A i \in 1 .. k : k + 1 - i \in 1 .. k /\ s[i] \in X
  BY <1>1
<1>3. t = [i \in 1 .. k |-> s[k + 1 - i]]
  BY <1>1, <1>2 DEF Reversed
<1>4. t \in Seq(X) /\ Len(t) = k
  BY <1>2, <1>3
<1>5. Distinct(t)
  <2>1. ASSUME NEW i \in 1 .. k, NEW j \in 1 .. k, t[i] = t[j] PROVE i = j
    <3>1. k + 1 - i \in 1 .. k /\ k + 1 - j \in 1 .. k
      BY <1>2
    <3>2. s[k + 1 - i] = s[k + 1 - j]
      BY <1>3, <2>1
    <3>3. k + 1 - i = k + 1 - j
      BY <1>1, <3>1, <3>2 DEF Distinct
    <3> QED BY <1>2, <3>3
  <2> QED BY <1>4, <2>1 DEF Distinct
<1>6. ASSUME NEW x, Lists(s, x) PROVE Lists(t, x)
  <2>1. PICK i \in 1 .. k : s[i] = x
    BY <1>1, <1>6 DEF Lists
  <2>2. k + 1 - i \in 1 .. k /\ k + 1 - (k + 1 - i) = i
    BY <1>2
  <2>3. t[k + 1 - i] = x
    BY <1>3, <2>1, <2>2
  <2> QED BY <1>4, <2>2, <2>3 DEF Lists
<1>7. ASSUME NEW x, Lists(t, x) PROVE Lists(s, x)
  <2>1. PICK i \in 1 .. k : t[i] = x
    BY <1>4, <1>7 DEF Lists
  <2>2. k + 1 - i \in 1 .. k /\ s[k + 1 - i] = x
    BY <1>2, <1>3, <2>1
  <2> QED BY <1>1, <2>2 DEF Lists
<1> QED BY <1>1, <1>4, <1>5, <1>6, <1>7

LEMMA BackFacts ==
  ASSUME NEW X, NEW s \in Seq(X), Distinct(s), NEW w \in Seq(X), Distinct(w),
         \A x : ~(Lists(s, x) /\ Lists(w, x))
  PROVE  Back(X, s, w, Reversed(s) \o w)
<1>1. PICK r : r = Reversed(s)
  OBVIOUS
<1>2. r \in Seq(X) /\ Distinct(r) /\ Len(r) = Len(s) /\ \A x : Lists(r, x) <=> Lists(s, x)
  BY <1>1, ReversedFacts
<1>3. PICK t : t = r \o w
  OBVIOUS
<1>4. Joined(X, t, r, w)
  BY <1>2, <1>3, JoinedFacts
<1>5. Len(r) \in Nat /\ Len(w) \in Nat /\ Len(t) = Len(r) + Len(w) /\ t \in Seq(X)
  BY <1>2, <1>4 DEF Joined
<1>6. \A j \in 1 .. Len(t) : j \in 1 .. Len(r) \/ (j - Len(r) \in 1 .. Len(w) /\ j > Len(r))
  BY <1>5
<1>7. /\ \A j \in 1 .. Len(t) : j \in 1 .. Len(r) => t[j] = r[j]
      /\ \A j \in 1 .. Len(t) : j > Len(r) => t[j] = w[j - Len(r)]
  BY <1>4, <1>5 DEF Joined
<1>8. /\ \A j \in 1 .. Len(r) : j \in 1 .. Len(t)
      /\ \A j \in 1 .. Len(w) : j + Len(r) \in 1 .. Len(t) /\ j + Len(r) > Len(r)
                                /\ (j + Len(r)) - Len(r) = j
  BY <1>5
<1>9. \A x : Lists(t, x) <=> Lists(r, x) \/ Lists(w, x)
  <2>1. ASSUME NEW x, Lists(t, x) PROVE Lists(r, x) \/ Lists(w, x)
    <3>1. PICK j \in 1 .. Len(t) : t[j] = x
      BY <2>1 DEF Lists
    <3> QED BY <1>6, <1>7, <3>1 DEF Lists
  <2>2. ASSUME NEW x, Lists(r, x) PROVE Lists(t, x)
    <3>1. PICK j \in 1 .. Len(r) : r[j] = x
      BY <2>2 DEF Lists
    <3> QED BY <1>7, <1>8, <3>1 DEF Lists
  <2>3. ASSUME NEW x, Lists(w, x) PROVE Lists(t, x)
    <3>1. PICK j \in 1 .. Len(w) : w[j] = x
      BY <2>3 DEF Lists
    <3>2. t[j + Len(r)] = x /\ j + Len(r) \in 1 .. Len(t)
      BY <1>7, <1>8, <3>1
    <3> QED BY <3>2 DEF Lists
  <2> QED BY <2>1, <2>2, <2>3
<1>10. ASSUME NEW i \in 1 .. Len(t), NEW j \in 1 .. Len(t), t[i] = t[j] PROVE i = j
  <2>1. CASE i \in 1 .. Len(r) /\ j \in 1 .. Len(r)
    BY <1>2, <1>7, <1>10, <2>1 DEF Distinct
  <2>2. CASE i > Len(r) /\ j > Len(r)
    <3>1. i - Len(r) \in 1 .. Len(w) /\ j - Len(r) \in 1 .. Len(w)
      BY <1>5, <2>2
    <3>2. w[i - Len(r)] = w[j - Len(r)]
      BY <1>7, <1>10, <2>2
    <3>3. i - Len(r) = j - Len(r)
      BY <3>1, <3>2 DEF Distinct
    <3> QED BY <1>5, <3>3
  <2>3. ASSUME NEW k \in 1 .. Len(t), NEW l \in 1 .. Len(t), k \in 1 .. Len(r), l > Len(r), t[k] = t[l]
        PROVE  FALSE
    <3>1. l - Len(r) \in 1 .. Len(w) /\ t[l] = w[l - Len(r)] /\ t[k] = r[k]
      BY <1>5, <1>7, <2>3
    <3>2. Lists(r, r[k]) /\ Lists(w, w[l - Len(r)])
      BY <2>3, <3>1 DEF Lists
    <3> QED BY <1>2, <2>3, <3>1, <3>2
  <2> QED BY <1>6, <1>10, <2>1, <2>2, <2>3
<1>11. Distinct(t)
  BY <1>10 DEF Distinct
<1> QED BY <1>1, <1>2, <1>3, <1>5, <1>9, <1>11 DEF Back

Parked(name) == [NoRequest EXCEPT !.name = name, !.trans_id = 0]

LEMMA ParkedFacts ==
  ASSUME NEW name \in Names, NEW r, r = Parked(name)
  PROVE  r \in Request /\ r.ns = None /\ ~r.timeout
<1>1. NIds \in Nat /\ 0 \in 0 .. NIds
  BY LimitAssumption
<1>2. NoRequest \in Request /\ NoRequest.ns = None /\ ~NoRequest.timeout
  BY NoRequestFacts
<1>3. r = [NoRequest EXCEPT !.name = name, !.trans_id = 0]
  BY DEF Parked
<1> QED BY <1>1, <1>2, <1>3 DEF Request

SuspendFields(b, c) ==
  /\ DOMAIN c = Fields /\ c.servers = <<>> /\ c.good = 0 /\ c.ninflight = 0 /\ c.inflight = <<>>
  /\ c.suspended /\ c.ns = [n \in Servers |-> NewServer]
  /\ c.waiting = Reversed(b.inflight) \o b.waiting /\ c.nwaiting = b.nwaiting + Len(b.inflight)
  /\ c.req = [x \in Handles |-> IF x \in Members(b.inflight) THEN Parked(b.req[x].name) ELSE b.req[x]]
  /\ c.hnd = b.hnd /\ c.search = b.search /\ c.global = b.global /\ c.deferred = b.deferred
  /\ c.told = b.told /\ c.asked = b.asked /\ c.draw = b.draw /\ c.max_inflight = b.max_inflight

LEMMA SuspendHasFields ==
  ASSUME NEW b, DOMAIN b = Fields, NEW c, c = Suspend(b)
  PROVE  SuspendFields(b, c)
<1>1. DOMAIN c = Fields /\ c.servers = <<>> /\ c.good = 0 /\ c.ninflight = 0 /\ c.inflight = <<>>
      /\ c.suspended /\ c.ns = [n \in Servers |-> NewServer]
  BY DEF Suspend, Fields
<1>2. c.waiting = Reversed(b.inflight) \o b.waiting /\ c.nwaiting = b.nwaiting + Len(b.inflight)
  BY DEF Suspend, Fields
<1>3. c.req = [x \in Handles |-> IF x \in Members(b.inflight) THEN Parked(b.req[x].name) ELSE b.req[x]]
  BY DEF Suspend, Fields, Parked
<1>4. c.hnd = b.hnd /\ c.search = b.search /\ c.global = b.global /\ c.deferred = b.deferred
      /\ c.told = b.told /\ c.asked = b.asked /\ c.draw = b.draw /\ c.max_inflight = b.max_inflight
  BY DEF Suspend, Fields
<1> QED BY <1>1, <1>2, <1>3, <1>4 DEF SuspendFields

LEMMA SuspendCore ==
  ASSUME NEW b, Core(b, {}), NEW c, SuspendFields(b, c)
  PROVE  Core(c, {})
<1>1. /\ DOMAIN b = Fields /\ b.inflight \in Seq(Handles) /\ b.waiting \in Seq(Handles)
      /\ b.req \in [Handles -> Request] /\ b.hnd \in [Handles -> Handle]
      /\ b.draw \in Seq(Ids) /\ b.draw # <<>>
      /\ Distinct(b.inflight) /\ Distinct(b.waiting) /\ b.nwaiting = Len(b.waiting)
      /\ \A x \in Handles : ListedOK(b, x, {})
  BY DEF Core, NetTyped, ListsOK
<1>2. Back(Handles, b.inflight, b.waiting, c.waiting)
  <2>1. \A x : ~(Lists(b.inflight, x) /\ Lists(b.waiting, x))
    BY <1>1, MembersFacts DEF ListedOK
  <2> QED BY <1>1, <2>1, BackFacts DEF SuspendFields
<1>3. c.ns \in [Servers -> Server]
  BY NewServerFacts DEF SuspendFields
<1>4. \A x : x \in Members(b.inflight) <=> Lists(b.inflight, x)
  BY <1>1, MembersFacts
<1>5. ASSUME NEW x \in Handles
      PROVE  c.req[x] \in Request /\ c.req[x].ns = None /\ ~c.req[x].timeout
  <2>1. CASE Lists(b.inflight, x)
    <3>1. c.req[x] = Parked(b.req[x].name)
      BY <1>4, <2>1 DEF SuspendFields
    <3>2. b.req[x].name \in Names
      BY <1>1 DEF Request
    <3> QED BY <3>1, <3>2, ParkedFacts
  <2>2. CASE ~Lists(b.inflight, x)
    <3>1. c.req[x] = b.req[x]
      BY <1>4, <2>2 DEF SuspendFields
    <3>2. b.req[x].ns = None /\ ~b.req[x].timeout
      BY <1>1, <2>2 DEF ListedOK
    <3> QED BY <1>1, <3>1, <3>2
  <2> QED BY <2>1, <2>2
<1>6. c.req \in [Handles -> Request]
  BY <1>5 DEF SuspendFields
<1>7. \A m : ~Lists(c.servers, m) /\ ~Lists(c.inflight, m)
  BY DEF SuspendFields, Lists
<1>8. NetTyped(c)
  BY <1>1, <1>2, <1>3, <1>6 DEF NetTyped, SuspendFields, Back
<1>9. ListsOK(c, {})
  <2>1. ASSUME NEW x \in Handles PROVE ListedOK(c, x, {})
    <3>1. Lists(c.waiting, x) <=> b.hnd[x].current_req
      BY <1>1, <1>2 DEF Back, ListedOK
    <3> QED BY <1>5, <1>7, <3>1 DEF ListedOK, SuspendFields
  <2>2. Distinct(c.servers) /\ Distinct(c.inflight) /\ c.ninflight = Len(c.inflight)
    BY DEF SuspendFields, Distinct
  <2>3. Distinct(c.waiting) /\ c.nwaiting = Len(c.waiting)
    <3>1. PICK p : p = Len(b.inflight)
      OBVIOUS
    <3>2. PICK q : q = Len(b.waiting)
      OBVIOUS
    <3>3. p \in Nat /\ q \in Nat
      BY <1>1, <3>1, <3>2
    <3>4. Len(c.waiting) = p + q /\ Distinct(c.waiting)
      BY <1>2, <3>1, <3>2 DEF Back
    <3>5. c.nwaiting = q + p
      BY <1>1, <3>1, <3>2 DEF SuspendFields
    <3> QED BY <3>3, <3>4, <3>5
  <2> QED BY <2>1, <2>2, <2>3 DEF ListsOK
<1>10. CountsOK(c)
  <2>1. UpServers(c) = {}
    BY <1>7 DEF UpServers
  <2> QED BY <1>7, <2>1, FS_EmptySet DEF CountsOK, SuspendFields
<1>11. IdsOK(c)
  BY <1>7 DEF IdsOK
<1> QED BY <1>1, <1>8, <1>9, <1>10, <1>11 DEF Core, SuspendFields

LEMMA SuspendGood ==
  ASSUME NEW b, Sound(b, {}, {}), \A x \in Probes : ~b.hnd[x].current_req,
         NEW c, c = Suspend(b)
  PROVE  Good(c, {}, {}, {}) /\ SameView(b, c)
<1>1. Core(b, {}) /\ RefsOK(b) /\ Pend(b, {}) /\ Rest(b, {}, {}) /\ b.max_inflight \in 1 .. 5
      /\ DOMAIN b = Fields
  BY DEF Sound, Core, NetTyped
<1>2. SuspendFields(b, c)
  BY <1>1, SuspendHasFields
<1>3. Core(c, {})
  BY <1>1, <1>2, SuspendCore
<1>4. /\ c.servers = <<>> /\ c.inflight = <<>> /\ c.suspended
      /\ c.hnd = b.hnd /\ c.search = b.search /\ c.global = b.global /\ c.deferred = b.deferred
      /\ c.told = b.told /\ c.asked = b.asked /\ c.max_inflight = b.max_inflight
      /\ \A n \in Servers : c.ns[n] = NewServer
      /\ \A m : ~Lists(c.servers, m) /\ ~Lists(c.inflight, m)
  BY <1>2 DEF SuspendFields, Lists
<1>5. RefsOK(c)
  BY <1>1, <1>4, RefsSame
<1>6. Pend(c, {})
  BY <1>1, <1>4 DEF Pend, HasResult
<1>7. Rest(c, {}, {})
  BY <1>1, <1>4 DEF Rest
<1>8. FedOK(c)
  BY <1>4 DEF FedOK
<1>9. Watched(c, {})
  BY <1>4, NewServerFacts DEF Watched, ServerWatched
<1>10. DownOK(c, {}, {})
  BY <1>4 DEF DownOK
<1>11. SameView(b, c)
  BY <1>4 DEF SameView
<1> QED BY <1>1, <1>3, <1>4, <1>5, <1>6, <1>7, <1>8, <1>9, <1>10, <1>11 DEF Good, Sound

LEMMA ClearGood ==
  ASSUME NEW b, Good(b, {}, {}, {}), NEW send \in [Servers -> Sent],
         NEW c, c = evdns_base_clear_nameservers_and_suspend(b, send)
  PROVE  Good(c, {}, {}, {}) /\ Follows(b, c)
<1>1. CASE b.servers = <<>>
  <2>1. c = b
    BY <1>1 DEF evdns_base_clear_nameservers_and_suspend
  <2> QED BY <2>1, GoodCore, FollowsSame
<1>2. CASE b.servers # <<>>
  <2>1. PICK d : d = ClearServers(b, send)
    OBVIOUS
  <2>2. c = Suspend(d)
    BY <1>2, <2>1 DEF evdns_base_clear_nameservers_and_suspend
  <2>3. Sound(b, {}, {})
    BY DEF Good
  <2>4. Sound(d, {}, {}) /\ Follows(b, d) /\ \A x \in Probes : ~d.hnd[x].current_req
    BY <2>1, <2>3, ClearServersSound
  <2>5. Good(c, {}, {}, {}) /\ SameView(d, c)
    BY <2>2, <2>4, SuspendGood
  <2> QED BY <2>4, <2>5, FollowsView
<1> QED BY <1>1, <1>2

-----------------------------------------------------------------------------
(* The base is freed.                                                      *)

Winding(b, c) == Bare(c, {}) /\ c.max_inflight \in 1 .. 5 /\ Unfinished(c) = Unfinished(b) - 1

\* The users learn that the base is freed, if the program asks for it.
AbortTells(b, c, fail) ==
  /\ fail => Follows(b, c)
  /\ ~fail => c.deferred = b.deferred /\ c.told = b.told

LEMMA UnfinishedIsNat ==
  ASSUME NEW b, b.waiting \in Seq(Handles), b.inflight \in Seq(Handles)
  PROVE  /\ Unfinished(b) \in Nat
         /\ Unfinished(b) = 0 => b.waiting = <<>> /\ b.inflight = <<>>
         /\ Unfinished(b) # 0 => b.waiting # <<>> \/ b.inflight # <<>>
<1>1. PICK p : p = Len(b.waiting)
  OBVIOUS
<1>2. PICK q : q = Len(b.inflight)
  OBVIOUS
<1>3. /\ p \in Nat /\ q \in Nat /\ Unfinished(b) = p + q
      /\ p = 0 <=> b.waiting = <<>>
      /\ q = 0 <=> b.inflight = <<>>
  BY <1>1, <1>2 DEF Unfinished
<1> QED BY <1>3

LEMMA AbortWinds ==
  ASSUME NEW b, Bare(b, {}), b.max_inflight \in 1 .. 5, Unfinished(b) # 0,
         NEW send \in [Servers -> Sent], NEW fail \in BOOLEAN, NEW c, c = Abort(b, fail, send)
  PROVE  Winding(b, c) /\ AbortTells(b, c, fail)
<1>1. /\ DOMAIN b = Fields /\ b.hnd \in [Handles -> Handle]
      /\ b.waiting \in Seq(Handles) /\ b.inflight \in Seq(Handles)
  BY DEF Bare, Core, NetTyped
<1>2. PICK x : x = IF b.waiting # <<>> THEN Head(b.waiting) ELSE Head(b.inflight)
  OBVIOUS
<1>3. x \in Handles /\ (Lists(b.waiting, x) \/ Lists(b.inflight, x))
  BY <1>1, <1>2, UnfinishedIsNat, MembersFacts
<1>4. b.hnd[x].current_req
  BY <1>3 DEF Bare, Core, ListsOK, ListedOK
<1>5. ~b.hnd[x].pending_cb
  BY <1>3, <1>4 DEF Bare, Pend
<1>6. PICK d : d = IF fail THEN reply_schedule_callback(b, x, "SHUTDOWN") ELSE b
  OBVIOUS
<1>7. c = request_finished(d, x, send)
  BY <1>2, <1>6 DEF Abort
<1>8. \E V \in {{}, {x}} : Bare(d, V)
  <2>1. CASE fail
    <3>1. d = reply_schedule_callback(b, x, "SHUTDOWN") /\ "SHUTDOWN" \in Errors
      BY <1>6, <2>1 DEF Errors
    <3>2. Bare(d, {} \cup {x})
      BY <1>3, <1>4, <1>5, <3>1, ScheduleBare
    <3> QED BY <3>2
  <2>2. CASE ~fail
    BY <1>6, <2>2
  <2> QED BY <2>1, <2>2
<1>9. /\ d.hnd[x].current_req /\ d.waiting = b.waiting /\ d.inflight = b.inflight
      /\ d.max_inflight = b.max_inflight
  <2>1. CASE fail
    <3>1. Scheduled(b, d, x, "SHUTDOWN")
      BY <1>1, <1>3, <1>6, <2>1, ScheduleFields
    <3>2. ScheduledFacts(b, d, x, "SHUTDOWN")
      BY <1>1, <1>3, <3>1, ScheduledGives
    <3> QED BY <1>3, <1>4, <3>2 DEF ScheduledFacts, Fields
  <2>2. CASE ~fail
    BY <1>4, <1>6, <2>2
  <2> QED BY <2>1, <2>2
<1>10. Unfinished(d) = Unfinished(b)
  BY <1>9 DEF Unfinished
<1>11. PICK V \in {{}, {x}} : Bare(d, V)
  BY <1>8
<1>12. Finished(d, c, x)
  BY <1>3, <1>7, <1>9, <1>11, RequestFinished DEF Bare
<1>13. /\ Core(c, {}) /\ RefsOK(c) /\ Unfinished(c) = Unfinished(d) - 1
       /\ Same(d, c, OtherFields) /\ c.hnd = [d.hnd EXCEPT ![x] = Idled(d.hnd[x])]
  BY <1>12 DEF Finished
<1>14. c.max_inflight = d.max_inflight /\ c.deferred = d.deferred /\ c.told = d.told
  BY <1>13 DEF Same, OtherFields, ClientFields
<1>15. HandleIdles(d, c, x)
  BY <1>3, <1>11, <1>13, HandleIsIdle DEF Bare, Core
<1>16. Pend(c, V \ {x})
  BY <1>3, <1>11, <1>14, <1>15, FinishPend DEF Bare
<1>17. V \ {x} = {}
  BY <1>11
<1>18. Pend(c, {})
  BY <1>16, <1>17
<1>19. ASSUME fail PROVE AbortTells(b, c, fail)
  <2>1. d = reply_schedule_callback(b, x, "SHUTDOWN") /\ "SHUTDOWN" \in Errors
    BY <1>6, <1>19 DEF Errors
  <2>2. Scheduled(b, d, x, "SHUTDOWN")
    BY <1>1, <1>3, <2>1, ScheduleFields
  <2>3. ScheduledFacts(b, d, x, "SHUTDOWN")
    BY <1>1, <1>3, <2>2, ScheduledGives
  <2>4. Follows(b, d) /\ HasResult(d, x)
    BY <1>1, <1>3, <1>4, <2>1, <2>3, FollowsSchedule DEF Bare
  <2>5. d.hnd \in [Handles -> Handle] /\ Pend(d, V)
    BY <1>11 DEF Bare, Core
  <2>6. Follows(d, c)
    BY <1>3, <1>12, <2>4, <2>5, FollowsFinish
  <2>7. Follows(b, c)
    BY <2>4, <2>6, FollowsTwice
  <2> QED BY <1>19, <2>7 DEF AbortTells
<1>20. ASSUME ~fail PROVE AbortTells(b, c, fail)
  BY <1>6, <1>14, <1>20 DEF AbortTells
<1> QED BY <1>9, <1>10, <1>13, <1>14, <1>18, <1>19, <1>20 DEF Winding, Bare

LEMMA AbortedSteps ==
  ASSUME NEW b, NEW fail, NEW send, Unfinished(b) \in Nat
  PROVE  /\ Aborted(b, fail, send)[0] = b
         /\ \A i \in 1 .. Unfinished(b) :
               Aborted(b, fail, send)[i] = Abort(Aborted(b, fail, send)[i - 1], fail, send)
<1> DEFINE Is(m, g) == g = [i \in 0 .. m |-> IF i = 0 THEN b ELSE Abort(g[i - 1], fail, send)]
           W == {m \in Nat : \E g : Is(m, g)}
<1>1. ASSUME NEW m \in Nat, \A j \in 0 .. (m - 1) : j \in W PROVE m \in W
  <2>1. CASE m = 0
    <3>1. [i \in 0 .. 0 |-> b] = [i \in 0 .. 0 |-> IF i = 0 THEN b
              ELSE Abort([i_1 \in 0 .. 0 |-> b][i - 1], fail, send)]
      OBVIOUS
    <3>2. Is(m, [i \in 0 .. 0 |-> b])
      BY <2>1, <3>1
    <3> QED BY <3>2
  <2>2. CASE m > 0
    <3>1. m - 1 \in W
      <4>1. m - 1 \in 0 .. (m - 1)
        BY <2>2
      <4> HIDE DEF W
      <4> QED BY <1>1, <4>1
    <3>2. PICK g : Is(m - 1, g)
      BY <3>1
    <3> DEFINE h == [i \in 0 .. m |-> IF i < m THEN g[i] ELSE Abort(g[m - 1], fail, send)]
    <3>3. ASSUME NEW i \in 0 .. m
          PROVE  h[i] = IF i = 0 THEN b ELSE Abort(h[i - 1], fail, send)
      <4>1. CASE i = 0
        BY <2>2, <3>2, <4>1
      <4>2. CASE i > 0 /\ i < m
        <5>1. i \in 0 .. (m - 1) /\ i - 1 \in 0 .. m /\ i - 1 < m /\ i # 0
          BY <4>2
        <5>2. h[i] = g[i] /\ h[i - 1] = g[i - 1]
          BY <4>2, <5>1
        <5>3. g[i] = Abort(g[i - 1], fail, send)
          BY <3>2, <5>1
        <5> QED BY <5>1, <5>2, <5>3
      <4>3. CASE i = m
        <5>1. h[i - 1] = g[m - 1] /\ h[i] = Abort(g[m - 1], fail, send)
          BY <2>2, <4>3
        <5> QED BY <5>1, <2>2, <4>3
      <4> QED BY <4>1, <4>2, <4>3
    <3>4. h = [i \in 0 .. m |-> IF i = 0 THEN b ELSE Abort(h[i - 1], fail, send)]
      <4>1. h = [i \in 0 .. m |-> h[i]]
        OBVIOUS
      <4> HIDE DEF h
      <4> QED BY <3>3, <4>1
    <3> HIDE DEF h
    <3>5. Is(m, h)
      BY <3>4
    <3> HIDE DEF Is
    <3> QED BY <3>5
  <2> QED BY <2>1, <2>2
<1>2. Nat \subseteq W
  <2> HIDE DEF W
  <2> QED BY <1>1, StrongInduction
<1>3. \E g : Is(Unfinished(b), g)
  <2> HIDE DEF Is
  <2> QED BY <1>2
<1>4. Is(Unfinished(b), Aborted(b, fail, send))
  BY <1>3, Zenon DEF Aborted
<1> HIDE DEF W
<1>5. 0 \in 0 .. Unfinished(b) /\ Aborted(b, fail, send)[0] = b
  BY <1>4
<1>6. ASSUME NEW i \in 1 .. Unfinished(b)
      PROVE  Aborted(b, fail, send)[i] = Abort(Aborted(b, fail, send)[i - 1], fail, send)
  <2>1. i \in 0 .. Unfinished(b) /\ i # 0
    OBVIOUS
  <2> QED BY <1>4, <2>1
<1> QED BY <1>5, <1>6

WoundDown(b, c, i, fail) ==
  AbortTells(b, c, fail) /\ Bare(c, {}) /\ c.max_inflight \in 1 .. 5 /\ Unfinished(c) = Unfinished(b) - i

LEMMA AbortAllBare ==
  ASSUME NEW b, Bare(b, {}), b.max_inflight \in 1 .. 5, NEW send \in [Servers -> Sent],
         NEW fail \in BOOLEAN, NEW c, c = AbortAll(b, fail, send)
  PROVE  AbortTells(b, c, fail) /\ Bare(c, {}) /\ c.waiting = <<>> /\ c.inflight = <<>>
<1> DEFINE k == Unfinished(b)
           R(i) == Aborted(b, fail, send)[i]
           W == {i \in Nat : i <= k => WoundDown(b, R(i), i, fail)}
<1>1. k \in Nat
  BY UnfinishedIsNat DEF Bare, Core, NetTyped
<1>2. R(0) = b /\ \A i \in 1 .. k : R(i) = Abort(R(i - 1), fail, send)
  BY <1>1, AbortedSteps
<1>3. c = R(k)
  BY DEF AbortAll
<1>4. Unfinished(b) = k
  OBVIOUS
<1> HIDE DEF k, R
<1>5. ASSUME NEW i \in Nat, \A j \in 0 .. (i - 1) : j \in W PROVE i \in W
  <2>1. CASE i = 0
    <3>2. AbortTells(b, b, fail)
      BY FollowsSame DEF AbortTells, Bare
    <3>1. WoundDown(b, R(i), i, fail)
      BY <1>1, <1>2, <1>4, <2>1, <3>2 DEF WoundDown
    <3> QED BY <3>1
  <2>2. CASE i > 0 /\ i <= k
    <3>1. i - 1 \in Nat /\ i - 1 <= k /\ i - 1 \in W /\ i \in 1 .. k /\ k - (i - 1) # 0
          /\ (k - (i - 1)) - 1 = k - i
      BY <1>1, <1>5, <2>2
    <3>2. PICK d : d = R(i - 1)
      OBVIOUS
    <3>3. PICK e : e = R(i)
      OBVIOUS
    <3>4. WoundDown(b, d, i - 1, fail)
      BY <3>1, <3>2
    <3>5. Unfinished(d) = k - (i - 1) /\ Unfinished(d) # 0
      BY <1>4, <3>1, <3>4 DEF WoundDown
    <3>6. e = Abort(d, fail, send)
      BY <1>2, <3>1, <3>2, <3>3
    <3>7. Winding(d, e) /\ AbortTells(d, e, fail)
      BY <3>4, <3>5, <3>6, AbortWinds DEF WoundDown
    <3>9. AbortTells(b, e, fail)
      <4>1. AbortTells(b, d, fail)
        BY <3>4 DEF WoundDown
      <4>2. CASE fail
        <5>1. Follows(b, d) /\ Follows(d, e)
          BY <3>7, <4>1, <4>2 DEF AbortTells
        <5> QED BY <4>2, <5>1, FollowsTwice DEF AbortTells
      <4>3. CASE ~fail
        BY <3>7, <4>1, <4>3 DEF AbortTells
      <4> QED BY <4>2, <4>3
    <3>8. WoundDown(b, e, i, fail)
      BY <1>4, <3>1, <3>5, <3>7, <3>9 DEF WoundDown, Winding
    <3> QED BY <3>3, <3>8
  <2>3. CASE i > k
    BY <1>1, <2>3
  <2> QED BY <1>1, <2>1, <2>2, <2>3
<1>6. k \in W
  <2> HIDE DEF W
  <2> QED BY <1>1, <1>5, StrongInduction
<1>7. WoundDown(b, c, k, fail)
  BY <1>1, <1>3, <1>6
<1>8. AbortTells(b, c, fail) /\ Bare(c, {}) /\ Unfinished(c) = 0
  BY <1>1, <1>4, <1>7 DEF WoundDown
<1> QED BY <1>8, UnfinishedIsNat DEF Bare, Core, NetTyped

FreeFields(b, c) ==
  /\ DOMAIN c = Fields /\ c.servers = <<>> /\ c.good = 0 /\ c.global = None /\ c.freed
  /\ c.ns = [n \in Servers |-> NewServer] /\ c.search = [k \in States |-> NoSearchState]
  /\ c.inflight = b.inflight /\ c.waiting = b.waiting /\ c.ninflight = b.ninflight
  /\ c.nwaiting = b.nwaiting /\ c.hnd = b.hnd /\ c.req = b.req /\ c.deferred = b.deferred
  /\ c.told = b.told /\ c.draw = b.draw

LEMMA FreeGone ==
  ASSUME NEW b, Bare(b, {}), b.max_inflight \in 1 .. 5, NEW send \in [Servers -> Sent],
         NEW fail \in BOOLEAN, NEW c, c = evdns_base_free(b, fail, send)
  PROVE  Gone(c) /\ c.freed /\ (Follows(b, c) \/ Abandons(b, c))
<1>1. PICK d : d = AbortAll(b, fail, send)
  OBVIOUS
<1>2. AbortTells(b, d, fail) /\ Bare(d, {}) /\ d.waiting = <<>> /\ d.inflight = <<>>
  BY <1>1, AbortAllBare
<1>3. /\ DOMAIN d = Fields /\ d.req \in [Handles -> Request] /\ d.hnd \in [Handles -> Handle]
      /\ d.draw \in Seq(Ids) /\ d.draw # <<>> /\ ListsOK(d, {}) /\ RefsOK(d) /\ Pend(d, {})
  BY <1>2 DEF Bare, Core, NetTyped
<1>4. c = [d EXCEPT !.servers = <<>>, !.good = 0, !.global = None, !.net = {},
                    !.ns = [n \in Servers |-> NewServer],
                    !.search = [k \in States |-> NoSearchState], !.freed = TRUE]
  BY <1>1 DEF evdns_base_free
<1>5. FreeFields(d, c)
  BY <1>3, <1>4 DEF FreeFields, Fields
<1>13. /\ c.hnd = d.hnd /\ c.deferred = d.deferred /\ c.told = d.told /\ c.global = None
       /\ \A k \in States : c.search[k] = NoSearchState
  BY <1>5 DEF FreeFields
<1>6. \A m : ~Lists(d.inflight, m) /\ ~Lists(d.waiting, m) /\ ~Lists(c.servers, m)
  BY <1>2, <1>5 DEF Lists, FreeFields
<1>7. \A x \in Handles : ~d.hnd[x].current_req /\ d.req[x].ns = None /\ ~d.req[x].timeout
  BY <1>3, <1>6 DEF ListsOK, ListedOK
<1>8. c.ns \in [Servers -> Server] /\ \A n \in Servers : c.ns[n] = NewServer
  BY <1>5, NewServerFacts DEF FreeFields
<1>9. Core(c, {})
  <2>1. NetTyped(c) /\ c.hnd \in [Handles -> Handle]
    BY <1>2, <1>3, <1>5, <1>8 DEF NetTyped, FreeFields
  <2>2. ListsOK(c, {})
    <3>1. \A x \in Handles : ListedOK(c, x, {})
      BY <1>5, <1>6, <1>7 DEF ListedOK, FreeFields
    <3>2. Distinct(c.servers)
      BY <1>5 DEF Distinct, FreeFields
    <3> QED BY <1>3, <1>5, <3>1, <3>2 DEF ListsOK, FreeFields
  <2>3. CountsOK(c)
    <3>1. UpServers(c) = {}
      BY <1>6 DEF UpServers
    <3> QED BY <1>5, <1>6, <3>1, FS_EmptySet DEF CountsOK, FreeFields
  <2>4. IdsOK(c)
    BY <1>5, <1>6 DEF IdsOK, FreeFields
  <2> QED BY <2>1, <2>2, <2>3, <2>4 DEF Core
<1>10. RefsOK(c)
  <2>1. \A x \in Handles : d.hnd[x].search_state = None
    BY <1>3, <1>7 DEF RefsOK
  <2>2. None \notin States
    BY NoneIsNot
  <2>3. \A k \in States : Holders(c, k) = {}
    BY <1>5, <2>1, <2>2 DEF Holders, FreeFields
  <2>4. NoSearchState \in SearchState /\ NoSearchState.refcount = 0
    BY DEF NoSearchState, SearchState
  <2>5. c.search \in [States -> SearchState] /\ \A k \in States : c.search[k].refcount = 0
    BY <1>5, <2>4 DEF FreeFields
  <2>6. ASSUME NEW k \in States PROVE CountedOK(c, k)
    <3>1. Cardinality(Holders(c, k)) = 0
      BY <2>3, FS_EmptySet
    <3>2. c.global # k /\ c.search[k].refcount = 0
      BY <1>13, <2>2, <2>5
    <3> QED BY <3>1, <3>2 DEF CountedOK
  <2> QED BY <1>3, <1>5, <2>1, <2>5, <2>6 DEF RefsOK, FreeFields
<1>11. Pend(c, {})
  BY <1>3, <1>13 DEF Pend, HasResult
<1>12. \A n \in Servers : ServerWatched(c.ns[n])
  BY <1>8, NewServerFacts DEF ServerWatched
<1>14. Follows(b, c) \/ Abandons(b, c)
  <2>1. SameView(d, c)
    BY <1>13 DEF SameView
  <2>2. CASE fail
    BY <1>2, <2>1, <2>2, FollowsView DEF AbortTells
  <2>3. CASE ~fail
    BY <1>2, <1>7, <1>13, <2>3, HandleKinds DEF AbortTells, Abandons
  <2> QED BY <2>2, <2>3
<1> QED BY <1>5, <1>7, <1>9, <1>10, <1>11, <1>12, <1>14 DEF Gone, FreeFields


-----------------------------------------------------------------------------
(* Every step keeps the invariant.                                         *)

LEMMA UseFollows ==
  ASSUME InUse(base'), Follows(base, base')
  PROVE  IInv' /\ PromiseStep(base, base')
<1>1. Tidy(base')
  BY GoodCore, TidyWhenPend DEF InUse
<1> QED BY <1>1 DEF IInv, InUse, PromiseStep

LEMMA UseFollowsOf ==
  ASSUME NEW b, SameView(base, b), NEW c, Follows(b, c), Good(c, {}, {}, {}), Becomes(c)
  PROVE  IInv' /\ PromiseStep(base, base')
<1>1. Follows(b, base')
  BY GoodCore, BecomesView, FollowsView
<1>2. Follows(base, base')
  BY <1>1, ViewFollows
<1> QED BY <1>2, BecomesGood, UseFollows

LEMMA UseViewOf ==
  ASSUME NEW b, SameView(base, b), NEW c, SameView(b, c), Good(c, {}, {}, {}), Becomes(c)
  PROVE  IInv' /\ PromiseStep(base, base')
<1>1. SameView(b, base')
  BY GoodCore, BecomesView, ViewTwice
<1>2. SameView(base, base')
  BY <1>1, ViewTwice
<1> QED BY <1>2, BecomesInUse DEF PromiseStep

LEMMA GonePromised ==
  ASSUME NEW b, SameView(base, b), NEW c, Gone(c), c.freed, Follows(b, c) \/ Abandons(b, c), Becomes(c)
  PROVE  IInv' /\ PromiseStep(base, base')
<1>1. DOMAIN c = Fields /\ Pend(c, {})
  BY DEF Gone, Core, NetTyped
<1>2. SameView(c, base')
  BY <1>1, BecomesView
<1>3. IInv'
  BY BecomesGone
<1>4. CASE Follows(b, c)
  <2>1. Follows(base, base')
    BY <1>2, <1>4, FollowsView, ViewFollows
  <2>2. Tidy(c)
    BY <1>1, TidyWhenPend
  <2>3. Tidy(base')
    BY <1>2, <2>2 DEF SameView, Tidy, HasResult
  <2> QED BY <1>3, <2>1, <2>3 DEF PromiseStep
<1>5. CASE Abandons(b, c)
  <2>1. Abandons(base, base')
    BY <1>2, <1>5 DEF Abandons, SameView
  <2> QED BY <1>3, <2>1 DEF PromiseStep
<1> QED BY <1>4, <1>5

LEMMA ConfigureStep ==
  ASSUME InUse(base), Configure
  PROVE  IInv' /\ PromiseStep(base, base')
<1>1. PICK send \in Sends, d \in Draws :
         LET b == [Drawn(d) EXCEPT !.config = @ - 1]
         IN \/ Becomes(evdns_base_clear_nameservers_and_suspend(b, send))
            \/ \E n \in Servers \ Members(base.servers) : Becomes(evdns_nameserver_add(b, n))
            \/ \E dom \in Domains : Becomes(search_postfix_add(b, dom))
            \/ /\ \E k \in States : base.search[k].refcount = 0
               /\ Becomes(search_postfix_clear(b))
            \/ \E fail \in BOOLEAN : Becomes(evdns_base_free(b, fail, send))
            \/ \E m \in Limits : Becomes([b EXCEPT !.max_inflight = m])
  BY DEF Configure
<1>2. PICK b : b = [Drawn(d) EXCEPT !.config = @ - 1]
  OBVIOUS
<1>3. \/ Becomes(evdns_base_clear_nameservers_and_suspend(b, send))
      \/ \E n \in Servers \ Members(base.servers) : Becomes(evdns_nameserver_add(b, n))
      \/ \E dom \in Domains : Becomes(search_postfix_add(b, dom))
      \/ /\ \E k \in States : base.search[k].refcount = 0
         /\ Becomes(search_postfix_clear(b))
      \/ \E fail \in BOOLEAN : Becomes(evdns_base_free(b, fail, send))
      \/ \E m \in Limits : Becomes([b EXCEPT !.max_inflight = m])
  BY <1>1, <1>2
<1>4. send \in [Servers -> Sent]
  BY DEF Sends, Sent
<1>5. PICK a : a = Drawn(d)
  OBVIOUS
<1>6. Good(a, {}, {}, {}) /\ Trifling(base, a) /\ SameView(base, a)
  BY <1>5, DrawnGood DEF Drawn, InUse
<1>7. DOMAIN a = Fields /\ a.servers = base.servers /\ a.search = base.search
      /\ a.draw \in Seq(Ids) /\ a.draw # <<>>
  BY <1>6, TriflingFields DEF Trifling
<1>8. Trifling(a, b)
  <2>1. b = [a EXCEPT !.config = @ - 1]
    BY <1>2, <1>5
  <2>2. Changes(a, b, Trifles) /\ b.draw = a.draw
    BY <1>7, <2>1 DEF Changes, Trifles, Fields
  <2> QED BY <1>7, <2>2 DEF Trifling
<1>9. Good(b, {}, {}, {}) /\ b.servers = base.servers /\ b.search = base.search
  BY <1>6, <1>7, <1>8, TriflingGood, TriflingFields
<1>16. SameView(base, b)
  BY <1>6, <1>8, TriflingView, ViewTwice
<1>10. CASE Becomes(evdns_base_clear_nameservers_and_suspend(b, send))
  <2>1. PICK c : c = evdns_base_clear_nameservers_and_suspend(b, send)
    OBVIOUS
  <2>2. Good(c, {}, {}, {}) /\ Follows(b, c)
    BY <1>4, <1>9, <2>1, ClearGood
  <2> QED BY <1>10, <1>16, <2>1, <2>2, UseFollowsOf
<1>11. ASSUME NEW n \in Servers \ Members(base.servers), Becomes(evdns_nameserver_add(b, n))
       PROVE  IInv' /\ PromiseStep(base, base')
  <2>1. ~Lists(b.servers, n)
    BY <1>9, <1>11, GoodCore, MembersFacts
  <2>2. PICK c : c = evdns_nameserver_add(b, n)
    OBVIOUS
  <2>3. Good(c, {}, {}, {}) /\ SameView(b, c)
    BY <1>9, <1>11, <2>1, <2>2, AddServerGood
  <2> QED BY <1>11, <1>16, <2>2, <2>3, UseViewOf
<1>12. ASSUME NEW dom \in Domains, Becomes(search_postfix_add(b, dom))
       PROVE  IInv' /\ PromiseStep(base, base')
  <2>1. PICK c : c = search_postfix_add(b, dom)
    OBVIOUS
  <2>2. Good(c, {}, {}, {}) /\ SameView(b, c)
    BY <1>9, <1>12, <2>1, AddDomainGood
  <2> QED BY <1>12, <1>16, <2>1, <2>2, UseViewOf
<1>13. CASE (\E k \in States : base.search[k].refcount = 0) /\ Becomes(search_postfix_clear(b))
  <2>1. PICK c : c = search_postfix_clear(b)
    OBVIOUS
  <2>2. Good(c, {}, {}, {}) /\ SameView(b, c)
    BY <1>9, <1>13, <2>1, ClearDomainsGood
  <2> QED BY <1>13, <1>16, <2>1, <2>2, UseViewOf
<1>14. ASSUME NEW fail \in BOOLEAN, Becomes(evdns_base_free(b, fail, send))
       PROVE  IInv' /\ PromiseStep(base, base')
  <2>1. PICK c : c = evdns_base_free(b, fail, send)
    OBVIOUS
  <2>2. Bare(b, {}) /\ b.max_inflight \in 1 .. 5
    BY <1>9, GoodCore DEF Bare
  <2>3. Gone(c) /\ c.freed /\ (Follows(b, c) \/ Abandons(b, c))
    BY <1>4, <1>14, <2>1, <2>2, FreeGone
  <2> QED BY <1>14, <1>16, <2>1, <2>3, GonePromised
<1>15. ASSUME NEW m \in Limits, Becomes([b EXCEPT !.max_inflight = m])
       PROVE  IInv' /\ PromiseStep(base, base')
  <2>1. PICK c : c = [b EXCEPT !.max_inflight = m]
    OBVIOUS
  <2>2. Good(c, {}, {}, {}) /\ SameView(b, c)
    BY <1>9, <1>15, <2>1, LimitGood
  <2> QED BY <1>15, <1>16, <2>1, <2>2, UseViewOf
<1> QED BY <1>3, <1>10, <1>11, <1>12, <1>13, <1>14, <1>15

LEMMA StepKeepsIInv ==
  IInv /\ [Next]_base => IInv' /\ PromiseStep(base, base')
<1> SUFFICES ASSUME IInv, [Next]_base PROVE IInv' /\ PromiseStep(base, base')
  OBVIOUS
<1>1. CASE UNCHANGED base
  BY <1>1 DEF IInv, InUse, PromiseStep, SameView
<1>2. CASE reply_run_callback
  BY <1>2, CallbackStep
<1>3. Running => InUse(base)
  BY DEF Running, IInv
<1>4. InUse(base') /\ Follows(base, base') => IInv' /\ PromiseStep(base, base')
  BY UseFollows
<1>5. ASSUME NEW x \in Users, Resolve(x)
     PROVE  IInv' /\ PromiseStep(base, base')
  BY <1>3, <1>5, ResolveStep DEF Resolve, IInv, InUse, PromiseStep
<1>6. ASSUME NEW x \in Users, Cancel(x)
     PROVE  IInv' /\ PromiseStep(base, base')
  BY <1>3, <1>4, <1>6, CancelStep DEF Cancel
<1>7. ASSUME NEW x \in Handles, evdns_request_timeout_callback(x)
     PROVE  IInv' /\ PromiseStep(base, base')
  BY <1>3, <1>4, <1>7, TimeoutStep DEF evdns_request_timeout_callback
<1>8. ASSUME NEW n \in Servers, nameserver_prod_callback(n)
     PROVE  IInv' /\ PromiseStep(base, base')
  BY <1>3, <1>4, <1>8, ProbeStep DEF nameserver_prod_callback
<1>9. ASSUME NEW n \in Servers, Writable(n)
     PROVE  IInv' /\ PromiseStep(base, base')
  BY <1>3, <1>4, <1>9, WritableStep DEF Writable
<1>10. ASSUME NEW n \in Servers, nameserver_read(n)
     PROVE  IInv' /\ PromiseStep(base, base')
  BY <1>3, <1>4, <1>10, ReadStep DEF nameserver_read
<1>11. ASSUME NEW n \in Servers, ReadError(n)
     PROVE  IInv' /\ PromiseStep(base, base')
  BY <1>3, <1>4, <1>11, ReadErrorStep DEF ReadError
<1>12. CASE Lose
  BY <1>3, <1>4, <1>12, LoseStep DEF Lose
<1>13. CASE Configure
  BY <1>3, <1>13, ConfigureStep DEF Configure
<1>14. CASE evdns_base_resume
  BY <1>3, <1>14, ResumeStep DEF evdns_base_resume, IInv, InUse, PromiseStep
<1> QED BY <1>1, <1>2, <1>5, <1>6, <1>7, <1>8, <1>9, <1>10, <1>11, <1>12, <1>13, <1>14 DEF Next

-----------------------------------------------------------------------------
(* The base that the program starts with.                                  *)

LEMMA OrderFacts ==
  /\ ServerOrder \in Seq(Servers) /\ Distinct(ServerOrder) /\ ServerOrder # <<>>
  /\ \A n \in Servers : Lists(ServerOrder, n)
<1>1. IsFiniteSet(Servers) /\ Servers # {}
  BY ServersAssumption
<1>2. PICK k : k = Cardinality(Servers)
  OBVIOUS
<1>3. k \in Nat /\ ExistsBijection(1 .. k, Servers)
  BY <1>1, <1>2, FS_CardinalityType
<1>4. \E s \in [1 .. k -> Servers] : Members(s) = Servers
  <2>1. PICK f \in Bijection(1 .. k, Servers) : TRUE
    BY <1>3 DEF ExistsBijection
  <2>2. f \in [1 .. k -> Servers] /\ \A n \in Servers : \E i \in 1 .. k : f[i] = n
    BY <2>1 DEF Bijection, Injection, Surjection
  <2>3. Members(f) = Servers
    BY <2>2 DEF Members
  <2> QED BY <2>2, <2>3
<1>5. PICK s : s = ServerOrder
  OBVIOUS
<1>6. s \in [1 .. k -> Servers] /\ Members(s) = Servers
  BY <1>2, <1>4, <1>5 DEF ServerOrder
<1>7. \A n \in Servers : \E i \in 1 .. k : s[i] = n
  BY <1>6 DEF Members
<1>8. s \in Seq(Servers) /\ Len(s) = k
  BY <1>3, <1>6
<1>9. IsFiniteSet(1 .. k) /\ Cardinality(1 .. k) = k
  BY <1>3, FS_Interval
<1>10. s \in Surjection(1 .. k, Servers)
  BY <1>6, <1>7 DEF Surjection
<1>11. s \in Injection(1 .. k, Servers)
  BY <1>2, <1>9, <1>10, FS_SurjSameCardinalityImpliesInj
<1>12. Distinct(s)
  BY <1>6, <1>8, <1>11 DEF Distinct, Injection, IsInjective
<1>13. \A n \in Servers : Lists(s, n)
  BY <1>7, <1>8 DEF Lists
<1>14. s # <<>>
  BY <1>1, <1>7, <1>8
<1> QED BY <1>5, <1>8, <1>12, <1>13, <1>14

InitFields(b, sc) ==
  /\ DOMAIN b = Fields /\ b.servers = ServerOrder /\ b.good = Cardinality(Servers)
  /\ b.ns = [n \in Servers |-> NewServer] /\ b.inflight = <<>> /\ b.waiting = <<>>
  /\ b.ninflight = 0 /\ b.nwaiting = 0 /\ b.max_inflight = sc.max
  /\ b.hnd = [x \in Handles |-> NewHandle] /\ b.req = [x \in Handles |-> NoRequest]
  /\ b.search = [k \in States |-> IF k = 1 /\ sc.domains # <<>>
                                  THEN [refcount |-> 1, domains |-> sc.domains] ELSE NoSearchState]
  /\ b.global = (IF sc.domains # <<>> THEN 1 ELSE None)
  /\ b.deferred = <<>> /\ b.told = {} /\ b.draw = <<0>> /\ ~b.freed

LEMMA InitHasFields ==
  ASSUME Init
  PROVE  \E sc \in Scenarios : InitFields(base, sc)
<1>1. PICK sc \in Scenarios :
    base = [servers |-> ServerOrder, good |-> Cardinality(Servers),
            ns |-> [n \in Servers |-> NewServer],
            inflight |-> <<>>, waiting |-> <<>>, ninflight |-> 0, nwaiting |-> 0,
            max_inflight |-> sc.max, probes |-> sc.probes,
            hnd |-> [x \in Handles |-> NewHandle],
            req |-> [x \in Handles |-> NoRequest],
            search |-> [k \in States |->
                IF k = 1 /\ sc.domains # <<>>
                THEN [refcount |-> 1, domains |-> sc.domains] ELSE NoSearchState],
            global |-> IF sc.domains # <<>> THEN 1 ELSE None, deferred |-> <<>>,
            told |-> {}, asked |-> Users \ sc.users,
            net |-> {}, draw |-> <<0>>, faults |-> sc.faults, config |-> sc.config,
            suspended |-> FALSE, halfFreed |-> FALSE, dangling |-> FALSE,
            freed |-> FALSE]
  BY DEF Init
<1>2. DOMAIN base = Fields
  BY <1>1 DEF Fields
<1>3. /\ base.servers = ServerOrder /\ base.good = Cardinality(Servers)
      /\ base.ns = [n \in Servers |-> NewServer] /\ base.inflight = <<>> /\ base.waiting = <<>>
      /\ base.ninflight = 0 /\ base.nwaiting = 0 /\ base.max_inflight = sc.max
      /\ base.hnd = [x \in Handles |-> NewHandle] /\ base.req = [x \in Handles |-> NoRequest]
  BY <1>1
<1>4. /\ base.search = [k \in States |-> IF k = 1 /\ sc.domains # <<>>
                          THEN [refcount |-> 1, domains |-> sc.domains] ELSE NoSearchState]
      /\ base.global = (IF sc.domains # <<>> THEN 1 ELSE None)
      /\ base.deferred = <<>> /\ base.told = {} /\ base.draw = <<0>> /\ ~base.freed
  BY <1>1
<1> QED BY <1>2, <1>3, <1>4 DEF InitFields

LEMMA InitGood ==
  ASSUME NEW b, NEW sc \in Scenarios, InitFields(b, sc)
  PROVE  Good(b, {}, {}, {})
<1>1. sc.domains \in Seq(Domains) /\ sc.max \in 1 .. 5
  BY ScenariosAssumption
<1>2. /\ DOMAIN b = Fields /\ b.servers \in Seq(Servers) /\ Distinct(b.servers) /\ b.servers # <<>>
      /\ \A n \in Servers : Lists(b.servers, n)
  BY OrderFacts DEF InitFields
<1>3. b.ns \in [Servers -> Server] /\ \A n \in Servers : b.ns[n] = NewServer
  BY NewServerFacts DEF InitFields
<1>4. /\ b.hnd \in [Handles -> Handle] /\ \A x \in Handles : b.hnd[x] = NewHandle
      /\ b.req \in [Handles -> Request] /\ \A x \in Handles : b.req[x] = NoRequest
  BY NewHandleFacts, NoRequestFacts DEF InitFields
<1>5. \A m : ~Lists(b.inflight, m) /\ ~Lists(b.waiting, m)
  BY DEF InitFields, Lists
<1>6. b.draw \in Seq(Ids) /\ b.draw # <<>>
  BY ZeroIsAnId DEF InitFields
<1>7. Core(b, {})
  <2>1. NetTyped(b)
    BY <1>2, <1>3, <1>4, <1>6 DEF NetTyped, InitFields
  <2>2. \A x \in Handles : ListedOK(b, x, {})
    BY <1>4, <1>5, NewHandleFacts, NoRequestFacts DEF ListedOK
  <2>3. ListsOK(b, {})
    BY <1>2, <2>2 DEF ListsOK, InitFields, Distinct
  <2>4. UpServers(b) = Servers
    BY <1>2, <1>3, NewServerFacts DEF UpServers
  <2>5. \A n \in Servers : Load(b, n) = {}
    BY <1>5 DEF Load
  <2>6. CountsOK(b)
    BY <1>3, <2>4, <2>5, NewServerFacts, FS_EmptySet DEF CountsOK, InitFields
  <2>7. IdsOK(b)
    BY <1>5 DEF IdsOK
  <2> QED BY <1>4, <2>1, <2>3, <2>6, <2>7 DEF Core
<1>8. RefsOK(b)
  <2>1. PICK s : s = [refcount |-> 1, domains |-> sc.domains]
    OBVIOUS
  <2>2. s \in SearchState /\ NoSearchState \in SearchState
        /\ s.refcount = 1 /\ NoSearchState.refcount = 0
    BY <1>1, <2>1 DEF SearchState, NoSearchState
  <2>3. b.search = [k \in States |-> IF k = 1 /\ sc.domains # <<>> THEN s ELSE NoSearchState]
    BY <2>1 DEF InitFields
  <2>4. b.search \in [States -> SearchState]
    BY <2>2, <2>3
  <2>5. None \notin States /\ 1 \in States
    BY NoneIsNot DEF States
  <2>6. b.global = (IF sc.domains # <<>> THEN 1 ELSE None)
    BY DEF InitFields
  <2>7. ASSUME NEW k \in States PROVE CountedOK(b, k)
    <3>1. Holders(b, k) = {}
      BY <1>4, <2>5, NewHandleFacts DEF Holders
    <3>2. Cardinality(Holders(b, k)) = 0
      BY <3>1, FS_EmptySet
    <3>3. b.search[k].refcount = IF b.global = k THEN 1 ELSE 0
      BY <2>2, <2>3, <2>5, <2>6
    <3> QED BY <3>2, <3>3 DEF CountedOK
  <2>8. \A x \in Handles : b.hnd[x].search_state = None /\ b.hnd[x].search_index \in Nat
    BY <1>4, NewHandleFacts
  <2> QED BY <2>4, <2>5, <2>6, <2>7, <2>8 DEF RefsOK
<1>9. /\ b.deferred \in Seq(Handles \X Errors) /\ Len(b.deferred) = 0 /\ b.told = {}
      /\ \A x \in Handles : ~HasResult(b, x)
  BY DEF InitFields, HasResult
<1>10. Pend(b, {})
  BY <1>4, <1>9, NewHandleFacts DEF Pend, Active
<1>11. \A x \in Handles : ~Active(b.hnd[x]) /\ b.hnd[x].ns = None
  BY <1>4, NewHandleFacts DEF Active
<1>12. Rest(b, {}, {})
  <2>1. \A n \in Servers : ProbeOfServer(b, n) /\ ~b.ns[n].timeout
    BY <1>3, NewServerFacts DEF ProbeOfServer
  <2>2. \A x \in Probes : ~b.hnd[x].current_req /\ b.hnd[x].ns = None /\ ~Active(b.hnd[x])
    BY <1>4, <1>11, NewHandleFacts, HandleKinds
  <2> QED BY <1>4, <1>9, <1>11, <2>1, <2>2, HandleKinds DEF Rest
<1>13. FedOK(b)
  BY DEF FedOK, InitFields
<1>14. Watched(b, {}) /\ DownOK(b, {}, {})
  BY <1>3, <1>5, NewServerFacts DEF Watched, ServerWatched, DownOK
<1> QED BY <1>1, <1>2, <1>7, <1>8, <1>10, <1>12, <1>13, <1>14 DEF Good, Sound, InitFields

LEMMA InitIInv == Init => IInv
BY InitHasFields, InitGood DEF IInv, InUse

-----------------------------------------------------------------------------
(* What the invariant says: the properties of the runs.                    *)

\* An unfreed list has the members it lists, at different places.
LEMMA ListedMembers ==
  ASSUME NEW X, NEW s \in Seq(X), Distinct(s)
  PROVE  /\ \A x : x \in Members(s) <=> Lists(s, x)
         /\ \A i, j \in DOMAIN s : s[i] = s[j] => i = j
<1>1. DOMAIN s = 1 .. Len(s)
  OBVIOUS
<1> QED BY <1>1, MembersFacts, Zenon DEF Distinct

\* Core gives the lists and the counters.
LEMMA CoreAccounts ==
  ASSUME Core(base, {})
  PROVE  ListsAndCounters
<1>1. /\ base.servers \in Seq(Servers) /\ base.inflight \in Seq(Handles) /\ base.waiting \in Seq(Handles)
      /\ Distinct(base.inflight) /\ Distinct(base.waiting) /\ Distinct(base.servers)
      /\ base.ninflight = Len(base.inflight) /\ base.nwaiting = Len(base.waiting)
  BY DEF Core, NetTyped, ListsOK
<1>2. /\ \A x : x \in Members(base.inflight) <=> Lists(base.inflight, x)
      /\ \A x : x \in Members(base.waiting) <=> Lists(base.waiting, x)
      /\ \A x : x \in Members(base.servers) <=> Lists(base.servers, x)
  BY <1>1, ListedMembers
<1>3. /\ \A x : Lists(base.inflight, x) => x \in Handles
      /\ \A x : Lists(base.waiting, x) => x \in Handles
      /\ \A x : Lists(base.servers, x) => x \in Servers
  BY <1>1, MembersFacts
<1>4. base.good = Count({n \in Members(base.servers) : base.ns[n].state})
  <2>1. UpServers(base) = {n \in Members(base.servers) : base.ns[n].state}
    BY <1>2, <1>3 DEF UpServers
  <2>2. base.good = Cardinality(UpServers(base))
    BY DEF Core, CountsOK
  <2> QED BY <2>1, <2>2 DEF Count
<1>5. ASSUME NEW n \in Members(base.servers)
      PROVE  base.ns[n].requests_inflight = Count({x \in Members(base.inflight) : base.req[x].ns = n})
  <2>1. n \in Servers /\ Lists(base.servers, n)
    BY <1>2, <1>3
  <2>2. Load(base, n) = {x \in Members(base.inflight) : base.req[x].ns = n}
    BY <1>2, <1>3 DEF Load
  <2>3. base.ns[n].requests_inflight = Cardinality(Load(base, n))
    BY <2>1 DEF Core, CountsOK
  <2> QED BY <2>2, <2>3 DEF Count
<1>6. \A s \in {base.inflight, base.waiting} : \A i, j \in DOMAIN s : s[i] = s[j] => i = j
  BY <1>1, ListedMembers
<1>7. ASSUME NEW x \in Handles
      PROVE  /\ ~(Lists(base.inflight, x) /\ Lists(base.waiting, x))
             /\ Lists(base.inflight, x) \/ Lists(base.waiting, x) <=> base.hnd[x].current_req
             /\ base.req[x].ns # None <=> Lists(base.inflight, x)
  BY DEF Core, ListsOK, ListedOK
<1>8. Members(base.inflight) \cap Members(base.waiting) = {}
  BY <1>2, <1>3, <1>7
<1>9. Members(base.inflight) \cup Members(base.waiting) = {x \in Handles : Linked(x)}
  BY <1>2, <1>3, <1>7 DEF Linked
<1>10. \A x \in Handles : (base.req[x].ns # None) <=> x \in Members(base.inflight)
  BY <1>2, <1>7
<1>11. IdsDiffer
  <2>1. \A x \in Handles : SearchedOn(base, x) <=> WentOn(x)
    BY DEF SearchedOn, WentOn
  <2>2. IdsOK(base)
    BY DEF Core
  <2> QED BY <1>2, <1>3, <2>1, <2>2 DEF IdsOK, IdsDiffer
<1> QED BY <1>1, <1>4, <1>5, <1>6, <1>8, <1>9, <1>10, <1>11 DEF ListsAndCounters

\* The reference counts, in the words of the property.
LEMMA SearchReferences ==
  ASSUME RefsOK(base), NEW k \in States
  PROVE  base.search[k].refcount = Count({x \in Handles : base.hnd[x].search_state = k})
                                   + (IF base.global = k THEN 1 ELSE 0)
<1>1. CountedOK(base, k)
  BY DEF RefsOK
<1> QED BY <1>1 DEF CountedOK, Holders, Count

\* The references of a base in use, and of one that was freed.
LEMMA InUseRefers ==
  ASSUME Sound(base, {}, {})
  PROVE  ReferencesHold
<1>1. /\ \A x : x \in Members(base.servers) <=> Lists(base.servers, x)
      /\ \A x : Lists(base.servers, x) => x \in Servers
  <2>1. base.servers \in Seq(Servers)
    BY DEF Sound, Core, NetTyped
  <2> QED BY <2>1, MembersFacts
<1>2. ASSUME NEW n \in Members(base.servers), NEW x \in Probes, base.ns[n].probe = x
      PROVE  base.hnd[x].ns = n /\ (base.hnd[x].current_req \/ base.hnd[x].pending_cb)
  <2>1. n \in Servers /\ Lists(base.servers, n) /\ x # None
    BY <1>1, NoneAssumption
  <2>2. ProbeOfServer(base, n)
    BY <2>1 DEF Sound, Rest
  <2> QED BY <1>2, <2>1, <2>2 DEF ProbeOfServer, Active
<1>3. ASSUME NEW x \in Probes, Linked(x)
      PROVE  base.ns[base.hnd[x].ns].probe = x
  <2>1. ProbeIsOut(base, x)
    BY <1>3 DEF Linked, Sound, Rest
  <2> QED BY <2>1 DEF ProbeIsOut
<1>4. RefsOK(base)
  BY DEF Sound
<1> QED BY <1>2, <1>3, <1>4, SearchReferences DEF ReferencesHold

LEMMA GoneRefers ==
  ASSUME Gone(base)
  PROVE  ReferencesHold
<1>1. RefsOK(base) /\ Members(base.servers) = {}
  BY DEF Gone, Members
<1> QED BY <1>1, SearchReferences DEF ReferencesHold

\* The invariant contains each property of the runs.
LEMMA IInvAccounts == IInv => Accounting
<1> SUFFICES ASSUME IInv, ~base.dangling PROVE ListsAndCounters /\ ReferencesHold
  BY DEF Accounting
<1>1. CASE InUse(base)
  <2>1. Sound(base, {}, {})
    BY <1>1 DEF InUse, Good
  <2>2. Core(base, {})
    BY <2>1 DEF Sound
  <2> QED BY <2>1, <2>2, CoreAccounts, InUseRefers
<1>2. CASE Gone(base)
  <2>1. Core(base, {})
    BY <1>2 DEF Gone
  <2> QED BY <1>2, <2>1, CoreAccounts, GoneRefers
<1> QED BY <1>1, <1>2 DEF IInv

LEMMA IInvProbes == IInv => DownServersAreProbed
<1> SUFFICES ASSUME IInv, ~base.dangling, ~DisableWhenInactive,
                    NEW n \in Members(base.servers), ~base.ns[n].state
             PROVE  \/ base.ns[n].timeout
                    \/ \E x \in Probes : base.hnd[x].ns = n
                          /\ (base.hnd[x].current_req \/ base.hnd[x].pending_cb)
  BY DEF DownServersAreProbed
<1>1. CASE InUse(base)
  <2>1. DownOK(base, {}, {}) /\ Pend(base, {}) /\ base.servers \in Seq(Servers)
    BY <1>1 DEF InUse, Good, Sound, Core, NetTyped
  <2>2. n \in Servers /\ Lists(base.servers, n)
    BY <2>1, MembersFacts
  <2>3. CASE base.ns[n].timeout
    BY <2>3
  <2>4. CASE \E x \in Probes : base.hnd[x].ns = n /\ ProbeBusy(base, x, {})
    <3>1. PICK x \in Probes : base.hnd[x].ns = n /\ ProbeBusy(base, x, {})
      BY <2>4
    <3>2. x \in Handles
      BY DEF Handles
    <3>3. LiveResult(base, x) => base.hnd[x].pending_cb
      BY <2>1, <3>2 DEF LiveResult, HasResult, Pend
    <3> QED BY <3>1, <3>3 DEF ProbeBusy
  <2> QED BY <2>1, <2>2, <2>3, <2>4 DEF DownOK
<1>2. CASE Gone(base)
  BY <1>2 DEF Gone, Members
<1> QED BY <1>1, <1>2 DEF IInv

\* A waiting request waits for one in flight.
LEMMA InUseProgresses ==
  ASSUME FedOK(base), NetTyped(base)
  PROVE  WaitingMakesProgress
<1> SUFFICES ASSUME ~base.suspended, base.servers # <<>>, base.waiting # <<>>, base.inflight = <<>>
             PROVE  SearchStalls
  BY DEF WaitingMakesProgress
<1>1. PICK x \in Handles : Lists(base.waiting, x) /\ SearchedOn(base, x)
  BY DEF FedOK
<1>2. x \in Members(base.waiting)
  BY <1>1, MembersFacts DEF NetTyped
<1> QED BY <1>1, <1>2 DEF SearchStalls, SearchedOn, WentOn

\* A request in flight is looked at again.
LEMMA WatchedInflight ==
  ASSUME Watched(base, {}), NetTyped(base)
  PROVE  InflightIsWatched
<1> SUFFICES ASSUME NEW x \in Members(base.inflight), ~base.req[x].timeout
             PROVE  /\ base.req[x].transmit_me
                    /\ \E n \in Members(base.servers) : base.ns[n].write_waiting /\ base.ns[n].event
  BY DEF InflightIsWatched
<1>1. x \in Handles /\ Lists(base.inflight, x)
  BY MembersFacts DEF NetTyped
<1>2. base.req[x].transmit_me /\ SomeWaits(base)
  BY <1>1 DEF Watched
<1>3. PICK n \in Servers : Lists(base.servers, n) /\ base.ns[n].write_waiting
  BY <1>2 DEF SomeWaits
<1>4. n \in Members(base.servers)
  BY <1>3, MembersFacts DEF NetTyped
<1>5. base.ns[n].event
  BY <1>3 DEF Watched, ServerWatched
<1> QED BY <1>2, <1>3, <1>4, <1>5

\* A base that was freed has no requests.
LEMMA GoneForgetsNothing ==
  ASSUME Gone(base)
  PROVE  InflightIsWatched /\ WaitingMakesProgress
<1>1. base.servers = <<>> /\ base.inflight \in Seq(Handles)
  BY DEF Gone, Core, NetTyped
<1>2. ASSUME NEW x \in Members(base.inflight) PROVE FALSE
  <2>1. x \in Handles /\ Lists(base.inflight, x)
    BY <1>1, MembersFacts
  <2> QED BY <2>1 DEF Gone, Core, ListsOK, ListedOK
<1> QED BY <1>1, <1>2 DEF InflightIsWatched, WaitingMakesProgress

LEMMA IInvForgetsNothing ==
  ASSUME ~DisableWhenInactive
  PROVE  IInv => NoRequestIsForgotten
<1> SUFFICES ASSUME IInv, ~base.dangling PROVE InflightIsWatched /\ WaitingMakesProgress
  BY DEF NoRequestIsForgotten
<1>1. CASE InUse(base)
  <2>1. Watched(base, {}) /\ FedOK(base) /\ NetTyped(base)
    BY <1>1 DEF InUse, Good, Sound, Core
  <2> QED BY <2>1, WatchedInflight, InUseProgresses
<1>2. CASE Gone(base)
  BY <1>2, GoneForgetsNothing
<1> QED BY <1>1, <1>2 DEF IInv

-----------------------------------------------------------------------------
(* The theorems.                                                           *)

\* The invariant of the client holds in every behaviour: whatever the network, the
\* kernel's sends, the random ids, the timers and the calls of the program do.
THEOREM ClientIsSound == Spec => []IInv
<1>1. Init => IInv
  BY InitIInv
<1>2. IInv /\ [Next]_base => IInv'
  BY StepKeepsIInv
<1> QED BY <1>1, <1>2, PTL DEF Spec

\* A request of evdns.c is in the list its fields say, the counts of requests in flight,
\* of waiting ones, of each server's and of good servers are those of the lists, two
\* requests in flight differ in their ids, a list of search domains is counted once for
\* each request that holds it, and a server's probe is a request made for that server.
THEOREM AccountsAgree == Spec => []Accounting
<1> QED BY ClientIsSound, IInvAccounts, PTL

\* A server that is down has the timer of its next probe running, a probe out, or the
\* result of one on its way: nameserver_failed, nameserver_probe_failed and whatever
\* cancels or finishes a probe never leave it down for good.
THEOREM DownServersStayProbed == Spec => []DownServersAreProbed
<1> QED BY ClientIsSound, IInvProbes, PTL

\* A request in flight has its timer running or is to be sent when a watched socket
\* becomes writable; and while there are servers a waiting request has one in flight
\* whose end pumps the queue. With disable_when_inactive the socket that a blocked
\* request waits for may be disabled by the end of another one, so it is left out.
THEOREM RequestsAreNotForgotten ==
  ASSUME ~DisableWhenInactive
  PROVE  Spec => []NoRequestIsForgotten
<1>1. IInv => NoRequestIsForgotten
  BY IInvForgetsNothing
<1> QED BY <1>1, ClientIsSound, PTL

-----------------------------------------------------------------------------
(* The promise: the results of the program's requests among those on their *)
(* way.                                                                    *)

Taken(d, u, i) == IF d[i][1] \in Users THEN Append(u, d[i]) ELSE u

\* f collects the results from the first on.
Partial(d, f, n) == f = [i \in 0 .. n |-> IF i = 0 THEN <<>> ELSE Taken(d, f[i - 1], i)]

Collects(d, f) ==
  /\ f[0] = <<>>
  /\ \A i \in 1 .. Len(d) : f[i] = Taken(d, f[i - 1], i)

LEMMA PartialExists ==
  ASSUME NEW d, NEW n \in Nat
  PROVE  \E f : Partial(d, f, n)
<1> DEFINE W == {m \in Nat : \E f : Partial(d, f, m)}
<1>1. ASSUME NEW m \in Nat, \A k \in 0 .. (m - 1) : k \in W PROVE m \in W
  <2>1. CASE m = 0
    <3>1. PICK f : f = [i \in 0 .. 0 |-> <<>>]
      OBVIOUS
    <3>2. f = [i \in 0 .. m |-> IF i = 0 THEN <<>> ELSE Taken(d, f[i - 1], i)]
      BY <2>1, <3>1
    <3> QED BY <3>2 DEF Partial
  <2>2. CASE m # 0
    <3>1. m - 1 \in 0 .. (m - 1) /\ m - 1 \in Nat
      BY <2>2
    <3>2. PICK g : g = [i \in 0 .. (m - 1) |-> IF i = 0 THEN <<>> ELSE Taken(d, g[i - 1], i)]
      BY <1>1, <3>1 DEF Partial
    <3>3. PICK e : e = Taken(d, g[m - 1], m)
      OBVIOUS
    <3>4. PICK f : f = [i \in 0 .. m |-> IF i = m THEN e ELSE g[i]]
      OBVIOUS
    <3>5. ASSUME NEW i \in 0 .. m PROVE f[i] = IF i = 0 THEN <<>> ELSE Taken(d, f[i - 1], i)
      <4>1. CASE i = m
        <5>1. f[i - 1] = g[m - 1]
          BY <2>2, <3>4, <4>1
        <5> QED BY <2>2, <3>3, <3>4, <4>1, <5>1
      <4>2. CASE i # m
        <5>1. i \in 0 .. (m - 1) /\ f[i] = g[i]
          BY <3>4, <4>2
        <5>2. i # 0 => i - 1 \in 0 .. m /\ i - 1 # m
          BY <4>2
        <5>3. i # 0 => f[i - 1] = g[i - 1]
          BY <3>4, <5>2
        <5>4. g[i] = IF i = 0 THEN <<>> ELSE Taken(d, g[i - 1], i)
          BY <3>2, <5>1
        <5> QED BY <5>1, <5>3, <5>4
      <4> QED BY <4>1, <4>2
    <3>6. f = [i \in 0 .. m |-> IF i = 0 THEN <<>> ELSE Taken(d, f[i - 1], i)]
      BY <3>4, <3>5
    <3> QED BY <3>6 DEF Partial
  <2> QED BY <2>1, <2>2
<1> HIDE DEF W
<1>2. n \in W
  BY <1>1, StrongInduction
<1> QED BY <1>2 DEF W

LEMMA ResultsCollected ==
  ASSUME NEW d, Len(d) \in Nat
  PROVE  \E f : Collects(d, f) /\ UserResults(d) = f[Len(d)]
<1>1. PICK n \in Nat : n = Len(d)
  OBVIOUS
<1>2. PICK f : f = CHOOSE g : Partial(d, g, n)
  OBVIOUS
<1>3. Partial(d, f, n)
  BY <1>2, PartialExists
<1>4. UserResults(d) = f[n]
  BY <1>1, <1>2, Zenon DEF UserResults, Partial, Taken
<1>5. f[0] = <<>> /\ \A i \in 1 .. n : f[i] = Taken(d, f[i - 1], i)
  <2>1. f = [i \in 0 .. n |-> IF i = 0 THEN <<>> ELSE Taken(d, f[i - 1], i)]
    BY <1>3 DEF Partial
  <2> QED BY <2>1
<1> QED BY <1>1, <1>4, <1>5 DEF Collects

LEMMA CollectedTyped ==
  ASSUME NEW d \in Seq(Entry), NEW f, Collects(d, f)
  PROVE  \A i \in 0 .. Len(d) : f[i] \in Seq(Entry)
<1> DEFINE W == {i \in Nat : i <= Len(d) => f[i] \in Seq(Entry)}
<1>1. ASSUME NEW m \in Nat, \A k \in 0 .. (m - 1) : k \in W, m <= Len(d) PROVE f[m] \in Seq(Entry)
  <2>1. CASE m = 0
    <3>1. f[m] = <<>>
      BY <2>1 DEF Collects
    <3> QED BY <3>1
  <2>2. CASE m # 0
    <3>1. m - 1 \in 0 .. (m - 1) /\ m - 1 <= Len(d) /\ m \in 1 .. Len(d)
      BY <1>1, <2>2
    <3>2. f[m - 1] \in Seq(Entry) /\ d[m] \in Entry
      BY <1>1, <3>1
    <3>3. f[m] = Taken(d, f[m - 1], m)
      BY <3>1 DEF Collects
    <3> QED BY <3>2, <3>3 DEF Taken
  <2> QED BY <2>1, <2>2
<1>2. \A m \in Nat : (\A k \in 0 .. (m - 1) : k \in W) => m \in W
  BY <1>1
<1> HIDE DEF W
<1>3. Nat \subseteq W
  BY <1>2, StrongInduction
<1> QED BY <1>3 DEF W

\* What was collected first stays first.
LEMMA CollectedPrefix ==
  ASSUME NEW s, NEW t, DeferredGrows(s, t), NEW f, Collects(s, f), NEW g, Collects(t, g)
  PROVE  \A i \in 0 .. Len(s) : g[i] = f[i]
<1>0. Len(s) \in Nat /\ Len(t) \in Nat /\ Len(s) <= Len(t) /\ \A i \in 1 .. Len(s) : t[i] = s[i]
  BY DEF DeferredGrows
<1> DEFINE W == {i \in Nat : i <= Len(s) => g[i] = f[i]}
<1>1. ASSUME NEW m \in Nat, \A k \in 0 .. (m - 1) : k \in W, m <= Len(s) PROVE g[m] = f[m]
  <2>1. CASE m = 0
    BY <2>1 DEF Collects
  <2>2. CASE m # 0
    <3>1. m - 1 \in 0 .. (m - 1) /\ m - 1 <= Len(s) /\ m \in 1 .. Len(s) /\ m \in 1 .. Len(t)
      BY <1>0, <1>1, <2>2
    <3>2. f[m - 1] = g[m - 1]
      BY <1>1, <3>1
    <3>3. f[m] = Taken(s, f[m - 1], m) /\ g[m] = Taken(t, g[m - 1], m)
      BY <3>1 DEF Collects
    <3>4. t[m] = s[m]
      BY <1>0, <3>1
    <3> QED BY <3>2, <3>3, <3>4 DEF Taken
  <2> QED BY <2>1, <2>2
<1>2. \A m \in Nat : (\A k \in 0 .. (m - 1) : k \in W) => m \in W
  BY <1>1
<1> HIDE DEF W
<1>3. Nat \subseteq W
  BY <1>2, StrongInduction
<1> QED BY <1>0, <1>3 DEF W

LEMMA AppendBehind ==
  ASSUME NEW a \in Seq(Entry), NEW b \in Seq(Entry), NEW e \in Entry
  PROVE  Append(a \o b, e) = a \o Append(b, e)
<1>1. PICK m \in Nat : m = Len(a)
  OBVIOUS
<1>2. PICK n \in Nat : n = Len(b)
  OBVIOUS
<1>3. PICK c : c = a \o b
  OBVIOUS
<1>4. PICK d : d = Append(b, e)
  OBVIOUS
<1>5. c \in Seq(Entry) /\ Len(c) = m + n /\ \A i \in 1 .. m + n : c[i] = IF i <= m THEN a[i] ELSE b[i - m]
  BY <1>1, <1>2, <1>3
<1>6. d \in Seq(Entry) /\ Len(d) = n + 1 /\ d[n + 1] = e /\ \A i \in 1 .. n : d[i] = b[i]
  BY <1>2, <1>4
<1>7. PICK u : u = Append(c, e)
  OBVIOUS
<1>8. PICK v : v = a \o d
  OBVIOUS
<1>9. u \in Seq(Entry) /\ Len(u) = m + n + 1 /\ u[m + n + 1] = e /\ \A i \in 1 .. m + n : u[i] = c[i]
  BY <1>5, <1>7
<1>10. v \in Seq(Entry) /\ Len(v) = m + n + 1
       /\ \A i \in 1 .. m + n + 1 : v[i] = IF i <= m THEN a[i] ELSE d[i - m]
  BY <1>1, <1>6, <1>8
<1>11. ASSUME NEW i \in 1 .. m + n + 1 PROVE u[i] = v[i]
  <2>1. CASE i = m + n + 1
    <3>1. ~(i <= m) /\ i - m = n + 1
      BY <2>1
    <3> QED BY <1>6, <1>9, <1>10, <2>1, <3>1
  <2>2. CASE i # m + n + 1
    <3>1. i \in 1 .. m + n
      BY <2>2
    <3>2. ~(i <= m) => i - m \in 1 .. n
      BY <3>1
    <3> QED BY <1>5, <1>6, <1>9, <1>10, <3>1, <3>2
  <2> QED BY <2>1, <2>2
<1>12. u = v
  BY <1>9, <1>10, <1>11
<1> QED BY <1>3, <1>4, <1>7, <1>8, <1>12

\* r holds the users' results of t behind the k-th, up to the i-th.
Adds(t, k, i, r) ==
  /\ r \in Seq(Entry)
  /\ \A j \in 1 .. Len(r) : r[j][1] \in Users /\ \E m \in (k + 1) .. i : r[j] = t[m]
  /\ \A m \in (k + 1) .. i : t[m][1] \in Users => \E j \in 1 .. Len(r) : r[j] = t[m]
  /\ \A j, l \in 1 .. Len(r) : r[j][1] = r[l][1] => j = l

Single(t) == \A i, j \in 1 .. Len(t) : t[i][1] = t[j][1] => i = j

LEMMA AddsOne ==
  ASSUME NEW t \in Seq(Entry), Single(t), NEW k \in Nat, NEW i \in 1 .. Len(t), k < i, NEW r,
         Adds(t, k, i - 1, r), NEW q, q = Taken(t, r, i)
  PROVE  Adds(t, k, i, q)
<1>1. CASE t[i][1] \notin Users
  <2>1. q = r
    BY <1>1 DEF Taken
  <2>2. \A m \in (k + 1) .. i : m = i \/ m \in (k + 1) .. (i - 1)
    OBVIOUS
  <2>3. \A m \in (k + 1) .. (i - 1) : m \in (k + 1) .. i
    OBVIOUS
  <2>4. /\ r \in Seq(Entry)
        /\ \A j \in 1 .. Len(r) : r[j][1] \in Users /\ \E m \in (k + 1) .. (i - 1) : r[j] = t[m]
        /\ \A m \in (k + 1) .. (i - 1) : t[m][1] \in Users => \E j \in 1 .. Len(r) : r[j] = t[m]
        /\ \A j, l \in 1 .. Len(r) : r[j][1] = r[l][1] => j = l
    BY DEF Adds
  <2>5. \A j \in 1 .. Len(r) : r[j][1] \in Users /\ \E m \in (k + 1) .. i : r[j] = t[m]
    BY <2>3, <2>4, Zenon
  <2>6. \A m \in (k + 1) .. i : t[m][1] \in Users => \E j \in 1 .. Len(r) : r[j] = t[m]
    BY <1>1, <2>2, <2>4, Zenon
  <2>7. Adds(t, k, i, r)
    BY <2>4, <2>5, <2>6 DEF Adds
  <2> QED BY <2>1, <2>7
<1>2. CASE t[i][1] \in Users
  <2>1. q = Append(r, t[i]) /\ r \in Seq(Entry) /\ t[i] \in Entry
    BY <1>2 DEF Taken, Adds
  <2>2. PICK n \in Nat : n = Len(r)
    BY <2>1
  <2>3. /\ q \in Seq(Entry) /\ Len(q) = n + 1 /\ q[n + 1] = t[i]
        /\ \A j \in 1 .. n : q[j] = r[j]
    BY <2>1, <2>2
  <2>4. \A m \in (k + 1) .. i : m = i \/ m \in (k + 1) .. (i - 1)
    OBVIOUS
  <2>5. \A m \in (k + 1) .. (i - 1) : m \in (k + 1) .. i /\ m \in 1 .. Len(t) /\ m # i
    OBVIOUS
  <2>6. \A j \in 1 .. (n + 1) : j = n + 1 \/ j \in 1 .. n
    OBVIOUS
  <2>7. n + 1 \in 1 .. (n + 1) /\ i \in (k + 1) .. i /\ \A j \in 1 .. n : j \in 1 .. (n + 1)
    OBVIOUS
  <2>8. ASSUME NEW j \in 1 .. n PROVE q[j][1] # t[i][1]
    <3>1. PICK m \in (k + 1) .. (i - 1) : r[j] = t[m]
      BY <2>2 DEF Adds
    <3> QED BY <2>3, <2>5, <3>1 DEF Single
  <2>9. ASSUME NEW j \in 1 .. (n + 1) PROVE q[j][1] \in Users /\ \E m \in (k + 1) .. i : q[j] = t[m]
    BY <1>2, <2>2, <2>3, <2>5, <2>6, <2>7 DEF Adds
  <2>10. ASSUME NEW m \in (k + 1) .. i, t[m][1] \in Users PROVE \E j \in 1 .. (n + 1) : q[j] = t[m]
    <3>1. CASE m = i
      BY <2>3, <2>7, <3>1
    <3>2. CASE m # i
      <4>1. PICK j \in 1 .. n : r[j] = t[m]
        BY <2>2, <2>4, <2>10, <3>2 DEF Adds
      <4> QED BY <2>3, <2>7, <4>1
    <3> QED BY <3>1, <3>2
  <2>11. ASSUME NEW j \in 1 .. (n + 1), NEW l \in 1 .. (n + 1), q[j][1] = q[l][1] PROVE j = l
    <3>1. CASE j \in 1 .. n /\ l \in 1 .. n
      BY <2>2, <2>3, <2>11, <3>1 DEF Adds
    <3>2. CASE j = n + 1 \/ l = n + 1
      BY <2>3, <2>6, <2>8, <2>11, <3>2
    <3> QED BY <2>6, <3>1, <3>2
  <2> QED BY <2>3, <2>9, <2>10, <2>11 DEF Adds
<1> QED BY <1>1, <1>2

LEMMA CollectedBehind ==
  ASSUME NEW t \in Seq(Entry), Single(t), NEW g, Collects(t, g), NEW k \in 0 .. Len(t)
  PROVE  \A i \in k .. Len(t) : \E r : Adds(t, k, i, r) /\ g[i] = g[k] \o r
<1>0. Len(t) \in Nat /\ k \in Nat
  OBVIOUS
<1> DEFINE W == {i \in Nat : i \in k .. Len(t) => \E r : Adds(t, k, i, r) /\ g[i] = g[k] \o r}
<1>1. ASSUME NEW i \in Nat, \A m \in 0 .. (i - 1) : m \in W, i \in k .. Len(t)
      PROVE  \E r : Adds(t, k, i, r) /\ g[i] = g[k] \o r
  <2>0. g[k] \in Seq(Entry)
    BY CollectedTyped
  <2>1. CASE i = k
    <3>1. PICK r : r = <<>>
      OBVIOUS
    <3>2. r \in Seq(Entry) /\ Len(r) = 0
      BY <3>1
    <3>3. (k + 1) .. i = {} /\ 1 .. Len(r) = {}
      BY <1>0, <2>1, <3>2
    <3>4. Adds(t, k, i, r)
      BY <3>2, <3>3 DEF Adds
    <3>5. g[i] = g[k] \o r
      BY <2>0, <2>1, <3>1
    <3> QED BY <3>4, <3>5
  <2>2. CASE i # k
    <3>1. i - 1 \in 0 .. (i - 1) /\ i - 1 \in k .. Len(t) /\ i \in 1 .. Len(t) /\ k < i
      BY <1>0, <1>1, <2>2
    <3>2. PICK r : Adds(t, k, i - 1, r) /\ g[i - 1] = g[k] \o r
      BY <1>1, <3>1
    <3>3. PICK q : q = Taken(t, r, i)
      OBVIOUS
    <3>4. Adds(t, k, i, q)
      BY <1>0, <3>1, <3>2, <3>3, AddsOne
    <3>5. g[i] = Taken(t, g[i - 1], i)
      BY <3>1 DEF Collects
    <3>6. r \in Seq(Entry) /\ t[i] \in Entry
      BY <3>1, <3>2 DEF Adds
    <3>7. Append(g[k] \o r, t[i]) = g[k] \o Append(r, t[i])
      BY <2>0, <3>6, AppendBehind
    <3>8. g[i] = g[k] \o q
      BY <3>2, <3>3, <3>5, <3>7 DEF Taken
    <3> QED BY <3>4, <3>8
  <2> QED BY <2>1, <2>2
<1>2. \A m \in Nat : (\A l \in 0 .. (m - 1) : l \in W) => m \in W
  BY <1>1
<1> HIDE DEF W
<1>3. Nat \subseteq W
  BY <1>2, StrongInduction
<1>4. \A i \in k .. Len(t) : i \in Nat
  BY <1>0
<1> QED BY <1>3, <1>4 DEF W

\* What was on its way stays in front; what comes behind is each user's once.
LEMMA ResultsGrow ==
  ASSUME NEW s, NEW t, DeferredGrows(s, t), Single(t)
  PROVE  /\ UserResults(s) \in Seq(Entry)
         /\ \E r : Adds(t, Len(s), Len(t), r) /\ UserResults(t) = UserResults(s) \o r
<1>1. s \in Seq(Entry) /\ t \in Seq(Entry) /\ Len(s) \in Nat /\ Len(t) \in Nat /\ Len(s) <= Len(t)
  BY DEF DeferredGrows
<1>2. PICK f : Collects(s, f) /\ UserResults(s) = f[Len(s)]
  BY <1>1, ResultsCollected
<1>3. PICK g : Collects(t, g) /\ UserResults(t) = g[Len(t)]
  BY <1>1, ResultsCollected
<1>4. PICK k : k = Len(s)
  OBVIOUS
<1>5. k \in 0 .. Len(t) /\ Len(t) \in k .. Len(t) /\ k \in 0 .. Len(s)
  BY <1>1, <1>4
<1>6. g[k] = f[k] /\ f[k] \in Seq(Entry)
  <2>1. \A i \in 0 .. Len(s) : g[i] = f[i]
    BY <1>2, <1>3, CollectedPrefix
  <2>2. \A i \in 0 .. Len(s) : f[i] \in Seq(Entry)
    BY <1>1, <1>2, CollectedTyped
  <2>3. k \in 0 .. Len(s)
    BY <1>5
  <2> QED BY <2>1, <2>2, <2>3, Zenon
<1>7. PICK r : Adds(t, k, Len(t), r) /\ g[Len(t)] = g[k] \o r
  <2>1. \A i \in k .. Len(t) : \E r : Adds(t, k, i, r) /\ g[i] = g[k] \o r
    BY <1>1, <1>3, <1>5, CollectedBehind
  <2>2. Len(t) \in k .. Len(t)
    BY <1>5
  <2> QED BY <2>1, <2>2, Zenon
<1> QED BY <1>2, <1>3, <1>4, <1>6, <1>7

IsTail(d, t) == d # <<>> /\ t = Tail(d)
Shifts(t, f, g) == \A i \in 0 .. Len(t) : f[i + 1] = f[1] \o g[i]

LEMMA CollectedTail ==
  ASSUME NEW d \in Seq(Entry), NEW t, IsTail(d, t), NEW f, Collects(d, f), NEW g, Collects(t, g)
  PROVE  Shifts(t, f, g)
<1>0. /\ Len(d) \in Nat /\ Len(t) \in Nat /\ Len(t) = Len(d) - 1 /\ t \in Seq(Entry)
      /\ \A i \in 1 .. Len(t) : t[i] = d[i + 1]
  BY DEF IsTail
<1>1. f[1] \in Seq(Entry)
  BY <1>0, CollectedTyped
<1> DEFINE W == {i \in Nat : i \in 0 .. Len(t) => f[i + 1] = f[1] \o g[i]}
<1>2. ASSUME NEW i \in Nat, \A m \in 0 .. (i - 1) : m \in W, i \in 0 .. Len(t) PROVE f[i + 1] = f[1] \o g[i]
  <2>1. CASE i = 0
    <3>1. g[i] = <<>> /\ f[i + 1] = f[1]
      BY <2>1 DEF Collects
    <3> QED BY <1>1, <3>1
  <2>2. CASE i # 0
    <3>1. i - 1 \in 0 .. (i - 1) /\ i - 1 \in 0 .. Len(t) /\ i \in 1 .. Len(t) /\ i + 1 \in 1 .. Len(d)
          /\ (i - 1) + 1 = i /\ (i + 1) - 1 = i
      BY <1>0, <1>2, <2>2
    <3>2. f[i] = f[1] \o g[i - 1]
      BY <1>2, <3>1
    <3>3. f[i + 1] = Taken(d, f[i], i + 1) /\ g[i] = Taken(t, g[i - 1], i)
      BY <3>1 DEF Collects
    <3>4. t[i] = d[i + 1] /\ t[i] \in Entry
      BY <1>0, <3>1
    <3>5. g[i - 1] \in Seq(Entry)
      BY <1>0, <3>1, CollectedTyped
    <3>6. Append(f[1] \o g[i - 1], t[i]) = f[1] \o Append(g[i - 1], t[i])
      BY <1>1, <3>4, <3>5, AppendBehind
    <3> QED BY <3>2, <3>3, <3>4, <3>6 DEF Taken
  <2> QED BY <2>1, <2>2
<1>3. \A m \in Nat : (\A l \in 0 .. (m - 1) : l \in W) => m \in W
  BY <1>2
<1> HIDE DEF W
<1>4. Nat \subseteq W
  BY <1>3, StrongInduction
<1>5. \A i \in 0 .. Len(t) : i \in Nat
  BY <1>0
<1> QED BY <1>4, <1>5 DEF W, Shifts

\* The first result leaves the queue.
LEMMA ResultsTail ==
  ASSUME NEW d \in Seq(Entry), d # <<>>
  PROVE  /\ UserResults(Tail(d)) \in Seq(Entry) /\ Head(d) = d[1] /\ d[1] \in Entry
         /\ d[1][1] \notin Users => UserResults(Tail(d)) = UserResults(d)
         /\ d[1][1] \in Users => UserResults(d) = <<d[1]>> \o UserResults(Tail(d))
<1>1. PICK t : t = Tail(d)
  OBVIOUS
<1>2. /\ Len(d) \in Nat /\ Len(t) \in Nat /\ Len(d) = Len(t) + 1 /\ t \in Seq(Entry)
      /\ Head(d) = d[1] /\ d[1] \in Entry /\ 1 \in 1 .. Len(d)
  BY <1>1
<1>3. PICK f : Collects(d, f) /\ UserResults(d) = f[Len(d)]
  BY <1>2, ResultsCollected
<1>4. PICK g : Collects(t, g) /\ UserResults(t) = g[Len(t)]
  BY <1>2, ResultsCollected
<1>5. Len(t) \in 0 .. Len(t)
  BY <1>2
<1>6. UserResults(d) = f[1] \o UserResults(t) /\ UserResults(t) \in Seq(Entry)
  <2>0. Shifts(t, f, g)
    <3>1. IsTail(d, t)
      BY <1>1 DEF IsTail
    <3> QED BY <1>3, <1>4, <3>1, CollectedTail
  <2>1. f[Len(t) + 1] = f[1] \o g[Len(t)]
    BY <1>5, <2>0 DEF Shifts
  <2>2. g[Len(t)] \in Seq(Entry)
    BY <1>2, <1>4, <1>5, CollectedTyped
  <2>3. Len(d) = Len(t) + 1
    BY <1>2
  <2> QED BY <1>3, <1>4, <2>1, <2>2, <2>3, Zenon
<1>7. f[1] = Taken(d, <<>>, 1)
  <2>1. f[1] = Taken(d, f[1 - 1], 1) /\ f[0] = <<>>
    BY <1>2, <1>3 DEF Collects
  <2>2. 1 - 1 = 0
    OBVIOUS
  <2> QED BY <2>1, <2>2
<1>8. CASE d[1][1] \notin Users
  BY <1>1, <1>2, <1>6, <1>7, <1>8 DEF Taken
<1>9. CASE d[1][1] \in Users
  <2>1. f[1] = <<d[1]>>
    BY <1>7, <1>9 DEF Taken
  <2> QED BY <1>1, <1>2, <1>6, <1>9, <2>1
<1> QED BY <1>8, <1>9

-----------------------------------------------------------------------------
(* The client keeps its promise.                                           *)

AskedOf(b) == {x \in Users : b.hnd[x].current_req}

Settling(A, s, B, t) ==
  \E R \in SUBSET A : /\ R # {} /\ B = A \ R
                      /\ \E r \in [1 .. Cardinality(R) -> R \X Errors] :
                            {r[i][1] : i \in DOMAIN r} = R /\ t = s \o r

\* A sequence that names every member of R once.
LEMMA NamesAll ==
  ASSUME NEW R, NEW r \in Seq(Entry), \A j \in 1 .. Len(r) : r[j][1] \in R,
         \A x \in R : \E j \in 1 .. Len(r) : r[j][1] = x,
         \A j, l \in 1 .. Len(r) : r[j][1] = r[l][1] => j = l
  PROVE  /\ r \in [1 .. Cardinality(R) -> R \X Errors]
         /\ {r[i][1] : i \in DOMAIN r} = R
<1>1. PICK n \in Nat : n = Len(r)
  OBVIOUS
<1>2. DOMAIN r = 1 .. n /\ \A j \in 1 .. n : r[j] \in Entry /\ r[j] = <<r[j][1], r[j][2]>> /\ r[j][2] \in Errors
  BY <1>1 DEF Entry
<1>3. PICK h : h = [j \in 1 .. n |-> r[j][1]]
  OBVIOUS
<1>4. h \in Bijection(1 .. n, R)
  <2>1. h \in [1 .. n -> R]
    BY <1>1, <1>3
  <2>2. h \in Injection(1 .. n, R)
    BY <1>1, <1>3, <2>1 DEF Injection, IsInjective
  <2>3. h \in Surjection(1 .. n, R)
    BY <1>1, <1>3, <2>1 DEF Surjection
  <2> QED BY <2>2, <2>3 DEF Bijection
<1>5. IsFiniteSet(1 .. n) /\ Cardinality(1 .. n) = n
  BY FS_Interval
<1>6. Cardinality(R) = n
  BY <1>4, <1>5, FS_Bijection DEF ExistsBijection
<1>7. r \in [1 .. n -> R \X Errors]
  <2>1. ASSUME NEW j \in 1 .. n PROVE r[j] \in R \X Errors
    <3>1. PICK a : a = r[j][1]
      OBVIOUS
    <3>2. PICK e : e = r[j][2]
      OBVIOUS
    <3>3. r[j] = <<a, e>> /\ a \in R /\ e \in Errors
      BY <1>1, <1>2, <3>1, <3>2
    <3>4. <<a, e>> \in R \X Errors
      BY <3>3
    <3> QED BY <3>3, <3>4
  <2> QED BY <1>2, <2>1
<1>8. {r[i][1] : i \in DOMAIN r} = R
  BY <1>1, <1>2
<1> QED BY <1>6, <1>7, <1>8

LEMMA FollowsSettles ==
  ASSUME NEW b, Tidy(b), NEW c, Tidy(c), Follows(b, c)
  PROVE  /\ c.told = b.told
         /\ \/ AskedOf(c) = AskedOf(b) /\ UserResults(c.deferred) = UserResults(b.deferred)
            \/ Settling(AskedOf(b), UserResults(b.deferred), AskedOf(c), UserResults(c.deferred))
<1>1. PICK s : s = b.deferred
  OBVIOUS
<1>2. PICK t : t = c.deferred
  OBVIOUS
<1>3. DeferredGrows(s, t) /\ Single(t)
  BY <1>1, <1>2 DEF Follows, Tidy, Single
<1>4. UserResults(s) \in Seq(Entry)
  BY <1>3, ResultsGrow
<1>5. PICK r : Adds(t, Len(s), Len(t), r) /\ UserResults(t) = UserResults(s) \o r
  BY <1>3, ResultsGrow
<1>6. /\ Len(s) \in Nat /\ Len(t) \in Nat /\ Len(s) <= Len(t)
      /\ \A i \in 1 .. Len(s) : t[i] = s[i] /\ i \in 1 .. Len(t)
      /\ \A m \in (Len(s) + 1) .. Len(t) : m \in 1 .. Len(t) /\ m \notin 1 .. Len(s)
      /\ \A m \in 1 .. Len(t) : m \in 1 .. Len(s) \/ m \in (Len(s) + 1) .. Len(t)
  BY <1>3 DEF DeferredGrows
<1>7. PICK R : R = AskedOf(b) \ AskedOf(c)
  OBVIOUS
<1>8. AskedOf(c) \subseteq AskedOf(b)
  BY DEF AskedOf, Follows
<1>9. R \in SUBSET AskedOf(b) /\ AskedOf(c) = AskedOf(b) \ R
  BY <1>7, <1>8
<1>10. ASSUME NEW j \in 1 .. Len(r) PROVE r[j][1] \in R
  <2>1. r[j][1] \in Users /\ \E m \in (Len(s) + 1) .. Len(t) : r[j] = t[m]
    BY <1>5 DEF Adds
  <2>2. PICK m \in (Len(s) + 1) .. Len(t) : r[j] = t[m]
    BY <2>1
  <2>3. PICK x \in Users : x = r[j][1]
    BY <2>1
  <2>4. HasResult(c, x)
    BY <1>2, <1>6, <2>2, <2>3 DEF HasResult
  <2>5. ~HasResult(b, x)
    <3>1. ASSUME NEW i \in 1 .. Len(s), s[i][1] = x PROVE FALSE
      <4>1. t[i][1] = t[m][1] /\ i \in 1 .. Len(t) /\ m \in 1 .. Len(t) /\ i # m
        BY <1>6, <2>2, <2>3, <3>1
      <4> QED BY <1>3, <4>1 DEF Single
    <3> QED BY <1>1, <3>1 DEF HasResult
  <2>6. b.hnd[x].current_req /\ ~c.hnd[x].current_req
    BY <2>4, <2>5 DEF Follows, Tidy
  <2> QED BY <1>7, <2>3, <2>6 DEF AskedOf
<1>11. ASSUME NEW x \in R PROVE \E j \in 1 .. Len(r) : r[j][1] = x
  <2>1. x \in Users /\ b.hnd[x].current_req /\ ~c.hnd[x].current_req
    BY <1>7 DEF AskedOf
  <2>2. HasResult(c, x) /\ ~HasResult(b, x)
    BY <2>1 DEF Follows, Tidy
  <2>3. PICK m \in 1 .. Len(t) : t[m][1] = x
    BY <1>2, <2>2 DEF HasResult
  <2>4. m \notin 1 .. Len(s)
    BY <1>1, <1>6, <2>2, <2>3 DEF HasResult
  <2>5. m \in (Len(s) + 1) .. Len(t) /\ t[m][1] \in Users
    BY <1>6, <2>1, <2>3, <2>4
  <2>6. \E j \in 1 .. Len(r) : r[j] = t[m]
    BY <1>5, <2>5 DEF Adds
  <2> QED BY <2>3, <2>6
<1>12. r \in Seq(Entry) /\ \A j, l \in 1 .. Len(r) : r[j][1] = r[l][1] => j = l
  BY <1>5 DEF Adds
<1>13. c.told = b.told
  BY DEF Follows
<1>14. CASE R = {}
  <2>1. 1 .. Len(r) = {}
    BY <1>10, <1>14
  <2>2. r = <<>>
    BY <1>12, <2>1
  <2>3. UserResults(t) = UserResults(s)
    BY <1>4, <1>5, <2>2
  <2> QED BY <1>1, <1>2, <1>9, <1>13, <1>14, <2>3
<1>15. CASE R # {}
  <2>1. r \in [1 .. Cardinality(R) -> R \X Errors] /\ {r[i][1] : i \in DOMAIN r} = R
    BY <1>10, <1>11, <1>12, NamesAll
  <2> QED BY <1>1, <1>2, <1>5, <1>9, <1>13, <1>15, <2>1 DEF Settling
<1> QED BY <1>14, <1>15

\* What leaves the queue.
LEMMA DropsLeave ==
  ASSUME NEW b, Tidy(b), NEW d, Drops(b, d)
  PROVE  /\ d.told = b.told /\ AskedOf(d) = AskedOf(b) /\ Tidy(d)
         /\ UserResults(d.deferred) = UserResults(b.deferred)
<1>1. b.deferred \in Seq(Entry) /\ b.deferred # <<>> /\ d.deferred = Tail(b.deferred)
      /\ b.deferred \in Seq(Handles \X Errors)
  BY DEF Tidy, Drops, Entry
<1>2. UserResults(d.deferred) = UserResults(b.deferred)
  BY <1>1, ResultsTail DEF Drops
<1>3. AskedOf(d) = AskedOf(b)
  BY DEF Drops, SameAsked, AskedOf
<1>4. PICK x : x = Head(b.deferred)[1]
  OBVIOUS
<1>5. Shifted(b, d, x)
  BY <1>1, <1>4, TailShifts DEF Tidy
<1>6. Tidy(d)
  BY <1>5 DEF Tidy, Shifted, Drops, SameAsked, Entry
<1> QED BY <1>2, <1>3, <1>6 DEF Drops

LEMMA SameCount ==
  \A X : Promise!Cardinality(X) = Cardinality(X)
BY DEF Promise!Cardinality, Cardinality

Stays(b, c) == AskedOf(c) = AskedOf(b) /\ UserResults(c.deferred) = UserResults(b.deferred) /\ c.told = b.told

LEMMA StaysStutters ==
  ASSUME Stays(base, base')
  PROVE  UNCHANGED Promise!rvars
BY DEF Stays, Promise!rvars, AskedOf

LEMMA SettlingSettles ==
  ASSUME Settling(AskedOf(base), UserResults(base.deferred), AskedOf(base'), UserResults(base'.deferred)),
         base'.told = base.told
  PROVE  Promise!Next
<1>1. PICK R \in SUBSET AskedOf(base) :
         /\ R # {} /\ AskedOf(base') = AskedOf(base) \ R
         /\ \E r \in [1 .. Cardinality(R) -> R \X Errors] :
               /\ {r[i][1] : i \in DOMAIN r} = R
               /\ UserResults(base'.deferred) = UserResults(base.deferred) \o r
  BY DEF Settling
<1>2. Promise!Settle(R)
  BY <1>1, SameCount, Zenon DEF Promise!Settle, AskedOf
<1> QED BY <1>1, <1>2, Zenon DEF Promise!Next, AskedOf

LEMMA FollowsPromises ==
  ASSUME NEW b, AskedOf(b) = AskedOf(base), UserResults(b.deferred) = UserResults(base.deferred),
         b.told = base.told, Tidy(b), Tidy(base'), Follows(b, base')
  PROVE  [Promise!Next]_(Promise!rvars)
<1>1. /\ base'.told = b.told
      /\ \/ AskedOf(base') = AskedOf(b) /\ UserResults(base'.deferred) = UserResults(b.deferred)
         \/ Settling(AskedOf(b), UserResults(b.deferred), AskedOf(base'), UserResults(base'.deferred))
  BY FollowsSettles
<1>2. CASE AskedOf(base') = AskedOf(b) /\ UserResults(base'.deferred) = UserResults(b.deferred)
  <2>1. Stays(base, base')
    BY <1>1, <1>2 DEF Stays
  <2> QED BY <2>1, StaysStutters
<1>3. CASE Settling(AskedOf(b), UserResults(b.deferred), AskedOf(base'), UserResults(base'.deferred))
  <2>1. Settling(AskedOf(base), UserResults(base.deferred), AskedOf(base'), UserResults(base'.deferred))
    BY <1>3
  <2> QED BY <1>1, <2>1, SettlingSettles
<1> QED BY <1>1, <1>2, <1>3

\* No result of a user without an entry.
LEMMA UserResultsAre ==
  ASSUME NEW d \in Seq(Entry)
  PROVE  /\ UserResults(d) \in Seq(Entry)
         /\ \A j \in 1 .. Len(UserResults(d)) : \E m \in 1 .. Len(d) : UserResults(d)[j] = d[m]
<1>1. Len(d) \in Nat /\ 0 \in 0 .. Len(d) /\ Len(d) \in 0 .. Len(d) /\ 0 + 1 = 1
  OBVIOUS
<1>2. PICK f : Collects(d, f) /\ UserResults(d) = f[Len(d)]
  BY <1>1, ResultsCollected
<1>3. f[Len(d)] \in Seq(Entry)
  BY <1>1, <1>2, CollectedTyped
<1>4. \A i \in 0 .. Len(d) : \A j \in 1 .. Len(f[i]) : \E m \in 1 .. Len(d) : f[i][j] = d[m]
  <2> DEFINE W == {i \in Nat : i <= Len(d) => \A j \in 1 .. Len(f[i]) : \E m \in 1 .. Len(d) : f[i][j] = d[m]}
  <2>1. ASSUME NEW i \in Nat, \A k \in 0 .. (i - 1) : k \in W, i <= Len(d), NEW j \in 1 .. Len(f[i])
        PROVE  \E m \in 1 .. Len(d) : f[i][j] = d[m]
    <3>1. CASE i = 0
      <4>1. Len(f[i]) = 0
        BY <1>2, <3>1 DEF Collects
      <4> QED BY <4>1
    <3>2. CASE i # 0
      <4>1. i - 1 \in 0 .. (i - 1) /\ i - 1 <= Len(d) /\ i \in 1 .. Len(d) /\ i - 1 \in 0 .. Len(d)
        BY <2>1, <3>2
      <4>2. PICK u : u = f[i - 1]
        OBVIOUS
      <4>3. PICK v : v = f[i]
        OBVIOUS
      <4>4. u \in Seq(Entry) /\ d[i] \in Entry
        BY <1>2, <4>1, <4>2, CollectedTyped
      <4>5. v = Taken(d, u, i)
        BY <1>2, <4>1, <4>2, <4>3 DEF Collects
      <4>6. \A k \in 1 .. Len(u) : \E m \in 1 .. Len(d) : u[k] = d[m]
        BY <2>1, <4>1, <4>2
      <4>7. j \in 1 .. Len(v)
        BY <2>1, <4>3
      <4>8. \E m \in 1 .. Len(d) : v[j] = d[m]
        <5>1. CASE d[i][1] \in Users
          <6>1. v = Append(u, d[i])
            BY <4>5, <5>1 DEF Taken
          <6>2. (j \in 1 .. Len(u) /\ v[j] = u[j]) \/ v[j] = d[i]
            BY <4>4, <4>7, <6>1
          <6> QED BY <4>1, <4>6, <6>2
        <5>2. CASE d[i][1] \notin Users
          BY <4>5, <4>6, <4>7, <5>2 DEF Taken
        <5> QED BY <5>1, <5>2
      <4> QED BY <4>3, <4>8
    <3> QED BY <3>1, <3>2
  <2>2. \A i \in Nat : (\A k \in 0 .. (i - 1) : k \in W) => i \in W
    BY <2>1
  <2> HIDE DEF W
  <2>3. Nat \subseteq W
    BY <2>2, StrongInduction
  <2>4. \A i \in 0 .. Len(d) : i \in Nat /\ i <= Len(d)
    BY <1>1
  <2> QED BY <2>3, <2>4 DEF W
<1> QED BY <1>1, <1>2, <1>3, <1>4

LEMMA AskingAsks ==
  ASSUME Tidy(base), NEW x \in Users, Asking(base, base', x)
  PROVE  Promise!Next
<1>1. x \notin Promise!SettledRequests
  <2>1. PICK u : u = UserResults(base.deferred)
    OBVIOUS
  <2>2. base.deferred \in Seq(Entry)
    BY DEF Tidy
  <2>3. u \in Seq(Entry) /\ \A j \in 1 .. Len(u) : \E m \in 1 .. Len(base.deferred) : u[j] = base.deferred[m]
    BY <2>1, <2>2, UserResultsAre
  <2>4. ASSUME NEW j \in DOMAIN u, u[j][1] = x PROVE FALSE
    <3>1. j \in 1 .. Len(u)
      BY <2>3
    <3> QED BY <2>3, <2>4, <3>1 DEF Asking, HasResult
  <2>5. Promise!SettledRequests = {u[j][1] : j \in DOMAIN u}
    BY <2>1, Zenon DEF Promise!SettledRequests
  <2> QED BY <2>4, <2>5
<1>2. x \in Promise!Unused
  BY <1>1 DEF Promise!Unused, Asking
<1>3. {y \in Users : base'.hnd[y].current_req} = {y \in Users : base.hnd[y].current_req} \cup {x}
  BY DEF Asking
<1>4. UserResults(base'.deferred) = UserResults(base.deferred) /\ base'.told = base.told
  BY DEF Asking
<1>5. Promise!Ask(x)
  BY <1>2, <1>3, <1>4 DEF Promise!Ask
<1> QED BY <1>5 DEF Promise!Next

LEMMA TellsTell ==
  ASSUME Tidy(base), NEW x \in Users, Tells(base, base', x)
  PROVE  Promise!Next
<1>1. PICK d : d = base.deferred
  OBVIOUS
<1>2. d \in Seq(Entry) /\ d # <<>> /\ base'.deferred = Tail(d) /\ x = Head(d)[1]
  BY <1>1 DEF Tidy, Tells
<1>3. PICK t : t = UserResults(Tail(d))
  OBVIOUS
<1>4. t \in Seq(Entry) /\ Head(d) = d[1] /\ d[1] \in Entry
      /\ (d[1][1] \in Users => UserResults(d) = <<d[1]>> \o t)
  BY <1>2, <1>3, ResultsTail
<1>5. PICK u : u = UserResults(d)
  OBVIOUS
<1>6. u = <<d[1]>> \o t
  BY <1>2, <1>4, <1>5
<1>7. u # <<>> /\ u[1] = d[1] /\ Tail(u) = t
  BY <1>4, <1>6
<1>8. u[1][1] = x
  BY <1>2, <1>4, <1>7
<1>9. UserResults(base.deferred) = u /\ UserResults(base'.deferred) = Tail(u)
  BY <1>1, <1>2, <1>3, <1>5, <1>7
<1>10. {y \in Users : base'.hnd[y].current_req} = {y \in Users : base.hnd[y].current_req}
  BY DEF Tells, SameAsked
<1>11. Promise!Tell
  BY <1>7, <1>8, <1>9, <1>10 DEF Promise!Tell, Tells
<1> QED BY <1>11 DEF Promise!Next

\* Each step of the client is a step of its promise, or none.
LEMMA StepIsPromised ==
  ASSUME PromiseStep(base, base'), Tidy(base)
  PROVE  [Promise!Next]_(Promise!rvars)
<1>1. CASE Tidy(base') /\ Follows(base, base')
  BY <1>1, FollowsPromises
<1>2. CASE Tidy(base') /\ \E d : Drops(base, d) /\ Follows(d, base')
  <2>1. PICK d : Drops(base, d) /\ Follows(d, base')
    BY <1>2
  <2>2. d.told = base.told /\ AskedOf(d) = AskedOf(base) /\ Tidy(d)
        /\ UserResults(d.deferred) = UserResults(base.deferred)
    BY <2>1, DropsLeave
  <2> QED BY <1>2, <2>1, <2>2, FollowsPromises
<1>3. CASE SameView(base, base')
  <2>1. Stays(base, base')
    BY <1>3 DEF Stays, SameView, AskedOf
  <2> QED BY <2>1, StaysStutters
<1>4. CASE Drops(base, base')
  <2>1. Stays(base, base')
    BY <1>4, DropsLeave DEF Stays
  <2> QED BY <2>1, StaysStutters
<1>5. CASE Abandons(base, base')
  <2>1. {x \in Users : base'.hnd[x].current_req} = {}
    BY <1>5 DEF Abandons
  <2>2. UserResults(base'.deferred) = UserResults(base.deferred) /\ base'.told = base.told
    BY <1>5 DEF Abandons
  <2>3. Promise!Abandon
    BY <2>1, <2>2 DEF Promise!Abandon
  <2> QED BY <2>3 DEF Promise!Next
<1>6. CASE \E x \in Users : Asking(base, base', x) \/ Tells(base, base', x)
  BY <1>6, AskingAsks, TellsTell
<1> QED BY <1>1, <1>2, <1>3, <1>4, <1>5, <1>6 DEF PromiseStep

LEMMA InitPromised == Init => Promise!Init
<1> SUFFICES ASSUME Init PROVE Promise!Init
  OBVIOUS
<1>1. PICK sc \in Scenarios : InitFields(base, sc)
  BY InitHasFields
<1>2. base.deferred = <<>> /\ base.told = {} /\ base.hnd = [x \in Handles |-> NewHandle]
  BY <1>1 DEF InitFields
<1>3. {x \in Users : base.hnd[x].current_req} = {}
  BY <1>2, NewHandleFacts, HandleKinds
<1>4. UserResults(base.deferred) = <<>>
  <2>1. PICK d : d = base.deferred
    OBVIOUS
  <2>2. d = <<>> /\ d \in Seq(Entry) /\ Len(d) = 0
    BY <1>2, <2>1
  <2>3. PICK f : Collects(d, f) /\ UserResults(d) = f[Len(d)]
    BY <2>2, ResultsCollected
  <2> QED BY <2>1, <2>2, <2>3 DEF Collects
<1> QED BY <1>2, <1>3, <1>4 DEF Promise!Init

LEMMA TidyUnlessDangling ==
  ASSUME IInv, ~base.dangling
  PROVE  Tidy(base)
<1>1. Pend(base, {})
  BY GoodCore DEF IInv, InUse, Gone
<1> QED BY <1>1, TidyWhenPend

LEMMA DanglingStops ==
  ASSUME Next
  PROVE  ~base.dangling
BY DEF Next, Running, Resolve, Cancel, evdns_request_timeout_callback, nameserver_prod_callback, Writable,
       nameserver_read, ReadError, Lose, Configure, evdns_base_resume, reply_run_callback

LEMMA StepPromised == IInv /\ [Next]_base => [Promise!Next]_(Promise!rvars)
<1> SUFFICES ASSUME IInv, [Next]_base PROVE [Promise!Next]_(Promise!rvars)
  OBVIOUS
<1>1. CASE Next
  <2>1. Tidy(base)
    BY <1>1, DanglingStops, TidyUnlessDangling
  <2>2. PromiseStep(base, base')
    BY StepKeepsIInv
  <2> QED BY <2>1, <2>2, StepIsPromised
<1>2. CASE UNCHANGED base
  <2>1. Stays(base, base')
    BY <1>2 DEF Stays
  <2> QED BY <2>1, StaysStutters
<1> QED BY <1>1, <1>2

\* What a caller of evdns.c is promised (Resolver): a request ends once, with one result
\* or because the base is freed without telling, and its callback runs once, behind those
\* of the requests that ended before it.  reply_schedule_callback and request_finished end
\* it, whether an answer, a timeout, evdns_cancel_request or evdns_base_free is the
\* reason, and reply_run_callback takes the results in their order.
THEOREM ClientKeepsPromise == Spec => KeepsPromise
<1>1. Init => Promise!Init
  BY InitPromised
<1>2. IInv /\ [Next]_base => [Promise!Next]_(Promise!rvars)
  BY StepPromised
<1> QED BY <1>1, <1>2, ClientIsSound, PTL DEF Spec, KeepsPromise, Promise!Spec
=============================================================================
