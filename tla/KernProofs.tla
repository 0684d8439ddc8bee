----------------------------- MODULE KernProofs -----------------------------
(***************************************************************************)
(* Proofs about the parts of MCKern, for every value of the constants:     *)
(* listeners, listeners of the Windows port, and lock debugging.           *)
(***************************************************************************)
EXTENDS MCKern, FiniteSetTheorems, TLAPS

-----------------------------------------------------------------------------
(* Listeners.                                                              *)

LnFields == {"s", "alive", "refcnt", "cb", "errorcb", "enabled", "added", "fdopen", "lock", "at", "other", "calls",
             "backlog", "arrived", "given", "closed", "errors", "freecalled", "uaf"}

LnBools ==
  /\ ln.alive \in BOOLEAN /\ ln.cb \in BOOLEAN /\ ln.enabled \in BOOLEAN /\ ln.added \in BOOLEAN
  /\ ln.freecalled \in BOOLEAN /\ ln.uaf \in BOOLEAN

LnInts ==
  ln.refcnt \in Int /\ ln.backlog \in Int /\ ln.arrived \in Int /\ ln.given \in Int /\ ln.closed \in Int

LnNames ==
  /\ DOMAIN ln = LnFields
  /\ ln.lock \in {"none", "loop", "other"} /\ ln.at \in {"idle", "enter", "accept", "cb", "errorcb"}
  /\ ln.other \in L!Ops \cup {"none"}

LnTyped == LnBools /\ LnInts /\ LnNames

\* The loop's thread holds the lock while it accepts, the other thread while it waits
\* in event_del; neither lets the listener change under the other.
LnLocked ==
  /\ ln.lock = "loop" <=> ln.at = "accept"
  /\ ln.lock = "other" <=> ln.other # "none"
  /\ ln.at \in {"enter", "accept"} => ln.enabled /\ ~ln.freecalled
  /\ ln.other # "none" => ~ln.freecalled

LnCalm ==
  /\ ~ln.alive => ln.refcnt = 0
  /\ ln.freecalled => ~ln.cb
  /\ ln.added => ln.enabled /\ ln.alive

LnRest == LnLocked /\ L!FreedInTime /\ LnCalm /\ L!ConnectionsKept /\ L!EnabledListens

LnSound == LnTyped /\ LnRest

\* Only the fields of C differ.
LnOnly(h, g, C) ==
  /\ DOMAIN g = LnFields
  /\ ("s" \notin C => g.s = h.s) /\ ("alive" \notin C => g.alive = h.alive)
  /\ ("refcnt" \notin C => g.refcnt = h.refcnt) /\ ("cb" \notin C => g.cb = h.cb)
  /\ ("errorcb" \notin C => g.errorcb = h.errorcb) /\ ("enabled" \notin C => g.enabled = h.enabled)
  /\ ("added" \notin C => g.added = h.added) /\ ("fdopen" \notin C => g.fdopen = h.fdopen)
  /\ ("lock" \notin C => g.lock = h.lock) /\ ("at" \notin C => g.at = h.at)
  /\ ("other" \notin C => g.other = h.other) /\ ("backlog" \notin C => g.backlog = h.backlog)
  /\ ("arrived" \notin C => g.arrived = h.arrived) /\ ("given" \notin C => g.given = h.given)
  /\ ("closed" \notin C => g.closed = h.closed) /\ ("freecalled" \notin C => g.freecalled = h.freecalled)
  /\ ("uaf" \notin C => g.uaf = h.uaf)

LEMMA LnArrives ==
  ASSUME LnSound, L!Arrives
  PROVE  LnSound'
<1>1. LnTyped'
  BY DEF L!Arrives, LnSound, LnTyped, LnBools, LnInts, LnNames, LnFields
<1>2. LnRest'
  BY DEF L!Arrives, LnSound, LnTyped, LnBools, LnInts, LnNames, LnFields, LnRest, LnLocked,
     LnCalm, L!FreedInTime, L!ConnectionsKept, L!EnabledListens
<1> QED BY <1>1, <1>2 DEF LnSound

LEMMA LnActivated ==
  ASSUME LnSound, L!Activated
  PROVE  LnSound'
<1>1. LnTyped'
  BY DEF L!Activated, LnSound, LnTyped, LnBools, LnInts, LnNames, LnFields
<1>2. LnRest'
  BY DEF L!Activated, LnSound, LnTyped, LnBools, LnInts, LnNames, LnFields, LnRest, LnLocked,
     LnCalm, L!FreedInTime, L!ConnectionsKept, L!EnabledListens
<1> QED BY <1>1, <1>2 DEF LnSound

LEMMA LnReadCb ==
  ASSUME LnSound, L!listener_read_cb
  PROVE  LnSound'
<1>1. LnTyped'
  BY DEF L!listener_read_cb, LnSound, LnTyped, LnBools, LnInts, LnNames, LnFields
<1>2. LnRest'
  BY DEF L!listener_read_cb, LnSound, LnTyped, LnBools, LnInts, LnNames, LnFields, LnRest,
     LnLocked, LnCalm, L!FreedInTime, L!ConnectionsKept, L!EnabledListens
<1> QED BY <1>1, <1>2 DEF LnSound

LEMMA LnAccepts ==
  ASSUME LnSound, L!Accepts
  PROVE  LnSound'
<1>1. PICK h : h = [ln EXCEPT !.backlog = @ - 1]
  OBVIOUS
<1>2. LnOnly(ln, h, {"backlog"}) /\ h.backlog = ln.backlog - 1
  BY <1>1 DEF LnSound, LnTyped, LnBools, LnInts, LnNames, LnOnly, LnFields
<1>3. \/ ln' = [h EXCEPT !.closed = @ + 1]
      \/ ~h.cb /\ ln' = [h EXCEPT !.closed = @ + 1, !.lock = "none", !.at = "idle"]
      \/ h.cb /\ ln' = [h EXCEPT !.refcnt = @ + 1, !.lock = "none", !.at = "cb", !.given = @ + 1]
  BY <1>1 DEF L!Accepts
<1>4. CASE ln' = [h EXCEPT !.closed = @ + 1]
  <2>1. LnOnly(ln, ln', {"backlog", "closed"}) /\ ln'.backlog = ln.backlog - 1 /\ ln'.closed = ln.closed + 1
    BY <1>2, <1>4 DEF LnOnly, LnFields
  <2>z. LnSound'
    <3>1. LnTyped'
      <4>1. LnBools'
        BY <2>1 DEF LnSound, LnRest, LnOnly, LnTyped, LnBools
      <4>2. LnInts'
        BY <2>1 DEF LnSound, LnRest, LnOnly, LnTyped, LnInts
      <4>3. LnNames'
        BY <2>1 DEF LnSound, LnRest, LnOnly, LnTyped, LnNames
      <4> QED BY <4>1, <4>2, <4>3 DEF LnTyped
    <3>2. LnLocked'
      BY <2>1 DEF LnSound, LnRest, LnTyped, LnBools, LnInts, LnNames, LnOnly, LnLocked, LnCalm,
         L!FreedInTime
    <3>3. L!FreedInTime'
      BY <2>1 DEF LnSound, LnRest, LnTyped, LnBools, LnInts, LnNames, LnOnly, LnLocked, LnCalm,
         L!FreedInTime
    <3>4. LnCalm'
      BY <2>1 DEF LnSound, LnRest, LnTyped, LnBools, LnInts, LnNames, LnOnly, LnLocked, LnCalm,
         L!FreedInTime
    <3>5. L!ConnectionsKept'
      BY <2>1 DEF LnSound, LnRest, LnTyped, LnBools, LnInts, LnNames, LnOnly, LnLocked, LnCalm,
         L!FreedInTime, L!ConnectionsKept
    <3>5b. L!EnabledListens'
      BY <2>1 DEF LnSound, LnRest, LnTyped, LnBools, LnNames, LnOnly, LnLocked, LnCalm,
         L!FreedInTime, L!EnabledListens
    <3> QED BY <3>1, <3>2, <3>3, <3>4, <3>5, <3>5b DEF LnSound, LnRest
  <2> QED BY <2>z
<1>5. CASE ~h.cb /\ ln' = [h EXCEPT !.closed = @ + 1, !.lock = "none", !.at = "idle"]
  <2>1. /\ LnOnly(ln, ln', {"backlog", "closed", "lock", "at"}) /\ ln'.backlog = ln.backlog - 1
        /\ ln'.closed = ln.closed + 1 /\ ln'.lock = "none" /\ ln'.at = "idle"
    BY <1>2, <1>5 DEF LnOnly, LnFields
  <2>z. LnSound'
    <3>1. LnTyped'
      <4>1. LnBools'
        BY <2>1, L!Accepts DEF L!Accepts, LnSound, LnRest, LnOnly, LnTyped, LnBools
      <4>2. LnInts'
        BY <2>1, L!Accepts DEF L!Accepts, LnSound, LnRest, LnOnly, LnTyped, LnInts
      <4>3. LnNames'
        BY <2>1, L!Accepts DEF L!Accepts, LnSound, LnRest, LnOnly, LnTyped, LnNames
      <4> QED BY <4>1, <4>2, <4>3 DEF LnTyped
    <3>2. LnLocked'
      BY <2>1, L!Accepts DEF L!Accepts, LnSound, LnRest, LnTyped, LnBools, LnInts, LnNames,
         LnOnly, LnLocked, LnCalm, L!FreedInTime
    <3>3. L!FreedInTime'
      BY <2>1, L!Accepts DEF L!Accepts, LnSound, LnRest, LnTyped, LnBools, LnInts, LnNames,
         LnOnly, LnLocked, LnCalm, L!FreedInTime
    <3>4. LnCalm'
      BY <2>1, L!Accepts DEF L!Accepts, LnSound, LnRest, LnTyped, LnBools, LnInts, LnNames,
         LnOnly, LnLocked, LnCalm, L!FreedInTime
    <3>5. L!ConnectionsKept'
      BY <2>1, L!Accepts DEF L!Accepts, LnSound, LnRest, LnTyped, LnBools, LnInts, LnNames,
         LnOnly, LnLocked, LnCalm, L!FreedInTime, L!ConnectionsKept
    <3>5b. L!EnabledListens'
      BY <2>1, L!Accepts DEF L!Accepts, LnSound, LnRest, LnTyped, LnBools, LnNames, LnOnly,
         LnLocked, LnCalm, L!FreedInTime, L!EnabledListens
    <3> QED BY <3>1, <3>2, <3>3, <3>4, <3>5, <3>5b DEF LnSound, LnRest
  <2> QED BY <2>z
<1>6. CASE h.cb /\ ln' = [h EXCEPT !.refcnt = @ + 1, !.lock = "none", !.at = "cb", !.given = @ + 1]
  <2>1. /\ LnOnly(ln, ln', {"backlog", "given", "lock", "at", "refcnt"}) /\ ln'.backlog = ln.backlog - 1
        /\ ln'.given = ln.given + 1 /\ ln'.lock = "none" /\ ln'.at = "cb" /\ ln'.refcnt = ln.refcnt + 1
    BY <1>2, <1>6 DEF LnOnly, LnFields
  <2>2. ln.at = "accept"
    BY DEF L!Accepts
  <2>z. LnSound'
    <3>1. LnTyped'
      <4>1. LnBools'
        BY <2>1, <2>2 DEF LnSound, LnRest, LnOnly, LnTyped, LnBools
      <4>2. LnInts'
        BY <2>1, <2>2 DEF LnSound, LnRest, LnOnly, LnTyped, LnInts
      <4>3. LnNames'
        BY <2>1, <2>2 DEF LnSound, LnRest, LnOnly, LnTyped, LnNames
      <4> QED BY <4>1, <4>2, <4>3 DEF LnTyped
    <3>2. LnLocked'
      BY <2>1, <2>2 DEF LnSound, LnRest, LnTyped, LnBools, LnInts, LnNames, LnOnly, LnLocked,
         LnCalm, L!FreedInTime
    <3>3. L!FreedInTime'
      BY <2>1, <2>2 DEF LnSound, LnRest, LnTyped, LnBools, LnInts, LnNames, LnOnly, LnLocked,
         LnCalm, L!FreedInTime
    <3>4. LnCalm'
      BY <2>1, <2>2 DEF LnSound, LnRest, LnTyped, LnBools, LnInts, LnNames, LnOnly, LnLocked,
         LnCalm, L!FreedInTime
    <3>5. L!ConnectionsKept'
      BY <2>1, <2>2 DEF LnSound, LnRest, LnTyped, LnBools, LnInts, LnNames, LnOnly, LnLocked,
         LnCalm, L!FreedInTime, L!ConnectionsKept
    <3>5b. L!EnabledListens'
      BY <2>1, <2>2 DEF LnSound, LnRest, LnTyped, LnBools, LnNames, LnOnly, LnLocked, LnCalm,
         L!FreedInTime, L!EnabledListens
    <3> QED BY <3>1, <3>2, <3>3, <3>4, <3>5, <3>5b DEF LnSound, LnRest
  <2> QED BY <2>z
<1> QED BY <1>3, <1>4, <1>5, <1>6

\* listener_decref_and_unlock: the last reference takes the listener with it.
LnReleased(h, g, C) ==
  /\ LnOnly(h, g, C \cup {"refcnt", "added", "alive", "fdopen"})
  /\ IF h.refcnt = 1 THEN g.refcnt = 0 /\ g.added = FALSE /\ g.alive = FALSE
     ELSE g.refcnt = h.refcnt - 1 /\ g.added = h.added /\ g.alive = h.alive

LEMMA LnDecref ==
  ASSUME NEW h, DOMAIN h = LnFields, NEW g, g = L!listener_decref_and_unlock(h)
  PROVE  LnReleased(h, g, {})
<1>1. CASE h.refcnt = 1
  <2>1. PICK k : k = [h EXCEPT !.refcnt = 0]
    OBVIOUS
  <2>2. LnOnly(h, k, {"refcnt"}) /\ k.refcnt = 0
    BY <2>1 DEF LnOnly, LnFields
  <2>3. g = [k EXCEPT !.added = FALSE, !.alive = FALSE, !.fdopen = IF k.s.close_on_free THEN FALSE ELSE @]
    BY <1>1, <2>1 DEF L!listener_decref_and_unlock, L!event_listener_destroy
  <2>4. LnOnly(k, g, {"added", "alive", "fdopen"}) /\ g.added = FALSE /\ g.alive = FALSE
    BY <2>2, <2>3 DEF LnOnly, LnFields
  <2> QED BY <1>1, <2>2, <2>4 DEF LnReleased, LnOnly, LnFields
<1>2. CASE h.refcnt # 1
  <2>1. g = [h EXCEPT !.refcnt = @ - 1]
    BY <1>2 DEF L!listener_decref_and_unlock
  <2> QED BY <1>2, <2>1 DEF LnReleased, LnOnly, LnFields
<1> QED BY <1>1, <1>2

\* What a call of the program does.
LnDone(h, g, op) ==
  CASE op = "enable"   -> /\ LnOnly(h, g, {"enabled", "added"}) /\ g.enabled = TRUE
                          /\ g.added = IF h.cb THEN TRUE ELSE h.added
    [] op = "disable"  -> LnOnly(h, g, {"enabled", "added"}) /\ g.enabled = FALSE /\ g.added = FALSE
    [] op = "set_cb"   -> /\ LnOnly(h, g, {"cb", "added"}) /\ g.cb = TRUE
                          /\ g.added = IF h.enabled /\ ~h.cb THEN TRUE ELSE h.added
    [] op = "set_null" -> LnOnly(h, g, {"cb"}) /\ g.cb = FALSE
    [] op = "free"     -> /\ LnReleased(h, g, {"cb", "errorcb", "freecalled"})
                          /\ g.cb = FALSE /\ g.freecalled = TRUE

LEMMA LnDo ==
  ASSUME NEW h, DOMAIN h = LnFields, h.enabled \in BOOLEAN, NEW op \in L!Ops, NEW g, g = L!Do(h, op)
  PROVE  LnDone(h, g, op)
<1>1. CASE op = "enable"
  <2>1. PICK k : k = [h EXCEPT !.enabled = TRUE]
    OBVIOUS
  <2>2. LnOnly(h, k, {"enabled"}) /\ k.enabled = TRUE
    BY <2>1 DEF LnOnly, LnFields
  <2>3. g = IF k.cb THEN [k EXCEPT !.added = TRUE] ELSE k
    BY <1>1, <2>1 DEF L!Do, L!evconnlistener_enable, L!event_listener_enable
  <2>4. LnOnly(k, g, {"added"}) /\ g.added = IF k.cb THEN TRUE ELSE k.added
    BY <2>2, <2>3 DEF LnOnly, LnFields
  <2>5. k.cb = h.cb /\ k.added = h.added
    BY <2>2 DEF LnOnly, LnFields
  <2>6. LnOnly(h, g, {"enabled", "added"}) /\ g.enabled = TRUE
    BY <2>2, <2>4 DEF LnOnly, LnFields
  <2> QED BY <1>1, <2>4, <2>5, <2>6 DEF LnDone
<1>2. CASE op = "disable"
  <2>1. g = [h EXCEPT !.enabled = FALSE, !.added = FALSE]
    BY <1>2 DEF L!Do, L!evconnlistener_disable
  <2> QED BY <1>2, <2>1 DEF LnDone, LnOnly, LnFields
<1>3. CASE op \in {"set_cb", "set_null"}
  <2>1. PICK k : k = [h EXCEPT !.cb = (op = "set_cb")]
    OBVIOUS
  <2>2. LnOnly(h, k, {"cb"}) /\ k.cb = (op = "set_cb")
    BY <2>1 DEF LnOnly, LnFields
  <2>3. g = L!evconnlistener_set_cb(h, op = "set_cb")
    BY <1>3 DEF L!Do
  <2>4. g = IF h.enabled /\ ~h.cb THEN L!evconnlistener_enable(k) ELSE k
    BY <2>1, <2>3 DEF L!evconnlistener_set_cb
  <2>5. CASE ~(h.enabled /\ ~h.cb)
    BY <1>3, <2>2, <2>4, <2>5 DEF LnDone, LnOnly, LnFields
  <2>6. CASE h.enabled /\ ~h.cb
    <3>1. PICK m : m = [k EXCEPT !.enabled = TRUE]
      OBVIOUS
    <3>2. LnOnly(k, m, {"enabled"}) /\ m.enabled = TRUE
      BY <2>2, <3>1 DEF LnOnly, LnFields
    <3>3. g = IF m.cb THEN [m EXCEPT !.added = TRUE] ELSE m
      BY <2>4, <2>6, <3>1 DEF L!evconnlistener_enable, L!event_listener_enable
    <3>4. LnOnly(m, g, {"added"}) /\ g.added = IF m.cb THEN TRUE ELSE m.added
      BY <3>2, <3>3 DEF LnOnly, LnFields
    <3>5. m.cb = (op = "set_cb") /\ m.added = h.added /\ h.enabled = TRUE
      BY <2>2, <2>6, <3>2 DEF LnOnly, LnFields
    <3>6. LnOnly(h, g, {"cb", "added"}) /\ g.cb = m.cb
      <4>1. LnOnly(h, m, {"cb"})
        BY <2>2, <3>2, <3>5 DEF LnOnly
      <4> QED BY <3>4, <4>1 DEF LnOnly
    <3>7. CASE op = "set_cb"
      BY <2>6, <3>4, <3>5, <3>6, <3>7 DEF LnDone
    <3>8. CASE op = "set_null"
      <4>1. g.added = h.added
        BY <3>4, <3>5, <3>8
      <4>2. LnOnly(h, g, {"cb"})
        BY <3>6, <4>1 DEF LnOnly
      <4> QED BY <3>5, <3>6, <3>8, <4>2 DEF LnDone
    <3> QED BY <1>3, <3>7, <3>8
  <2> QED BY <2>5, <2>6
<1>4. CASE op = "free"
  <2>1. PICK k : k = [h EXCEPT !.cb = FALSE, !.errorcb = FALSE, !.freecalled = TRUE]
    OBVIOUS
  <2>2. LnOnly(h, k, {"cb", "errorcb", "freecalled"}) /\ k.cb = FALSE /\ k.freecalled = TRUE
    BY <2>1 DEF LnOnly, LnFields
  <2>3. LnReleased(k, g, {})
    <3>1. DOMAIN k = LnFields
      BY <2>2 DEF LnOnly
    <3> QED BY <1>4, <2>1, <3>1, LnDecref DEF L!Do, L!evconnlistener_free
  <2>4. LnReleased(h, g, {"cb", "errorcb", "freecalled"})
    BY <2>2, <2>3 DEF LnReleased, LnOnly, LnFields
  <2>5. g.cb = FALSE /\ g.freecalled = TRUE
    BY <2>2, <2>3 DEF LnReleased, LnOnly, LnFields
  <2> QED BY <1>4, <2>4, <2>5 DEF LnDone
<1> QED BY <1>1, <1>2, <1>3, <1>4 DEF L!Ops

LEMMA LnAcceptFails ==
  ASSUME LnSound, L!AcceptFails
  PROVE  LnSound'
<1>1. ln.at = "accept"
  BY DEF L!AcceptFails
<1>2. CASE ln' = [ln EXCEPT !.lock = "none", !.at = "idle"]
  <2>1. LnOnly(ln, ln', {"lock", "at"}) /\ ln'.lock = "none" /\ ln'.at = "idle"
    BY <1>2 DEF LnSound, LnTyped, LnBools, LnInts, LnNames, LnOnly, LnFields
  <2>z. LnSound'
    <3>1. LnTyped'
      <4>1. LnBools'
        BY <1>1, <2>1 DEF LnSound, LnRest, LnOnly, LnTyped, LnBools
      <4>2. LnInts'
        BY <1>1, <2>1 DEF LnSound, LnRest, LnOnly, LnTyped, LnInts
      <4>3. LnNames'
        BY <1>1, <2>1 DEF LnSound, LnRest, LnOnly, LnTyped, LnNames
      <4> QED BY <4>1, <4>2, <4>3 DEF LnTyped
    <3>2. LnLocked'
      BY <1>1, <2>1 DEF LnSound, LnRest, LnTyped, LnBools, LnInts, LnNames, LnOnly, LnLocked,
         LnCalm, L!FreedInTime
    <3>3. L!FreedInTime'
      BY <1>1, <2>1 DEF LnSound, LnRest, LnTyped, LnBools, LnInts, LnNames, LnOnly, LnLocked,
         LnCalm, L!FreedInTime
    <3>4. LnCalm'
      BY <1>1, <2>1 DEF LnSound, LnRest, LnTyped, LnBools, LnInts, LnNames, LnOnly, LnLocked,
         LnCalm, L!FreedInTime
    <3>5. L!ConnectionsKept'
      BY <1>1, <2>1 DEF LnSound, LnRest, LnTyped, LnBools, LnInts, LnNames, LnOnly, LnLocked,
         LnCalm, L!FreedInTime, L!ConnectionsKept
    <3>5b. L!EnabledListens'
      BY <1>1, <2>1 DEF LnSound, LnRest, LnTyped, LnBools, LnNames, LnOnly, LnLocked, LnCalm,
         L!FreedInTime, L!EnabledListens
    <3> QED BY <3>1, <3>2, <3>3, <3>4, <3>5, <3>5b DEF LnSound, LnRest
  <2> QED BY <2>z
<1>3. ASSUME NEW h, h = [ln EXCEPT !.errors = @ + 1, !.lock = "none"],
             ln' = IF h.errorcb THEN [h EXCEPT !.refcnt = @ + 1, !.at = "errorcb"] ELSE [h EXCEPT !.at = "idle"]
      PROVE  LnSound'
  <2>1. LnOnly(ln, h, {"errors", "lock"}) /\ h.lock = "none"
    BY <1>3 DEF LnSound, LnTyped, LnBools, LnInts, LnNames, LnOnly, LnFields
  <2>2. CASE h.errorcb
    <3>1. LnOnly(h, ln', {"refcnt", "at"}) /\ ln'.refcnt = h.refcnt + 1 /\ ln'.at = "errorcb"
      BY <1>3, <2>1, <2>2 DEF LnOnly, LnFields
    <3>2. /\ LnOnly(ln, ln', {"errors", "lock", "refcnt", "at"}) /\ ln'.lock = "none"
          /\ ln'.refcnt = ln.refcnt + 1 /\ ln'.at = "errorcb"
      BY <2>1, <3>1 DEF LnOnly, LnFields
    <3>z. LnSound'
      <4>1. LnTyped'
        <5>1. LnBools'
          BY <1>1, <3>2 DEF LnSound, LnRest, LnOnly, LnTyped, LnBools
        <5>2. LnInts'
          BY <1>1, <3>2 DEF LnSound, LnRest, LnOnly, LnTyped, LnInts
        <5>3. LnNames'
          BY <1>1, <3>2 DEF LnSound, LnRest, LnOnly, LnTyped, LnNames
        <5> QED BY <5>1, <5>2, <5>3 DEF LnTyped
      <4>2. LnLocked'
        BY <1>1, <3>2 DEF LnSound, LnRest, LnTyped, LnBools, LnInts, LnNames, LnOnly, LnLocked,
           LnCalm, L!FreedInTime
      <4>3. L!FreedInTime'
        BY <1>1, <3>2 DEF LnSound, LnRest, LnTyped, LnBools, LnInts, LnNames, LnOnly, LnLocked,
           LnCalm, L!FreedInTime
      <4>4. LnCalm'
        BY <1>1, <3>2 DEF LnSound, LnRest, LnTyped, LnBools, LnInts, LnNames, LnOnly, LnLocked,
           LnCalm, L!FreedInTime
      <4>5. L!ConnectionsKept'
        BY <1>1, <3>2 DEF LnSound, LnRest, LnTyped, LnBools, LnInts, LnNames, LnOnly, LnLocked,
           LnCalm, L!FreedInTime, L!ConnectionsKept
      <4>5b. L!EnabledListens'
        BY <1>1, <3>2 DEF LnSound, LnRest, LnTyped, LnBools, LnNames, LnOnly, LnLocked, LnCalm,
           L!FreedInTime, L!EnabledListens
      <4> QED BY <4>1, <4>2, <4>3, <4>4, <4>5, <4>5b DEF LnSound, LnRest
    <3> QED BY <3>z
  <2>3. CASE ~h.errorcb
    <3>1. LnOnly(h, ln', {"at"}) /\ ln'.at = "idle"
      BY <1>3, <2>1, <2>3 DEF LnOnly, LnFields
    <3>2. LnOnly(ln, ln', {"errors", "lock", "at"}) /\ ln'.lock = "none" /\ ln'.at = "idle"
      BY <2>1, <3>1 DEF LnOnly, LnFields
    <3>z. LnSound'
      <4>1. LnTyped'
        <5>1. LnBools'
          BY <1>1, <3>2 DEF LnSound, LnRest, LnOnly, LnTyped, LnBools
        <5>2. LnInts'
          BY <1>1, <3>2 DEF LnSound, LnRest, LnOnly, LnTyped, LnInts
        <5>3. LnNames'
          BY <1>1, <3>2 DEF LnSound, LnRest, LnOnly, LnTyped, LnNames
        <5> QED BY <5>1, <5>2, <5>3 DEF LnTyped
      <4>2. LnLocked'
        BY <1>1, <3>2 DEF LnSound, LnRest, LnTyped, LnBools, LnInts, LnNames, LnOnly, LnLocked,
           LnCalm, L!FreedInTime
      <4>3. L!FreedInTime'
        BY <1>1, <3>2 DEF LnSound, LnRest, LnTyped, LnBools, LnInts, LnNames, LnOnly, LnLocked,
           LnCalm, L!FreedInTime
      <4>4. LnCalm'
        BY <1>1, <3>2 DEF LnSound, LnRest, LnTyped, LnBools, LnInts, LnNames, LnOnly, LnLocked,
           LnCalm, L!FreedInTime
      <4>5. L!ConnectionsKept'
        BY <1>1, <3>2 DEF LnSound, LnRest, LnTyped, LnBools, LnInts, LnNames, LnOnly, LnLocked,
           LnCalm, L!FreedInTime, L!ConnectionsKept
      <4>5b. L!EnabledListens'
        BY <1>1, <3>2 DEF LnSound, LnRest, LnTyped, LnBools, LnNames, LnOnly, LnLocked, LnCalm,
           L!FreedInTime, L!EnabledListens
      <4> QED BY <4>1, <4>2, <4>3, <4>4, <4>5, <4>5b DEF LnSound, LnRest
    <3> QED BY <3>z
  <2> QED BY <2>2, <2>3
<1> QED BY <1>2, <1>3 DEF L!AcceptFails

LEMMA LnReturns ==
  ASSUME LnSound, L!CallbackReturns
  PROVE  LnSound'
<1>1. PICK u : u = (ln.uaf \/ ~ln.alive)
  OBVIOUS
<1>2. PICK h : h = [ln EXCEPT !.uaf = u]
  OBVIOUS
<1>3. ln.at \in {"cb", "errorcb"} /\ ln.lock = "none"
  BY DEF L!CallbackReturns
<1>4. u = FALSE
  BY <1>1, <1>3 DEF LnSound, LnTyped, LnBools, LnInts, LnNames, LnRest, LnOnly, LnFields,
     LnLocked, L!FreedInTime, L!ConnectionsKept, L!EnabledListens
<1>5. LnOnly(ln, h, {})
  BY <1>2, <1>4 DEF LnSound, LnTyped, LnBools, LnInts, LnNames, LnRest, LnOnly, LnFields,
     LnLocked, L!FreedInTime, L!ConnectionsKept, L!EnabledListens
<1>6. ln' = IF ln.at = "errorcb" \/ h.refcnt = 1
            THEN [L!listener_decref_and_unlock(h) EXCEPT !.at = "idle"]
            ELSE IF ~h.enabled THEN [h EXCEPT !.refcnt = @ - 1, !.at = "idle"]
            ELSE [h EXCEPT !.refcnt = @ - 1, !.lock = "loop", !.at = "accept"]
  BY <1>1, <1>2 DEF L!CallbackReturns
<1>7. CASE ln.at = "errorcb" \/ h.refcnt = 1
  <2>1. PICK k : k = L!listener_decref_and_unlock(h)
    OBVIOUS
  <2>2. LnReleased(h, k, {})
    BY <1>5, <2>1, LnDecref DEF LnOnly
  <2>3. LnReleased(ln, k, {})
    BY <1>5, <2>2 DEF LnReleased, LnOnly, LnFields
  <2>4. ln' = [k EXCEPT !.at = "idle"]
    BY <1>6, <1>7, <2>1
  <2>5. LnReleased(ln, ln', {"at"}) /\ ln'.at = "idle"
    BY <2>3, <2>4 DEF LnReleased, LnOnly, LnFields
  <2>z. LnSound'
    <3>1. LnTyped'
      <4>1. LnBools'
        BY <1>3, <2>5 DEF LnReleased, LnSound, LnRest, LnOnly, LnTyped, LnBools
      <4>2. LnInts'
        BY <1>3, <2>5 DEF LnReleased, LnSound, LnRest, LnOnly, LnTyped, LnInts
      <4>3. LnNames'
        BY <1>3, <2>5 DEF LnReleased, LnSound, LnRest, LnOnly, LnTyped, LnNames
      <4> QED BY <4>1, <4>2, <4>3 DEF LnTyped
    <3>2. LnLocked'
      BY <1>3, <2>5 DEF LnReleased, LnSound, LnRest, LnTyped, LnBools, LnInts, LnNames, LnOnly,
         LnLocked, LnCalm, L!FreedInTime
    <3>3. L!FreedInTime'
      BY <1>3, <2>5 DEF LnReleased, LnSound, LnRest, LnTyped, LnBools, LnInts, LnNames, LnOnly,
         LnLocked, LnCalm, L!FreedInTime
    <3>4. LnCalm'
      BY <1>3, <2>5 DEF LnReleased, LnSound, LnRest, LnTyped, LnBools, LnInts, LnNames, LnOnly,
         LnLocked, LnCalm, L!FreedInTime
    <3>5. L!ConnectionsKept'
      BY <1>3, <2>5 DEF LnReleased, LnSound, LnRest, LnTyped, LnBools, LnInts, LnNames, LnOnly,
         LnLocked, LnCalm, L!FreedInTime, L!ConnectionsKept
    <3>5b. L!EnabledListens'
      BY <1>3, <2>5 DEF LnReleased, LnSound, LnRest, LnTyped, LnBools, LnNames, LnOnly, LnLocked,
         LnCalm, L!FreedInTime, L!EnabledListens
    <3> QED BY <3>1, <3>2, <3>3, <3>4, <3>5, <3>5b DEF LnSound, LnRest
  <2> QED BY <2>z
<1>8. CASE ~(ln.at = "errorcb" \/ h.refcnt = 1) /\ ~h.enabled
  <2>1. ln' = [h EXCEPT !.refcnt = @ - 1, !.at = "idle"]
    BY <1>6, <1>8
  <2>2. LnOnly(ln, ln', {"refcnt", "at"}) /\ ln'.refcnt = ln.refcnt - 1 /\ ln'.at = "idle"
    BY <1>5, <2>1 DEF LnOnly, LnFields
  <2>3. ln.refcnt # 1
    BY <1>5, <1>8 DEF LnOnly, LnFields
  <2>z. LnSound'
    <3>1. LnTyped'
      <4>1. LnBools'
        BY <1>3, <2>2, <2>3 DEF LnSound, LnRest, LnOnly, LnTyped, LnBools
      <4>2. LnInts'
        BY <1>3, <2>2, <2>3 DEF LnSound, LnRest, LnOnly, LnTyped, LnInts
      <4>3. LnNames'
        BY <1>3, <2>2, <2>3 DEF LnSound, LnRest, LnOnly, LnTyped, LnNames
      <4> QED BY <4>1, <4>2, <4>3 DEF LnTyped
    <3>2. LnLocked'
      BY <1>3, <2>2, <2>3 DEF LnSound, LnRest, LnTyped, LnBools, LnInts, LnNames, LnOnly,
         LnLocked, LnCalm, L!FreedInTime
    <3>3. L!FreedInTime'
      BY <1>3, <2>2, <2>3 DEF LnSound, LnRest, LnTyped, LnBools, LnInts, LnNames, LnOnly,
         LnLocked, LnCalm, L!FreedInTime
    <3>4. LnCalm'
      BY <1>3, <2>2, <2>3 DEF LnSound, LnRest, LnTyped, LnBools, LnInts, LnNames, LnOnly,
         LnLocked, LnCalm, L!FreedInTime
    <3>5. L!ConnectionsKept'
      BY <1>3, <2>2, <2>3 DEF LnSound, LnRest, LnTyped, LnBools, LnInts, LnNames, LnOnly,
         LnLocked, LnCalm, L!FreedInTime, L!ConnectionsKept
    <3>5b. L!EnabledListens'
      BY <1>3, <2>2, <2>3 DEF LnSound, LnRest, LnTyped, LnBools, LnNames, LnOnly, LnLocked,
         LnCalm, L!FreedInTime, L!EnabledListens
    <3> QED BY <3>1, <3>2, <3>3, <3>4, <3>5, <3>5b DEF LnSound, LnRest
  <2> QED BY <2>z
<1>9. CASE ~(ln.at = "errorcb" \/ h.refcnt = 1) /\ h.enabled
  <2>1. ln' = [h EXCEPT !.refcnt = @ - 1, !.lock = "loop", !.at = "accept"]
    BY <1>6, <1>9
  <2>2. /\ LnOnly(ln, ln', {"refcnt", "lock", "at"}) /\ ln'.refcnt = ln.refcnt - 1
        /\ ln'.lock = "loop" /\ ln'.at = "accept"
    BY <1>5, <2>1 DEF LnOnly, LnFields
  <2>3. ln.refcnt # 1 /\ ln.enabled
    BY <1>5, <1>9 DEF LnOnly, LnFields
  <2>z. LnSound'
    <3>1. LnTyped'
      <4>1. LnBools'
        BY <1>3, <2>2, <2>3 DEF LnSound, LnRest, LnOnly, LnTyped, LnBools
      <4>2. LnInts'
        BY <1>3, <2>2, <2>3 DEF LnSound, LnRest, LnOnly, LnTyped, LnInts
      <4>3. LnNames'
        BY <1>3, <2>2, <2>3 DEF LnSound, LnRest, LnOnly, LnTyped, LnNames
      <4> QED BY <4>1, <4>2, <4>3 DEF LnTyped
    <3>2. LnLocked'
      <4>1. ~ln.freecalled
        BY <1>3, <2>3 DEF LnSound, LnRest, LnTyped, LnBools, LnCalm, L!FreedInTime
      <4> QED BY <1>3, <2>2, <2>3, <4>1 DEF LnSound, LnRest, LnTyped, LnBools, LnNames, LnOnly,
                 LnLocked
    <3>3. L!FreedInTime'
      BY <1>3, <2>2, <2>3 DEF LnSound, LnRest, LnTyped, LnBools, LnInts, LnNames, LnOnly,
         LnLocked, LnCalm, L!FreedInTime
    <3>4. LnCalm'
      BY <1>3, <2>2, <2>3 DEF LnSound, LnRest, LnTyped, LnBools, LnInts, LnNames, LnOnly,
         LnLocked, LnCalm, L!FreedInTime
    <3>5. L!ConnectionsKept'
      BY <1>3, <2>2, <2>3 DEF LnSound, LnRest, LnTyped, LnBools, LnInts, LnNames, LnOnly,
         LnLocked, LnCalm, L!FreedInTime, L!ConnectionsKept
    <3>5b. L!EnabledListens'
      BY <1>3, <2>2, <2>3 DEF LnSound, LnRest, LnTyped, LnBools, LnNames, LnOnly, LnLocked,
         LnCalm, L!FreedInTime, L!EnabledListens
    <3> QED BY <3>1, <3>2, <3>3, <3>4, <3>5, <3>5b DEF LnSound, LnRest
  <2> QED BY <2>z
<1> QED BY <1>7, <1>8, <1>9

\* A call keeps the listener sound when it deletes nothing that runs in the loop.
LEMMA LnCall ==
  ASSUME LnSound, NEW op \in L!Ops, ~ln.freecalled,
         ln.at \in {"idle", "cb", "errorcb"} \/ ~L!Deletes(ln, op),
         NEW h, LnOnly(ln, h, {"calls", "lock", "other"}),
         h.lock \in {"none", "loop", "other"}, h.other = "none",
         h.lock = "loop" <=> ln.at = "accept", h.lock # "other",
         ln' = L!Do(h, op)
  PROVE  LnSound'
<1>1. LnDone(h, ln', op)
  BY LnDo DEF LnSound, LnTyped, LnBools, LnInts, LnNames, LnOnly, LnFields
<1>2. LnTyped /\ LnRest /\ LnOnly(ln, h, {"calls", "lock", "other"})
  BY DEF LnSound
<1>3. CASE op = "enable"
  <2>1. LnTyped'
    <3>1. LnBools'
      BY <1>1, <1>2, <1>3 DEF LnDone, LnSound, LnRest, LnOnly, LnTyped, LnBools
    <3>2. LnInts'
      BY <1>1, <1>2, <1>3 DEF LnDone, LnSound, LnRest, LnOnly, LnTyped, LnInts
    <3>3. LnNames'
      BY <1>1, <1>2, <1>3 DEF LnDone, LnSound, LnRest, LnOnly, LnTyped, LnNames
    <3> QED BY <3>1, <3>2, <3>3 DEF LnTyped
  <2>2. LnLocked'
    BY <1>1, <1>2, <1>3 DEF LnDone, LnSound, LnRest, LnTyped, LnBools, LnInts, LnNames, LnOnly,
       LnLocked, LnCalm, L!FreedInTime
  <2>3. L!FreedInTime'
    BY <1>1, <1>2, <1>3 DEF LnDone, LnSound, LnRest, LnTyped, LnBools, LnInts, LnNames, LnOnly,
       LnLocked, LnCalm, L!FreedInTime
  <2>4. LnCalm'
    BY <1>1, <1>2, <1>3 DEF LnDone, LnSound, LnRest, LnTyped, LnBools, LnInts, LnNames, LnOnly,
       LnLocked, LnCalm, L!FreedInTime
  <2>5. L!ConnectionsKept'
    BY <1>1, <1>2, <1>3 DEF LnDone, LnSound, LnRest, LnTyped, LnBools, LnInts, LnNames, LnOnly,
       LnLocked, LnCalm, L!FreedInTime, L!ConnectionsKept
  <2>5b. L!EnabledListens'
    BY <1>1, <1>2, <1>3 DEF LnDone, LnSound, LnRest, LnTyped, LnBools, LnNames, LnOnly, LnLocked,
       LnCalm, L!FreedInTime, L!EnabledListens
  <2> QED BY <2>1, <2>2, <2>3, <2>4, <2>5, <2>5b DEF LnSound, LnRest
<1>4. CASE op = "disable"
  <2>1. LnTyped'
    <3>1. LnBools'
      BY <1>1, <1>2, <1>4 DEF LnDone, L!Deletes, LnSound, LnRest, LnOnly, LnTyped, LnBools
    <3>2. LnInts'
      BY <1>1, <1>2, <1>4 DEF LnDone, L!Deletes, LnSound, LnRest, LnOnly, LnTyped, LnInts
    <3>3. LnNames'
      BY <1>1, <1>2, <1>4 DEF LnDone, L!Deletes, LnSound, LnRest, LnOnly, LnTyped, LnNames
    <3> QED BY <3>1, <3>2, <3>3 DEF LnTyped
  <2>2. LnLocked'
    BY <1>1, <1>2, <1>4 DEF LnDone, L!Deletes, LnSound, LnRest, LnTyped, LnBools, LnInts,
       LnNames, LnOnly, LnLocked, LnCalm, L!FreedInTime
  <2>3. L!FreedInTime'
    BY <1>1, <1>2, <1>4 DEF LnDone, L!Deletes, LnSound, LnRest, LnTyped, LnBools, LnInts,
       LnNames, LnOnly, LnLocked, LnCalm, L!FreedInTime
  <2>4. LnCalm'
    BY <1>1, <1>2, <1>4 DEF LnDone, L!Deletes, LnSound, LnRest, LnTyped, LnBools, LnInts,
       LnNames, LnOnly, LnLocked, LnCalm, L!FreedInTime
  <2>5. L!ConnectionsKept'
    BY <1>1, <1>2, <1>4 DEF LnDone, L!Deletes, LnSound, LnRest, LnTyped, LnBools, LnInts,
       LnNames, LnOnly, LnLocked, LnCalm, L!FreedInTime, L!ConnectionsKept
  <2>5b. L!EnabledListens'
    BY <1>1, <1>2, <1>4 DEF LnDone, L!Deletes, LnSound, LnRest, LnTyped, LnBools, LnNames,
       LnOnly, LnLocked, LnCalm, L!FreedInTime, L!EnabledListens
  <2> QED BY <2>1, <2>2, <2>3, <2>4, <2>5, <2>5b DEF LnSound, LnRest
<1>5. CASE op = "set_cb"
  <2>1. LnTyped'
    <3>1. LnBools'
      BY <1>1, <1>2, <1>5 DEF LnDone, LnSound, LnRest, LnOnly, LnTyped, LnBools
    <3>2. LnInts'
      BY <1>1, <1>2, <1>5 DEF LnDone, LnSound, LnRest, LnOnly, LnTyped, LnInts
    <3>3. LnNames'
      BY <1>1, <1>2, <1>5 DEF LnDone, LnSound, LnRest, LnOnly, LnTyped, LnNames
    <3> QED BY <3>1, <3>2, <3>3 DEF LnTyped
  <2>2. LnLocked'
    BY <1>1, <1>2, <1>5 DEF LnDone, LnSound, LnRest, LnTyped, LnBools, LnInts, LnNames, LnOnly,
       LnLocked, LnCalm, L!FreedInTime
  <2>3. L!FreedInTime'
    BY <1>1, <1>2, <1>5 DEF LnDone, LnSound, LnRest, LnTyped, LnBools, LnInts, LnNames, LnOnly,
       LnLocked, LnCalm, L!FreedInTime
  <2>4. LnCalm'
    BY <1>1, <1>2, <1>5 DEF LnDone, LnSound, LnRest, LnTyped, LnBools, LnInts, LnNames, LnOnly,
       LnLocked, LnCalm, L!FreedInTime
  <2>5. L!ConnectionsKept'
    BY <1>1, <1>2, <1>5 DEF LnDone, LnSound, LnRest, LnTyped, LnBools, LnInts, LnNames, LnOnly,
       LnLocked, LnCalm, L!FreedInTime, L!ConnectionsKept
  <2>5b. L!EnabledListens'
    BY <1>1, <1>2, <1>5 DEF LnDone, LnSound, LnRest, LnTyped, LnBools, LnNames, LnOnly, LnLocked,
       LnCalm, L!FreedInTime, L!EnabledListens
  <2> QED BY <2>1, <2>2, <2>3, <2>4, <2>5, <2>5b DEF LnSound, LnRest
<1>6. CASE op = "set_null"
  <2>1. LnTyped'
    <3>1. LnBools'
      BY <1>1, <1>2, <1>6 DEF LnDone, LnSound, LnRest, LnOnly, LnTyped, LnBools
    <3>2. LnInts'
      BY <1>1, <1>2, <1>6 DEF LnDone, LnSound, LnRest, LnOnly, LnTyped, LnInts
    <3>3. LnNames'
      BY <1>1, <1>2, <1>6 DEF LnDone, LnSound, LnRest, LnOnly, LnTyped, LnNames
    <3> QED BY <3>1, <3>2, <3>3 DEF LnTyped
  <2>2. LnLocked'
    BY <1>1, <1>2, <1>6 DEF LnDone, LnSound, LnRest, LnTyped, LnBools, LnInts, LnNames, LnOnly,
       LnLocked, LnCalm, L!FreedInTime
  <2>3. L!FreedInTime'
    BY <1>1, <1>2, <1>6 DEF LnDone, LnSound, LnRest, LnTyped, LnBools, LnInts, LnNames, LnOnly,
       LnLocked, LnCalm, L!FreedInTime
  <2>4. LnCalm'
    BY <1>1, <1>2, <1>6 DEF LnDone, LnSound, LnRest, LnTyped, LnBools, LnInts, LnNames, LnOnly,
       LnLocked, LnCalm, L!FreedInTime
  <2>5. L!ConnectionsKept'
    BY <1>1, <1>2, <1>6 DEF LnDone, LnSound, LnRest, LnTyped, LnBools, LnInts, LnNames, LnOnly,
       LnLocked, LnCalm, L!FreedInTime, L!ConnectionsKept
  <2>5b. L!EnabledListens'
    BY <1>1, <1>2, <1>6 DEF LnDone, LnSound, LnRest, LnTyped, LnBools, LnNames, LnOnly, LnLocked,
       LnCalm, L!FreedInTime, L!EnabledListens
  <2> QED BY <2>1, <2>2, <2>3, <2>4, <2>5, <2>5b DEF LnSound, LnRest
<1>7. CASE op = "free"
  <2>1. LnTyped'
    <3>1. LnBools'
      BY <1>1, <1>2, <1>7 DEF LnDone, LnReleased, L!Deletes, LnSound, LnRest, LnOnly, LnTyped,
         LnBools
    <3>2. LnInts'
      BY <1>1, <1>2, <1>7 DEF LnDone, LnReleased, L!Deletes, LnSound, LnRest, LnOnly, LnTyped,
         LnInts
    <3>3. LnNames'
      BY <1>1, <1>2, <1>7 DEF LnDone, LnReleased, L!Deletes, LnSound, LnRest, LnOnly, LnTyped,
         LnNames
    <3> QED BY <3>1, <3>2, <3>3 DEF LnTyped
  <2>2. LnLocked'
    BY <1>1, <1>2, <1>7 DEF LnDone, LnReleased, L!Deletes, LnSound, LnRest, LnTyped, LnBools,
       LnInts, LnNames, LnOnly, LnLocked, LnCalm, L!FreedInTime
  <2>3. L!FreedInTime'
    BY <1>1, <1>2, <1>7 DEF LnDone, LnReleased, L!Deletes, LnSound, LnRest, LnTyped, LnBools,
       LnInts, LnNames, LnOnly, LnLocked, LnCalm, L!FreedInTime
  <2>4. LnCalm'
    BY <1>1, <1>2, <1>7 DEF LnDone, LnReleased, L!Deletes, LnSound, LnRest, LnTyped, LnBools,
       LnInts, LnNames, LnOnly, LnLocked, LnCalm, L!FreedInTime
  <2>5. L!ConnectionsKept'
    BY <1>1, <1>2, <1>7 DEF LnDone, LnReleased, L!Deletes, LnSound, LnRest, LnTyped, LnBools,
       LnInts, LnNames, LnOnly, LnLocked, LnCalm, L!FreedInTime, L!ConnectionsKept
  <2>5b. L!EnabledListens'
    BY <1>1, <1>2, <1>7 DEF LnDone, LnReleased, L!Deletes, LnSound, LnRest, LnTyped, LnBools,
       LnNames, LnOnly, LnLocked, LnCalm, L!FreedInTime, L!EnabledListens
  <2> QED BY <2>1, <2>2, <2>3, <2>4, <2>5, <2>5b DEF LnSound, LnRest
<1> QED BY <1>3, <1>4, <1>5, <1>6, <1>7 DEF L!Ops

LEMMA LnInit ==
  ASSUME L!Init
  PROVE  LnSound
<1>1. PICK s \in LnSetups :
        LET h == [s |-> s, alive |-> TRUE, refcnt |-> 1, cb |-> ~s.nocb, errorcb |-> s.errorcb, enabled |-> FALSE,
              added |-> FALSE, fdopen |-> TRUE, lock |-> "none", at |-> "idle", other |-> "none", calls |-> 0,
              backlog |-> 0, arrived |-> 0, given |-> 0, closed |-> 0, errors |-> 0, freecalled |-> FALSE,
              uaf |-> FALSE]
        IN ln = IF s.disabled THEN h ELSE L!evconnlistener_enable(h)
  BY DEF L!Init
<1>2. PICK c \in BOOLEAN : c = (~s.nocb)
  OBVIOUS
<1>3. PICK h : h = [s |-> s, alive |-> TRUE, refcnt |-> 1, cb |-> c, errorcb |-> s.errorcb, enabled |-> FALSE,
              added |-> FALSE, fdopen |-> TRUE, lock |-> "none", at |-> "idle", other |-> "none", calls |-> 0,
              backlog |-> 0, arrived |-> 0, given |-> 0, closed |-> 0, errors |-> 0, freecalled |-> FALSE,
              uaf |-> FALSE]
  OBVIOUS
<1>4. ln = IF s.disabled THEN h ELSE L!evconnlistener_enable(h)
  BY <1>1, <1>2, <1>3
<1>5. /\ DOMAIN h = LnFields /\ h.alive = TRUE /\ h.refcnt = 1 /\ h.cb = c /\ h.enabled = FALSE /\ h.added = FALSE
      /\ h.lock = "none" /\ h.at = "idle" /\ h.other = "none" /\ h.backlog = 0 /\ h.arrived = 0 /\ h.given = 0
      /\ h.closed = 0 /\ h.freecalled = FALSE /\ h.uaf = FALSE
  BY <1>3 DEF LnFields
<1>6. \/ ln = h
      \/ LnDone(h, ln, "enable")
  <2>1. CASE ~s.disabled
    <3>1. ln = L!Do(h, "enable")
      BY <1>4, <2>1 DEF L!Do
    <3> QED BY <1>5, <3>1, LnDo DEF L!Ops
  <2> QED BY <1>4, <2>1
<1>7. CASE ln = h
  <2>1. LnTyped
    <3>1. LnBools
      BY <1>5, <1>7 DEF LnBools
    <3>2. LnInts
      BY <1>5, <1>7 DEF LnInts
    <3>3. LnNames
      BY <1>5, <1>7 DEF LnNames
    <3> QED BY <3>1, <3>2, <3>3 DEF LnTyped
  <2>2. LnRest
    BY <1>5, <1>7 DEF LnRest, LnLocked, LnCalm, L!FreedInTime, L!ConnectionsKept, L!EnabledListens
  <2> QED BY <2>1, <2>2 DEF LnSound
<1>8. CASE LnDone(h, ln, "enable")
  <2>1. LnOnly(h, ln, {"enabled", "added"}) /\ ln.enabled = TRUE /\ ln.added = c
    BY <1>5, <1>8 DEF LnDone
  <2>2. /\ DOMAIN ln = LnFields /\ ln.alive = TRUE /\ ln.refcnt = 1 /\ ln.cb = c /\ ln.lock = "none"
        /\ ln.at = "idle" /\ ln.other = "none" /\ ln.backlog = 0 /\ ln.arrived = 0 /\ ln.given = 0
        /\ ln.closed = 0 /\ ln.freecalled = FALSE /\ ln.uaf = FALSE
    BY <1>5, <2>1 DEF LnOnly
  <2>3. LnTyped
    <3>1. LnBools
      BY <2>1, <2>2 DEF LnBools
    <3>2. LnInts
      BY <2>1, <2>2 DEF LnInts
    <3>3. LnNames
      BY <2>1, <2>2 DEF LnNames
    <3> QED BY <3>1, <3>2, <3>3 DEF LnTyped
  <2>4. LnRest
    BY <2>1, <2>2 DEF LnRest, LnLocked, LnCalm, L!FreedInTime, L!ConnectionsKept, L!EnabledListens
  <2> QED BY <2>3, <2>4 DEF LnSound
<1> QED BY <1>6, <1>7, <1>8

LEMMA LnNext ==
  ASSUME LnSound, L!Next
  PROVE  LnSound'
<1>1. ASSUME NEW op \in L!Ops, L!LoopCalls(op)
      PROVE  LnSound'
  <2>1. PICK h : h = [ln EXCEPT !.calls = @ + 1]
    OBVIOUS
  <2>2. LnOnly(ln, h, {"calls"})
    BY <2>1 DEF LnSound, LnTyped, LnNames, LnFields, LnOnly
  <2>3. /\ ln' = L!Do(h, op) /\ ~ln.freecalled /\ ln.at \in {"idle", "cb", "errorcb"} /\ ln.lock # "other"
    BY <1>1, <2>1 DEF L!LoopCalls, L!MayCall
  <2>4. /\ LnOnly(ln, h, {"calls", "lock", "other"}) /\ h.lock \in {"none", "loop", "other"} /\ h.other = "none"
        /\ (h.lock = "loop" <=> ln.at = "accept") /\ h.lock # "other"
    BY <2>2, <2>3 DEF LnOnly, LnSound, LnTyped, LnNames, LnRest, LnLocked
  <2> QED BY <2>3, <2>4, LnCall
<1>2. ASSUME NEW op \in L!Ops, L!OtherLocks(op)
      PROVE  LnSound'
  <2>1. ln.other = "none" /\ ln.lock = "none" /\ ~ln.freecalled /\ op # "none"
    BY <1>2 DEF L!OtherLocks, L!MayCall, L!Ops
  <2>2. CASE L!Deletes(ln, op)
    <3>1. ln' = [ln EXCEPT !.calls = @ + 1, !.other = op, !.lock = "other"]
      BY <1>2, <2>2 DEF L!OtherLocks
    <3>2. LnOnly(ln, ln', {"calls", "other", "lock"}) /\ ln'.other = op /\ ln'.lock = "other"
      BY <3>1 DEF LnSound, LnTyped, LnNames, LnFields, LnOnly
    <3>3. LnTyped'
      BY <3>2 DEF LnOnly, LnSound, LnTyped, LnBools, LnInts, LnNames
    <3>4. LnLocked'
      BY <2>1, <3>2 DEF LnOnly, LnSound, LnTyped, LnBools, LnNames, LnRest, LnLocked
    <3>5. L!FreedInTime' /\ LnCalm'
      BY <3>2 DEF LnOnly, LnSound, LnRest, LnCalm, L!FreedInTime
    <3>6. L!ConnectionsKept' /\ L!EnabledListens'
      BY <3>2 DEF LnOnly, LnSound, LnRest, L!ConnectionsKept, L!EnabledListens
    <3> QED BY <3>3, <3>4, <3>5, <3>6 DEF LnSound, LnRest
  <2>3. CASE ~L!Deletes(ln, op)
    <3>1. PICK h : h = [ln EXCEPT !.calls = @ + 1]
      OBVIOUS
    <3>2. LnOnly(ln, h, {"calls"})
      BY <3>1 DEF LnSound, LnTyped, LnNames, LnFields, LnOnly
    <3>3. ln' = L!Do(h, op)
      BY <1>2, <2>3, <3>1 DEF L!OtherLocks
    <3>4. /\ LnOnly(ln, h, {"calls", "lock", "other"}) /\ h.lock \in {"none", "loop", "other"} /\ h.other = "none"
          /\ (h.lock = "loop" <=> ln.at = "accept") /\ h.lock # "other"
      BY <2>1, <3>2 DEF LnOnly, LnSound, LnTyped, LnNames, LnRest, LnLocked
    <3> QED BY <2>1, <2>3, <3>3, <3>4, LnCall
  <2> QED BY <2>2, <2>3
<1>3. CASE L!OtherDeletes
  <2>1. ln.other # "none" /\ ln.at = "idle"
    BY <1>3 DEF L!OtherDeletes
  <2>2. PICK op : op = ln.other
    OBVIOUS
  <2>3. op \in L!Ops /\ ~ln.freecalled
    BY <2>1, <2>2 DEF LnSound, LnTyped, LnNames, LnRest, LnLocked
  <2>4. PICK h : h = [ln EXCEPT !.other = "none", !.lock = "none"]
    OBVIOUS
  <2>5. LnOnly(ln, h, {"calls", "lock", "other"}) /\ h.lock = "none" /\ h.other = "none"
    BY <2>4 DEF LnSound, LnTyped, LnNames, LnFields, LnOnly
  <2>6. ln' = L!Do(h, op)
    BY <1>3, <2>2, <2>4 DEF L!OtherDeletes
  <2> QED BY <2>1, <2>3, <2>5, <2>6, LnCall
<1> QED
  BY <1>1, <1>2, <1>3, LnArrives, LnActivated, LnReadCb, LnAccepts, LnAcceptFails, LnReturns
     DEF L!Next

\* A listener is freed when the program and its last callback have let go of it and is
\* not touched afterwards, connections are not lost, and an enabled listener is in the
\* loop (listener.c), whatever the callbacks and the other thread call, and when.
THEOREM ListenersAreSound ==
  SuiteSpec => [](part = "listener" => L!FreedInTime /\ L!ConnectionsKept /\ L!EnabledListens)
<1> DEFINE Inv == part = "listener" => LnSound
<1>1. SuiteInit => Inv
  BY LnInit DEF SuiteInit
<1>2. Inv /\ [SuiteNext]_<<part, sg, bk, ln, li, lk, bl>> => Inv'
  <2>1. ASSUME Inv, SuiteNext
        PROVE  Inv'
    <3>1. part' = part /\ (part = "listener" => L!Next)
      BY <2>1 DEF SuiteNext
    <3> QED BY <2>1, <3>1, LnNext
  <2>2. ASSUME Inv, UNCHANGED <<part, ln>>
        PROVE  Inv'
    BY <2>2 DEF LnSound, LnTyped, LnBools, LnInts, LnNames, LnRest, LnLocked, LnCalm, L!FreedInTime,
       L!ConnectionsKept, L!EnabledListens
  <2> QED BY <2>1, <2>2
<1>3. Inv => (part = "listener" => L!FreedInTime /\ L!ConnectionsKept /\ L!EnabledListens)
  BY DEF LnSound, LnRest
<1> QED BY <1>1, <1>2, <1>3, PTL DEF SuiteSpec

-----------------------------------------------------------------------------
(* Listeners of the Windows port.                                          *)

LiFields == {"alive", "refcnt", "enabled", "cb", "fdopen", "event_added", "as", "calls", "freecalled",
             "uaf", "twice", "idle"}
SockFields == {"s", "io", "early", "deferred", "error", "free_on_cb", "alive", "incb", "restart"}

SockTyped(a) ==
  /\ DOMAIN a = SockFields /\ a.io \in Int /\ a.early \in BOOLEAN /\ a.restart \in BOOLEAN
  /\ a.deferred \in BOOLEAN /\ a.error \in BOOLEAN /\ a.free_on_cb \in BOOLEAN /\ a.alive \in BOOLEAN /\ a.incb \in BOOLEAN

LiTyped(h) ==
  /\ DOMAIN h = LiFields /\ h.refcnt \in Int
  /\ h.alive \in BOOLEAN /\ h.freecalled \in BOOLEAN /\ h.uaf \in BOOLEAN /\ h.twice \in BOOLEAN /\ h.enabled \in BOOLEAN
  /\ DOMAIN h.as = AsIds /\ \A i \in AsIds : SockTyped(h.as[i])

\* A socket has one operation, a completion to handle or a callback, at most one of
\* them, and none when it has been freed.  Only when AcceptEx had succeeded at once may
\* the operation and its callback be there together, and then it accepts nothing new.
SockCalm(a) ==
  /\ a.io = 0 \/ a.io = 1
  /\ a.early => a.io = 1 /\ ~a.error
  /\ a.io = 1 /\ ~a.early => ~a.deferred /\ ~a.incb /\ ~a.restart
  /\ a.error => a.deferred
  /\ (a.incb \/ a.restart) /\ (a.early \/ a.deferred) => a.s = "none"
  /\ ~a.alive => a.io = 0 /\ ~a.deferred /\ ~a.incb /\ ~a.restart

Living(h) == {i \in AsIds : h.as[i].alive}
Running(h) == {i \in AsIds : h.as[i].incb}
One(p) == IF p THEN 1 ELSE 0

LiSafe(h) ==
  /\ ~h.uaf
  /\ h.refcnt = (IF h.freecalled THEN 0 ELSE 1) + Cardinality(Living(h)) + Cardinality(Running(h))
  /\ h.alive <=> h.refcnt > 0
  /\ \A i \in AsIds : SockCalm(h.as[i]) /\ (~h.freecalled => h.as[i].alive /\ ~h.as[i].free_on_cb)

LiInv == LiTyped(li) /\ (li.twice \/ LiSafe(li))

\* Cardinality is the same operator in ListenerIocp.
LEMMA SameCardinality ==
  ASSUME NEW T
  PROVE  A!Cardinality(T) = Cardinality(T)
BY Zenon DEF A!Cardinality, Cardinality, ExistsBijection, Bijection

LEMMA CountChanges ==
  ASSUME NEW T, IsFiniteSet(T), NEW i \in T, NEW X \in SUBSET T, NEW Y \in SUBSET T,
         \A j \in T : j # i => (j \in X <=> j \in Y)
  PROVE  /\ Cardinality(X) \in Nat /\ Cardinality(Y) \in Nat
         /\ Cardinality(Y) = Cardinality(X) + One(i \in Y) - One(i \in X)
<1>1. IsFiniteSet(X) /\ IsFiniteSet(Y)
  BY FS_Subset
<1>2. Cardinality(X) \in Nat /\ Cardinality(Y) \in Nat
  BY <1>1, FS_CardinalityType
<1>3. CASE i \in X /\ i \notin Y
  <2>1. Y = X \ {i}
    BY <1>3
  <2>2. Cardinality(Y) = Cardinality(X) - 1
    BY <1>1, <1>3, <2>1, FS_RemoveElement
  <2> QED BY <1>2, <1>3, <2>2 DEF One
<1>4. CASE i \notin X /\ i \in Y
  <2>1. Y = X \cup {i}
    BY <1>4
  <2>2. Cardinality(Y) = Cardinality(X) + 1
    BY <1>1, <1>4, <2>1, FS_AddElement
  <2> QED BY <1>2, <1>4, <2>2 DEF One
<1>5. CASE i \in X <=> i \in Y
  <2>1. X = Y
    BY <1>5
  <2> QED BY <1>2, <2>1 DEF One
<1> QED BY <1>2, <1>3, <1>4, <1>5

\* A socket changes, and the references of the listener with it.
LEMMA SocketChanges ==
  ASSUME NEW h, LiTyped(h), LiSafe(h), NEW i \in AsIds, NEW a, SockTyped(a), SockCalm(a),
         NEW g, g.as = [h.as EXCEPT ![i] = a], ~g.uaf, g.freecalled = h.freecalled,
         g.refcnt = h.refcnt + One(a.alive) - One(h.as[i].alive) + One(a.incb) - One(h.as[i].incb),
         g.alive <=> g.refcnt > 0,
         ~h.freecalled => a.alive /\ ~a.free_on_cb
  PROVE  LiSafe(g)
<1>1. g.as[i] = a /\ \A j \in AsIds : j # i => g.as[j] = h.as[j]
  BY DEF LiTyped
<1>2. /\ Living(h) \in SUBSET AsIds /\ Living(g) \in SUBSET AsIds
      /\ Running(h) \in SUBSET AsIds /\ Running(g) \in SUBSET AsIds
  BY DEF Living, Running
<1>3. /\ \A j \in AsIds : j # i => (j \in Living(h) <=> j \in Living(g))
      /\ \A j \in AsIds : j # i => (j \in Running(h) <=> j \in Running(g))
  BY <1>1 DEF Living, Running
<1>4. /\ (i \in Living(h) <=> h.as[i].alive) /\ (i \in Living(g) <=> a.alive)
      /\ (i \in Running(h) <=> h.as[i].incb) /\ (i \in Running(g) <=> a.incb)
  BY <1>1 DEF Living, Running
<1>5. /\ One(i \in Living(h)) = One(h.as[i].alive) /\ One(i \in Living(g)) = One(a.alive)
      /\ One(i \in Running(h)) = One(h.as[i].incb) /\ One(i \in Running(g)) = One(a.incb)
  BY <1>4 DEF One
<1>6. /\ Cardinality(Living(h)) \in Nat /\ Cardinality(Living(g)) \in Nat
      /\ Cardinality(Living(g)) = Cardinality(Living(h)) + One(i \in Living(g)) - One(i \in Living(h))
  BY <1>2, <1>3, SocketsAssumption, CountChanges
<1>7. /\ Cardinality(Running(h)) \in Nat /\ Cardinality(Running(g)) \in Nat
      /\ Cardinality(Running(g)) = Cardinality(Running(h)) + One(i \in Running(g)) - One(i \in Running(h))
  BY <1>2, <1>3, SocketsAssumption, CountChanges
<1>8. g.refcnt = (IF g.freecalled THEN 0 ELSE 1) + Cardinality(Living(g)) + Cardinality(Running(g))
  <2>1. h.refcnt = (IF h.freecalled THEN 0 ELSE 1) + Cardinality(Living(h)) + Cardinality(Running(h))
    BY DEF LiSafe
  <2>2. One(a.alive) \in Int /\ One(h.as[i].alive) \in Int /\ One(a.incb) \in Int /\ One(h.as[i].incb) \in Int
    BY DEF One
  <2> QED BY <1>5, <1>6, <1>7, <2>1, <2>2
<1>9. \A j \in AsIds : SockCalm(g.as[j]) /\ (~g.freecalled => g.as[j].alive /\ ~g.as[j].free_on_cb)
  BY <1>1 DEF LiSafe
<1> QED BY <1>8, <1>9 DEF LiSafe

\* listener_decref_and_unlock
LiOnly(h, g, C) ==
  /\ DOMAIN g = LiFields
  /\ ("alive" \notin C => g.alive = h.alive) /\ ("refcnt" \notin C => g.refcnt = h.refcnt)
  /\ ("as" \notin C => g.as = h.as) /\ ("freecalled" \notin C => g.freecalled = h.freecalled)
  /\ ("uaf" \notin C => g.uaf = h.uaf) /\ ("twice" \notin C => g.twice = h.twice)
  /\ ("enabled" \notin C => g.enabled = h.enabled) /\ ("idle" \notin C => g.idle = h.idle)

LEMMA LiDecref ==
  ASSUME NEW h, LiTyped(h), NEW g, g = A!listener_decref_and_unlock(h)
  PROVE  /\ LiOnly(h, g, {"refcnt", "alive"}) /\ g.refcnt = h.refcnt - 1
         /\ (h.alive <=> h.refcnt > 0) => (g.alive <=> g.refcnt > 0)
         /\ g.alive \in BOOLEAN
<1>1. CASE h.refcnt = 1
  <2>1. g = [h EXCEPT !.refcnt = 0, !.alive = FALSE]
    BY <1>1 DEF A!listener_decref_and_unlock
  <2>2. LiOnly(h, g, {"refcnt", "alive"}) /\ g.refcnt = 0 /\ g.alive = FALSE
    BY <2>1 DEF LiTyped, LiFields, LiOnly
  <2>3. g.refcnt = h.refcnt - 1 /\ ~(g.refcnt > 0)
    BY <1>1, <2>2
  <2>4. ~g.alive /\ g.alive \in BOOLEAN
    BY <2>2
  <2> QED BY <2>2, <2>3, <2>4
<1>2. CASE h.refcnt # 1
  <2>1. g = [h EXCEPT !.refcnt = @ - 1]
    BY <1>2 DEF A!listener_decref_and_unlock
  <2>2. LiOnly(h, g, {"refcnt"}) /\ g.refcnt = h.refcnt - 1
    BY <2>1 DEF LiTyped, LiFields, LiOnly
  <2>3. g.alive = h.alive /\ LiOnly(h, g, {"refcnt", "alive"})
    BY <2>2 DEF LiOnly
  <2> QED BY <1>2, <2>2, <2>3 DEF LiTyped
<1> QED BY <1>1, <1>2

\* A step that leaves the references and the sockets' lives alone.
LEMMA SocketsStay ==
  ASSUME NEW h, LiTyped(h), LiSafe(h), NEW g, ~g.uaf, g.freecalled = h.freecalled, g.refcnt = h.refcnt,
         g.alive = h.alive,
         \A i \in AsIds : /\ SockCalm(g.as[i]) /\ g.as[i].alive = h.as[i].alive /\ g.as[i].incb = h.as[i].incb
                          /\ ~h.freecalled => ~g.as[i].free_on_cb
  PROVE  LiSafe(g)
<1>1. Living(g) = Living(h) /\ Running(g) = Running(h)
  BY DEF Living, Running
<1>2. \A i \in AsIds : SockCalm(g.as[i]) /\ (~g.freecalled => g.as[i].alive /\ ~g.as[i].free_on_cb)
  BY DEF LiSafe
<1> QED BY <1>1, <1>2 DEF LiSafe

\* AcceptEx leaves a socket that was not busy calm.
LEMMA StartedCalm ==
  ASSUME NEW a, SockTyped(a), NEW how \in A!Outcomes, NEW b, b = A!Started(a, how)
  PROVE  /\ SockTyped(b) /\ b.alive = a.alive /\ b.incb = a.incb /\ b.free_on_cb = a.free_on_cb
         /\ SockCalm(a) /\ ~A!Busy(a) /\ a.alive => SockCalm(b)
<1>1. b \in {[a EXCEPT !.s = "accepting", !.io = @ + 1],
             [a EXCEPT !.s = "conn", !.io = @ + 1, !.early = TRUE, !.deferred = TRUE],
             [a EXCEPT !.s = "accepting", !.error = TRUE, !.deferred = TRUE],
             [a EXCEPT !.error = TRUE, !.deferred = TRUE], a}
  BY DEF A!Started, A!Outcomes
<1>2. /\ DOMAIN b = SockFields /\ b.free_on_cb = a.free_on_cb /\ b.alive = a.alive /\ b.incb = a.incb
      /\ b.restart = a.restart
      /\ \/ b.io = a.io + 1 /\ b.early = a.early /\ b.deferred = a.deferred /\ b.error = a.error
         \/ b.io = a.io + 1 /\ b.early = TRUE /\ b.deferred = TRUE /\ b.error = a.error
         \/ b.io = a.io /\ b.early = a.early /\ b.deferred = TRUE /\ b.error = TRUE
         \/ b = a
  BY <1>1 DEF SockTyped, SockFields
<1>3. SockTyped(b)
  <2>1. CASE b = a
    BY <2>1
  <2>2. CASE b # a
    <3>1. b.early \in {a.early, TRUE} /\ b.deferred \in {a.deferred, TRUE} /\ b.error \in {a.error, TRUE}
      BY <1>2, <2>2, Zenon
    <3>2. b.io \in {a.io, a.io + 1}
      BY <1>2, <2>2, Zenon
    <3>3. /\ DOMAIN b = SockFields /\ b.free_on_cb \in BOOLEAN /\ b.alive \in BOOLEAN /\ b.incb \in BOOLEAN
          /\ b.restart \in BOOLEAN
      BY <1>2, Zenon DEF SockTyped
    <3>4. b.early \in BOOLEAN /\ b.deferred \in BOOLEAN /\ b.error \in BOOLEAN
      BY <3>1 DEF SockTyped
    <3>5. b.io \in Int
      BY <3>2 DEF SockTyped
    <3> QED BY <3>3, <3>4, <3>5, Zenon DEF SockTyped
  <2> QED BY <2>1, <2>2
<1>4. ASSUME SockCalm(a), ~A!Busy(a), a.alive
      PROVE  SockCalm(b)
  <2>1. a.io = 0 /\ ~a.deferred /\ ~a.incb /\ ~a.restart /\ ~a.early /\ ~a.error
    BY <1>4 DEF SockTyped, SockCalm, A!Busy
  <2> QED BY <1>2, <1>4, <2>1 DEF SockCalm
<1> QED BY <1>2, <1>3, <1>4

LEMMA StartsAccepting ==
  ASSUME NEW h, LiTyped(h), h.twice \/ LiSafe(h), NEW i \in AsIds, h.twice \/ h.as[i].alive,
         NEW g \in A!start_accepting(h, i)
  PROVE  LiTyped(g) /\ (g.twice \/ LiSafe(g))
<1>1. CASE ~h.enabled
  BY <1>1 DEF A!start_accepting
<1>2. CASE h.enabled
  <2>1. PICK how \in A!Outcomes :
          g = [h EXCEPT !.twice = @ \/ A!Busy(h.as[i]), !.as[i] = A!Started(@, how)]
    BY <1>2 DEF A!start_accepting
  <2>2. PICK b : b = A!Started(h.as[i], how)
    OBVIOUS
  <2>3. PICK t \in BOOLEAN : t <=> (h.twice \/ A!Busy(h.as[i]))
    OBVIOUS
  <2>4. /\ LiOnly(h, g, {"twice", "as"}) /\ (g.twice <=> t) /\ g.twice \in BOOLEAN
        /\ g.as = [h.as EXCEPT ![i] = b]
    BY <2>1, <2>2, <2>3 DEF LiTyped, LiFields, LiOnly
  <2>5. SockTyped(h.as[i])
    BY DEF LiTyped
  <2>6. SockTyped(b) /\ b.alive = h.as[i].alive /\ b.incb = h.as[i].incb /\ b.free_on_cb = h.as[i].free_on_cb
    BY <2>2, <2>5, StartedCalm
  <2>7. DOMAIN g.as = AsIds /\ g.as[i] = b /\ \A j \in AsIds : j # i => g.as[j] = h.as[j]
    BY <2>4 DEF LiTyped
  <2>8. LiTyped(g)
    <3>1. \A j \in AsIds : SockTyped(g.as[j])
      BY <2>6, <2>7 DEF LiTyped
    <3> QED BY <2>4, <2>7, <3>1 DEF LiTyped, LiOnly
  <2>9. CASE t
    BY <2>4, <2>8, <2>9
  <2>10. CASE ~t
    <3>1. LiSafe(h) /\ ~A!Busy(h.as[i]) /\ h.as[i].alive
      BY <2>3, <2>10
    <3>2. SockCalm(b)
      BY <2>2, <2>5, <3>1, StartedCalm DEF LiSafe
    <3>3. \A j \in AsIds : /\ SockCalm(g.as[j]) /\ g.as[j].alive = h.as[j].alive /\ g.as[j].incb = h.as[j].incb
                           /\ ~h.freecalled => ~g.as[j].free_on_cb
      BY <2>6, <2>7, <3>1, <3>2 DEF LiSafe
    <3>4. ~g.uaf /\ g.freecalled = h.freecalled /\ g.refcnt = h.refcnt /\ g.alive = h.alive
      BY <2>4, <3>1 DEF LiOnly, LiSafe
    <3>5. LiSafe(g)
      BY <3>1, <3>3, <3>4, SocketsStay
    <3> QED BY <2>8, <3>5
  <2> QED BY <2>9, <2>10
<1> QED BY <1>1, <1>2 DEF LiTyped

\* A socket that is there keeps the listener there.
LEMMA SocketKeepsListener ==
  ASSUME LiTyped(li), LiSafe(li), NEW i \in AsIds, li.as[i].alive
  PROVE  li.refcnt > 0 /\ li.refcnt \in Nat /\ li.alive
<1>1. i \in Living(li) /\ Living(li) \in SUBSET AsIds /\ Running(li) \in SUBSET AsIds
  BY DEF Living, Running
<1>2. Cardinality(Living(li)) \in Nat /\ Cardinality(Running(li)) \in Nat /\ Cardinality(Living(li)) # 0
  BY <1>1, SocketsAssumption, FS_Subset, FS_CardinalityType, FS_EmptySet
<1> QED BY <1>2 DEF LiSafe

LEMMA LiReturns ==
  ASSUME LiInv, A!CallbackReturns
  PROVE  LiInv'
<1>1. PICK i \in AsIds :
        /\ li.as[i].incb
        /\ LET h == A!listener_decref_and_unlock([li EXCEPT !.as[i].incb = FALSE])
           IN li' = IF h.alive THEN [h EXCEPT !.as[i].restart = TRUE] ELSE h
  BY DEF A!CallbackReturns
<1>2. PICK k : k = [li EXCEPT !.as[i].incb = FALSE]
  OBVIOUS
<1>3. PICK h : h = A!listener_decref_and_unlock(k)
  OBVIOUS
<1>4. li' = IF h.alive THEN [h EXCEPT !.as[i].restart = TRUE] ELSE h
  BY <1>1, <1>2, <1>3
<1>5. PICK a : a = [li.as[i] EXCEPT !.incb = FALSE]
  OBVIOUS
<1>6. LiOnly(li, k, {"as"}) /\ k.as = [li.as EXCEPT ![i] = a]
  BY <1>2, <1>5 DEF LiInv, LiTyped, LiFields, LiOnly
<1>7. SockTyped(li.as[i]) /\ LiTyped(li)
  BY DEF LiInv, LiTyped
<1>8. /\ SockTyped(a) /\ a.incb = FALSE /\ a.io = li.as[i].io /\ a.deferred = li.as[i].deferred
      /\ a.alive = li.as[i].alive /\ a.free_on_cb = li.as[i].free_on_cb /\ a.early = li.as[i].early
      /\ a.error = li.as[i].error /\ a.restart = li.as[i].restart /\ a.s = li.as[i].s
  BY <1>5, <1>7 DEF SockTyped, SockFields
<1>9. DOMAIN k.as = AsIds /\ k.as[i] = a /\ \A j \in AsIds : j # i => k.as[j] = li.as[j]
  BY <1>6, <1>7 DEF LiTyped
<1>10. LiTyped(k)
  <2>1. \A j \in AsIds : SockTyped(k.as[j])
    BY <1>7, <1>8, <1>9 DEF LiTyped
  <2> QED BY <1>6, <1>7, <1>9, <2>1 DEF LiTyped, LiOnly
<1>11. /\ LiOnly(k, h, {"refcnt", "alive"}) /\ h.refcnt = k.refcnt - 1 /\ h.alive \in BOOLEAN
       /\ (k.alive <=> k.refcnt > 0) => (h.alive <=> h.refcnt > 0)
  BY <1>3, <1>10, LiDecref
<1>12. PICK e : e = IF h.alive THEN [a EXCEPT !.restart = TRUE] ELSE a
  OBVIOUS
<1>13. /\ SockTyped(e) /\ e.incb = FALSE /\ e.io = a.io /\ e.deferred = a.deferred /\ e.alive = a.alive
       /\ e.free_on_cb = a.free_on_cb /\ e.early = a.early /\ e.error = a.error /\ e.s = a.s
  BY <1>8, <1>12 DEF SockTyped, SockFields
<1>14. LiOnly(h, li', {"as"}) /\ li'.as = [li.as EXCEPT ![i] = e]
  <2>1. DOMAIN h = LiFields /\ h.as = [li.as EXCEPT ![i] = a] /\ h.as[i] = a /\ DOMAIN h.as = AsIds
    BY <1>6, <1>9, <1>11 DEF LiOnly
  <2>2. CASE h.alive
    <3>1. LiOnly(h, li', {"as"}) /\ li'.as = [h.as EXCEPT ![i] = e]
      BY <1>4, <1>12, <2>1, <2>2 DEF LiOnly, LiFields
    <3> QED BY <1>7, <2>1, <3>1 DEF LiTyped
  <2>3. CASE ~h.alive
    BY <1>4, <1>12, <2>1, <2>3 DEF LiOnly
  <2> QED BY <2>2, <2>3
<1>15. /\ LiOnly(li, li', {"refcnt", "alive", "as"}) /\ li'.refcnt = li.refcnt - 1 /\ li'.alive \in BOOLEAN
       /\ (li.alive <=> li.refcnt > 0) => (li'.alive <=> li'.refcnt > 0)
  BY <1>6, <1>11, <1>14 DEF LiOnly
<1>16. li'.as = [li.as EXCEPT ![i] = e]
  BY <1>14
<1>17. LiTyped(li')
  <2>1. DOMAIN li'.as = AsIds /\ \A j \in AsIds : SockTyped(li'.as[j])
    BY <1>7, <1>13, <1>16 DEF LiTyped
  <2> QED BY <1>7, <1>15, <2>1 DEF LiTyped, LiOnly
<1>18. CASE li.twice
  BY <1>15, <1>17, <1>18 DEF LiInv, LiOnly
<1>19. CASE LiSafe(li)
  <2>1. ~li'.uaf /\ li'.freecalled = li.freecalled /\ (li'.alive <=> li'.refcnt > 0)
    BY <1>15, <1>19 DEF LiOnly, LiSafe
  <2>2. SockCalm(li.as[i]) /\ (~li.freecalled => li.as[i].alive /\ ~li.as[i].free_on_cb)
    BY <1>19 DEF LiSafe
  <2>3. SockCalm(e)
    BY <1>1, <1>8, <1>13, <2>2 DEF SockCalm
  <2>4. ~li.freecalled => e.alive /\ ~e.free_on_cb
    BY <1>8, <1>13, <2>2
  <2>5. li'.refcnt = li.refcnt + One(e.alive) - One(li.as[i].alive) + One(e.incb) - One(li.as[i].incb)
    <3>1. One(e.alive) = One(li.as[i].alive) /\ One(e.alive) \in Int /\ One(e.incb) = 0 /\ One(li.as[i].incb) = 1
      BY <1>1, <1>8, <1>13 DEF One
    <3>2. li.refcnt \in Int
      BY <1>7 DEF LiTyped
    <3> QED BY <1>15, <3>1, <3>2
  <2>6. LiSafe(li')
    BY <1>7, <1>13, <1>16, <1>19, <2>1, <2>3, <2>4, <2>5, SocketChanges
  <2> QED BY <1>17, <2>6 DEF LiInv
<1> QED BY <1>18, <1>19 DEF LiInv

LEMMA LiRestarts ==
  ASSUME LiInv, A!Restarts
  PROVE  LiInv'
<1>1. PICK i \in AsIds :
        /\ li.as[i].restart
        /\ li' \in A!start_accepting([li EXCEPT !.as[i].restart = FALSE,
                                              !.uaf = @ \/ ~li.as[i].alive \/ ~li.alive], i)
  BY DEF A!Restarts
<1>2. PICK h : h = [li EXCEPT !.as[i].restart = FALSE, !.uaf = @ \/ ~li.as[i].alive \/ ~li.alive]
  OBVIOUS
<1>3. PICK u \in BOOLEAN : u <=> (li.uaf \/ ~li.as[i].alive \/ ~li.alive)
  OBVIOUS
<1>4. PICK a : a = [li.as[i] EXCEPT !.restart = FALSE]
  OBVIOUS
<1>5. SockTyped(li.as[i]) /\ LiTyped(li)
  BY DEF LiInv, LiTyped
<1>6. /\ SockTyped(a) /\ a.restart = FALSE /\ a.io = li.as[i].io /\ a.deferred = li.as[i].deferred
      /\ a.alive = li.as[i].alive /\ a.free_on_cb = li.as[i].free_on_cb /\ a.early = li.as[i].early
      /\ a.error = li.as[i].error /\ a.incb = li.as[i].incb /\ a.s = li.as[i].s
  BY <1>4, <1>5 DEF SockTyped, SockFields
<1>7. LiOnly(li, h, {"as", "uaf"}) /\ h.as = [li.as EXCEPT ![i] = a] /\ h.uaf \in BOOLEAN /\ (h.uaf <=> u)
  BY <1>2, <1>3, <1>4, <1>5 DEF LiTyped, LiFields, LiOnly
<1>8. DOMAIN h.as = AsIds /\ h.as[i] = a /\ \A j \in AsIds : j # i => h.as[j] = li.as[j]
  BY <1>5, <1>7 DEF LiTyped
<1>9. LiTyped(h)
  <2>1. \A j \in AsIds : SockTyped(h.as[j])
    BY <1>5, <1>6, <1>8 DEF LiTyped
  <2> QED BY <1>5, <1>7, <1>8, <2>1 DEF LiTyped, LiOnly
<1>10. ASSUME LiSafe(li)
       PROVE  LiSafe(h) /\ h.as[i].alive
  <2>1. \A j \in AsIds : SockCalm(li.as[j]) /\ (~li.freecalled => ~li.as[j].free_on_cb)
    BY <1>10 DEF LiSafe
  <2>2. li.as[i].alive
    BY <1>1, <2>1 DEF SockCalm
  <2>3. ~h.uaf
    BY <1>3, <1>5, <1>7, <1>10, <2>2, SocketKeepsListener DEF LiSafe
  <2>4. SockCalm(a)
    BY <1>6, <2>1 DEF SockCalm
  <2>5. \A j \in AsIds : /\ SockCalm(h.as[j]) /\ h.as[j].alive = li.as[j].alive /\ h.as[j].incb = li.as[j].incb
                         /\ ~li.freecalled => ~h.as[j].free_on_cb
    BY <1>6, <1>8, <2>1, <2>4
  <2>6. h.freecalled = li.freecalled /\ h.refcnt = li.refcnt /\ h.alive = li.alive
    BY <1>7 DEF LiOnly
  <2>7. LiSafe(h)
    BY <1>5, <1>10, <2>3, <2>5, <2>6, SocketsStay
  <2> QED BY <2>2, <2>5, <2>7
<1>11. h.twice = li.twice
  BY <1>7 DEF LiOnly
<1>12. (h.twice \/ LiSafe(h)) /\ (h.twice \/ h.as[i].alive)
  BY <1>10, <1>11 DEF LiInv
<1> QED BY <1>1, <1>2, <1>9, <1>12, StartsAccepting DEF LiInv

\* free_and_unlock_accepting_socket
SocketFreed(h, g, i, b) ==
  /\ LiOnly(h, g, {"refcnt", "alive", "as", "uaf"}) /\ g.as = [h.as EXCEPT ![i] = b]
  /\ SockTyped(b) /\ b.io = h.as[i].io /\ ~b.deferred /\ ~b.incb /\ ~b.alive /\ ~b.free_on_cb
  /\ ~b.early /\ ~b.error /\ ~b.restart
  /\ g.refcnt = h.refcnt - 1
  /\ g.uaf \in BOOLEAN /\ (g.uaf <=> h.uaf \/ ~h.as[i].alive)
  /\ g.alive \in BOOLEAN /\ ((h.alive <=> h.refcnt > 0) => (g.alive <=> g.refcnt > 0))

LEMMA FreesSocket ==
  ASSUME NEW h, LiTyped(h), NEW i \in AsIds, NEW g, g = A!free_and_unlock_accepting_socket(h, i)
  PROVE  \E b : SocketFreed(h, g, i, b)
<1>1. PICK b : b = [A!Idle EXCEPT !.alive = FALSE, !.io = h.as[i].io]
  OBVIOUS
<1>2. h.as[i].io \in Int
  BY DEF LiTyped, SockTyped
<1>3. /\ SockTyped(b) /\ b.io = h.as[i].io /\ ~b.deferred /\ ~b.incb /\ ~b.alive /\ ~b.free_on_cb
      /\ ~b.early /\ ~b.error /\ ~b.restart
  BY <1>1, <1>2 DEF A!Idle, SockTyped, SockFields
<1>4. PICK u \in BOOLEAN : u <=> (h.uaf \/ ~h.as[i].alive)
  OBVIOUS
<1>5. PICK k : k = [h EXCEPT !.as[i] = b, !.uaf = @ \/ ~h.as[i].alive]
  OBVIOUS
<1>6. LiOnly(h, k, {"as", "uaf"}) /\ k.as = [h.as EXCEPT ![i] = b] /\ k.uaf \in BOOLEAN /\ (k.uaf <=> u)
  BY <1>4, <1>5 DEF LiTyped, LiFields, LiOnly
<1>7. LiTyped(k)
  <2>1. DOMAIN k.as = AsIds /\ \A j \in AsIds : SockTyped(k.as[j])
    BY <1>3, <1>6 DEF LiTyped
  <2> QED BY <1>6, <2>1 DEF LiTyped, LiOnly
<1>8. g = A!listener_decref_and_unlock(k)
  BY <1>1, <1>5 DEF A!free_and_unlock_accepting_socket
<1>9. /\ LiOnly(k, g, {"refcnt", "alive"}) /\ g.refcnt = k.refcnt - 1 /\ g.alive \in BOOLEAN
      /\ (k.alive <=> k.refcnt > 0) => (g.alive <=> g.refcnt > 0)
  BY <1>7, <1>8, LiDecref
<1>10. LiOnly(h, g, {"refcnt", "alive", "as", "uaf"}) /\ g.as = k.as /\ g.uaf = k.uaf
       /\ k.refcnt = h.refcnt /\ k.alive = h.alive
  BY <1>6, <1>9 DEF LiOnly
<1>11. SocketFreed(h, g, i, b)
  BY <1>3, <1>4, <1>6, <1>9, <1>10 DEF SocketFreed
<1> QED BY <1>11

\* accepted_socket_cb: the completion of an operation is used up, and the socket goes
\* or stays.
CompletionUsed(g, i, d) ==
  /\ LiOnly(li, g, {"refcnt", "alive", "as", "uaf"}) /\ g.as = [li.as EXCEPT ![i] = d]
  /\ SockTyped(d) /\ d.io = li.as[i].io - 1 /\ ~d.early
  /\ g.uaf \in BOOLEAN /\ (g.uaf <=> li.uaf \/ ~li.as[i].alive) /\ g.alive \in BOOLEAN
  /\ \/ /\ d.alive = li.as[i].alive /\ d.incb = li.as[i].incb /\ d.free_on_cb = li.as[i].free_on_cb
        /\ d.restart = li.as[i].restart /\ d.s = li.as[i].s /\ (li.as[i].deferred => d.deferred)
        /\ (li.as[i].error => li.as[i].deferred) => (d.error => d.deferred)
        /\ g.refcnt = li.refcnt /\ g.alive = li.alive
     \/ /\ li.as[i].free_on_cb /\ ~d.alive /\ ~d.incb /\ ~d.deferred /\ ~d.restart /\ ~d.error
        /\ g.refcnt = li.refcnt - 1 /\ ((li.alive <=> li.refcnt > 0) => (g.alive <=> g.refcnt > 0))

CompletionOf(g, i, ok, d) ==
  /\ CompletionUsed(g, i, d) /\ (~ok /\ li.as[i].free_on_cb => ~d.alive)
  /\ ok => d.deferred /\ d.alive = li.as[i].alive

LEMMA UsesCompletion ==
  ASSUME LiInv, NEW i \in AsIds, NEW ok \in BOOLEAN, NEW g, g = A!accepted_socket_cb(i, ok)
  PROVE  \E d : CompletionOf(g, i, ok, d)
<1>1. PICK u \in BOOLEAN : u <=> (li.uaf \/ ~li.as[i].alive)
  OBVIOUS
<1>2. PICK c : c = [li.as[i] EXCEPT !.io = @ - 1, !.early = FALSE]
  OBVIOUS
<1>3. PICK h : h = [li EXCEPT !.as[i].io = @ - 1, !.as[i].early = FALSE, !.uaf = @ \/ ~li.as[i].alive]
  OBVIOUS
<1>4. SockTyped(li.as[i]) /\ LiTyped(li)
  BY DEF LiInv, LiTyped
<1>5. /\ SockTyped(c) /\ c.io = li.as[i].io - 1 /\ c.deferred = li.as[i].deferred /\ c.incb = li.as[i].incb
      /\ c.alive = li.as[i].alive /\ c.free_on_cb = li.as[i].free_on_cb /\ c.early = FALSE
      /\ c.restart = li.as[i].restart /\ c.error = li.as[i].error /\ c.s = li.as[i].s
  BY <1>2, <1>4 DEF SockTyped, SockFields
<1>6. LiOnly(li, h, {"as", "uaf"}) /\ h.as = [li.as EXCEPT ![i] = c] /\ h.uaf \in BOOLEAN /\ (h.uaf <=> u)
  BY <1>1, <1>2, <1>3, <1>4 DEF LiTyped, LiFields, LiOnly
<1>7. DOMAIN h.as = AsIds /\ h.as[i] = c /\ \A j \in AsIds : SockTyped(h.as[j])
  BY <1>4, <1>5, <1>6 DEF LiTyped
<1>8. LiTyped(h)
  BY <1>4, <1>6, <1>7 DEF LiTyped, LiOnly
<1>9. /\ ok => g = [h EXCEPT !.as[i].deferred = TRUE]
      /\ ~ok /\ li.as[i].free_on_cb => g = A!free_and_unlock_accepting_socket(h, i)
      /\ ~ok /\ ~li.as[i].free_on_cb =>
           g = h \/ g = [h EXCEPT !.as[i].error = TRUE, !.as[i].deferred = TRUE]
  BY <1>3 DEF A!accepted_socket_cb
<1>10. CASE g = h /\ ~li.as[i].free_on_cb /\ ~ok
  <2>1. CompletionUsed(g, i, c)
    BY <1>1, <1>5, <1>6, <1>8, <1>10 DEF CompletionUsed, LiOnly, LiTyped
  <2> QED BY <1>10, <2>1 DEF CompletionOf
<1>11. CASE ~ok /\ li.as[i].free_on_cb
  <2>1. PICK b : SocketFreed(h, g, i, b)
    BY <1>8, <1>9, <1>11, FreesSocket
  <2>2. LiOnly(li, g, {"refcnt", "alive", "as", "uaf"}) /\ h.refcnt = li.refcnt /\ h.alive = li.alive
    BY <1>6, <2>1 DEF LiOnly, SocketFreed
  <2>3. g.as = [li.as EXCEPT ![i] = b]
    BY <1>4, <1>6, <2>1 DEF SocketFreed, LiTyped
  <2>4. CompletionUsed(g, i, b)
    BY <1>1, <1>5, <1>6, <1>7, <1>11, <2>1, <2>2, <2>3 DEF CompletionUsed, SocketFreed
  <2> QED BY <1>11, <2>1, <2>4 DEF SocketFreed, CompletionOf
<1>12. ASSUME g = [h EXCEPT !.as[i].deferred = TRUE] \/ g = [h EXCEPT !.as[i].error = TRUE, !.as[i].deferred = TRUE]
       PROVE  \E d : CompletionUsed(g, i, d) /\ d.deferred /\ d.alive = li.as[i].alive
  <2>1. PICK d : /\ d = [c EXCEPT !.deferred = TRUE] \/ d = [c EXCEPT !.error = TRUE, !.deferred = TRUE]
                 /\ LiOnly(h, g, {"as"}) /\ g.as = [h.as EXCEPT ![i] = d]
    <3>1. CASE g = [h EXCEPT !.as[i].deferred = TRUE]
      <4>1. PICK d : d = [c EXCEPT !.deferred = TRUE]
        OBVIOUS
      <4>2. LiOnly(h, g, {"as"}) /\ g.as = [h.as EXCEPT ![i] = d]
        BY <1>7, <1>8, <3>1, <4>1 DEF LiTyped, LiFields, LiOnly
      <4> QED BY <4>1, <4>2
    <3>2. CASE g = [h EXCEPT !.as[i].error = TRUE, !.as[i].deferred = TRUE]
      <4>1. PICK d : d = [c EXCEPT !.error = TRUE, !.deferred = TRUE]
        OBVIOUS
      <4>2. LiOnly(h, g, {"as"}) /\ g.as = [h.as EXCEPT ![i] = d]
        BY <1>7, <1>8, <3>2, <4>1 DEF LiTyped, LiFields, LiOnly
      <4> QED BY <4>1, <4>2
    <3> QED BY <1>12, <3>1, <3>2
  <2>2. /\ SockTyped(d) /\ d.io = c.io /\ d.alive = c.alive /\ d.incb = c.incb /\ d.free_on_cb = c.free_on_cb
        /\ d.early = c.early /\ d.restart = c.restart /\ d.s = c.s /\ d.deferred = TRUE
    BY <1>5, <2>1 DEF SockTyped, SockFields
  <2>3. LiOnly(li, g, {"refcnt", "alive", "as", "uaf"}) /\ g.refcnt = li.refcnt /\ g.alive = li.alive /\ g.uaf = h.uaf
    BY <1>6, <2>1 DEF LiOnly
  <2>4. g.as = [li.as EXCEPT ![i] = d]
    BY <1>4, <1>6, <2>1 DEF LiTyped
  <2>5. CompletionUsed(g, i, d)
    BY <1>1, <1>4, <1>5, <1>6, <2>2, <2>3, <2>4 DEF CompletionUsed, LiTyped
  <2> QED BY <1>5, <2>2, <2>5
<1>13. CASE ok
  BY <1>9, <1>12, <1>13 DEF CompletionOf
<1>14. CASE ~ok /\ ~li.as[i].free_on_cb
  BY <1>9, <1>10, <1>12, <1>14 DEF CompletionOf
<1> QED BY <1>11, <1>13, <1>14

LEMMA CompletionKeeps ==
  ASSUME LiInv, NEW i \in AsIds, li.as[i].io > 0, NEW g, NEW d, CompletionUsed(g, i, d),
         DOMAIN li' = LiFields, LiOnly(g, li', {"as"}), NEW e, li'.as = [g.as EXCEPT ![i] = e],
         SockTyped(e), e.io = d.io, e.deferred = d.deferred, e.alive = d.alive, e.incb = d.incb,
         e.free_on_cb = d.free_on_cb, e.early = d.early, e.error = d.error, e.restart = d.restart,
         e.s = d.s \/ ~li.as[i].early, li.as[i].early => d.alive = li.as[i].alive
  PROVE  LiInv'
<1>1. LiTyped(li)
  BY DEF LiInv
<1>2. li'.as = [li.as EXCEPT ![i] = e]
  BY <1>1 DEF CompletionUsed, LiTyped
<1>3. DOMAIN li'.as = AsIds /\ \A j \in AsIds : SockTyped(li'.as[j])
  BY <1>1, <1>2 DEF LiTyped
<1>4. /\ LiOnly(li, li', {"refcnt", "alive", "as", "uaf"}) /\ li'.refcnt = g.refcnt /\ li'.alive = g.alive
      /\ li'.uaf = g.uaf
  BY DEF LiOnly, CompletionUsed
<1>5. g.refcnt \in Int
  BY <1>1 DEF CompletionUsed, LiTyped
<1>6. LiTyped(li')
  BY <1>1, <1>3, <1>4, <1>5 DEF LiTyped, LiOnly, CompletionUsed
<1>7. CASE li.twice
  BY <1>4, <1>6, <1>7 DEF LiInv, LiOnly
<1>8. CASE LiSafe(li)
  <2>1. SockCalm(li.as[i]) /\ li.as[i].alive /\ li.as[i].io = 1
    BY <1>8 DEF LiSafe, SockCalm
  <2>2. ~li'.uaf /\ li'.freecalled = li.freecalled
    BY <1>4, <1>8, <2>1 DEF LiOnly, LiSafe, CompletionUsed
  <2>3. ~d.alive => ~li.as[i].incb
    BY <2>1 DEF SockCalm
  <2>4. SockCalm(e)
    <3>1. e.io = 0 /\ ~e.early
      BY <2>1 DEF CompletionUsed
    <3>2. CASE ~d.alive /\ ~d.incb /\ ~d.deferred /\ ~d.restart /\ ~d.error
      BY <3>1, <3>2 DEF SockCalm
    <3>3. CASE /\ d.alive = li.as[i].alive /\ d.incb = li.as[i].incb /\ d.restart = li.as[i].restart /\ d.s = li.as[i].s
               /\ (li.as[i].error => li.as[i].deferred) => (d.error => d.deferred)
      BY <2>1, <3>1, <3>3 DEF SockCalm
    <3> QED BY <3>2, <3>3 DEF CompletionUsed
  <2>5. ~li.freecalled => e.alive /\ ~e.free_on_cb
    BY <1>8, <2>1 DEF LiSafe, CompletionUsed
  <2>6. li'.alive <=> li'.refcnt > 0
    BY <1>4, <1>8 DEF LiSafe, CompletionUsed
  <2>7. li'.refcnt = li.refcnt + One(e.alive) - One(li.as[i].alive) + One(e.incb) - One(li.as[i].incb)
    <3>1. li.refcnt \in Int
      BY <1>1 DEF LiTyped
    <3>2. One(li.as[i].alive) = 1 /\ One(li.as[i].incb) \in Int
      BY <2>1 DEF One
    <3>3. CASE d.alive
      <4>1. li'.refcnt = li.refcnt /\ One(e.alive) = 1 /\ One(e.incb) = One(li.as[i].incb)
        BY <1>4, <3>3 DEF One, CompletionUsed
      <4> QED BY <3>1, <3>2, <4>1
    <3>4. CASE ~d.alive
      <4>1. ~e.incb /\ li'.refcnt = li.refcnt - 1
        BY <1>4, <2>1, <2>3, <3>4 DEF CompletionUsed
      <4>2. One(e.alive) = 0 /\ One(e.incb) = 0 /\ One(li.as[i].incb) = 0
        BY <2>3, <3>4, <4>1 DEF One
      <4> QED BY <3>1, <3>2, <4>1, <4>2
    <3> QED BY <3>3, <3>4
  <2>8. LiSafe(li')
    BY <1>1, <1>2, <1>8, <2>2, <2>4, <2>5, <2>6, <2>7, SocketChanges
  <2> QED BY <1>6, <2>8 DEF LiInv
<1> QED BY <1>7, <1>8 DEF LiInv

LEMMA LiCompletes ==
  ASSUME LiInv, A!Completes
  PROVE  LiInv'
<1>1. PICK i \in AsIds :
        /\ li.as[i].io > 0
        /\ \/ li.as[i].early /\ li' = A!accepted_socket_cb(i, TRUE)
           \/ ~li.as[i].early /\ li' = [A!accepted_socket_cb(i, TRUE) EXCEPT !.as[i].s = "conn"]
           \/ ~li.as[i].early /\ li' = A!accepted_socket_cb(i, FALSE)
  BY DEF A!Completes
<1>2. CASE ~li.as[i].early /\ li' = [A!accepted_socket_cb(i, TRUE) EXCEPT !.as[i].s = "conn"]
  <2>1. PICK g : g = A!accepted_socket_cb(i, TRUE)
    OBVIOUS
  <2>2. PICK d : CompletionUsed(g, i, d)
    BY <2>1, UsesCompletion, Zenon DEF CompletionOf
  <2>3. PICK e : e = [d EXCEPT !.s = "conn"]
    OBVIOUS
  <2>4. /\ SockTyped(e) /\ e.io = d.io /\ e.deferred = d.deferred /\ e.alive = d.alive /\ e.incb = d.incb
        /\ e.free_on_cb = d.free_on_cb /\ e.early = d.early /\ e.error = d.error /\ e.restart = d.restart
    BY <2>2, <2>3 DEF SockTyped, SockFields, CompletionUsed
  <2>5. DOMAIN g.as = AsIds /\ g.as[i] = d
    BY <2>2 DEF CompletionUsed, LiInv, LiTyped
  <2>6. LiOnly(g, li', {"as"}) /\ li'.as = [g.as EXCEPT ![i] = e] /\ DOMAIN li' = LiFields
    BY <1>2, <2>1, <2>2, <2>3, <2>5 DEF CompletionUsed, LiOnly, LiFields
  <2>7. (e.s = d.s \/ ~li.as[i].early) /\ (li.as[i].early => d.alive = li.as[i].alive)
    BY <1>2
  <2> QED BY <1>1, <2>2, <2>4, <2>6, <2>7, CompletionKeeps
<1>3. CASE \E ok \in BOOLEAN : li' = A!accepted_socket_cb(i, ok) /\ (li.as[i].early => ok)
  <2>1. PICK ok \in BOOLEAN : li' = A!accepted_socket_cb(i, ok) /\ (li.as[i].early => ok)
    BY <1>3
  <2>2. PICK g : g = A!accepted_socket_cb(i, ok)
    OBVIOUS
  <2>3. PICK d : CompletionUsed(g, i, d) /\ (ok => d.alive = li.as[i].alive)
    BY <2>2, UsesCompletion, Zenon DEF CompletionOf
  <2>4. LiOnly(g, li', {"as"}) /\ li'.as = g.as /\ DOMAIN li' = LiFields
    BY <2>1, <2>2, <2>3 DEF CompletionUsed, LiOnly
  <2>5. li'.as = [g.as EXCEPT ![i] = d]
    BY <2>3, <2>4 DEF CompletionUsed, LiInv, LiTyped
  <2>6. SockTyped(d)
    BY <2>3 DEF CompletionUsed
  <2> QED BY <1>1, <2>1, <2>3, <2>4, <2>5, <2>6, CompletionKeeps
<1> QED BY <1>1, <1>2, <1>3

LEMMA LiInvokes ==
  ASSUME LiInv, A!accepted_socket_invoke_user_cb
  PROVE  LiInv'
<1>1. PICK i \in AsIds : \E h :
       /\ li.as[i].deferred /\ ~li.as[i].incb /\ ~li.as[i].restart
       /\ h = [li EXCEPT !.as[i].deferred = FALSE]
       /\ li' = IF h.as[i].free_on_cb THEN A!free_and_unlock_accepting_socket([h EXCEPT !.twice = @ \/ h.as[i].early], i)
                ELSE [h EXCEPT !.refcnt = @ + 1, !.as[i].error = FALSE, !.as[i].incb = TRUE,
                               !.as[i].s = IF h.as[i].error THEN @ ELSE "none"]
  BY Zenon DEF A!accepted_socket_invoke_user_cb
<1>2. PICK h :
       /\ h = [li EXCEPT !.as[i].deferred = FALSE]
       /\ li' = IF h.as[i].free_on_cb THEN A!free_and_unlock_accepting_socket([h EXCEPT !.twice = @ \/ h.as[i].early], i)
                ELSE [h EXCEPT !.refcnt = @ + 1, !.as[i].error = FALSE, !.as[i].incb = TRUE,
                               !.as[i].s = IF h.as[i].error THEN @ ELSE "none"]
  BY <1>1
<1>3. PICK c : c = [li.as[i] EXCEPT !.deferred = FALSE]
  OBVIOUS
<1>4. SockTyped(li.as[i]) /\ LiTyped(li)
  BY DEF LiInv, LiTyped
<1>5. /\ SockTyped(c) /\ ~c.deferred /\ c.io = li.as[i].io /\ c.incb = li.as[i].incb
      /\ c.alive = li.as[i].alive /\ c.free_on_cb = li.as[i].free_on_cb /\ c.early = li.as[i].early
      /\ c.restart = li.as[i].restart /\ c.error = li.as[i].error /\ c.s = li.as[i].s
  BY <1>3, <1>4 DEF SockTyped, SockFields
<1>6. LiOnly(li, h, {"as"}) /\ h.as = [li.as EXCEPT ![i] = c]
  BY <1>2, <1>3, <1>4 DEF LiTyped, LiFields, LiOnly
<1>7. DOMAIN h.as = AsIds /\ h.as[i] = c /\ \A j \in AsIds : SockTyped(h.as[j])
  BY <1>4, <1>5, <1>6 DEF LiTyped
<1>8. LiTyped(h)
  BY <1>4, <1>6, <1>7 DEF LiTyped, LiOnly
<1>9. CASE c.free_on_cb
  <2>0. PICK k : k = [h EXCEPT !.twice = @ \/ h.as[i].early]
    OBVIOUS
  <2>1. li' = A!free_and_unlock_accepting_socket(k, i)
    BY <1>2, <1>7, <1>9, <2>0
  <2>1a. PICK u \in BOOLEAN : u <=> (li.twice \/ c.early)
    OBVIOUS
  <2>1b. LiOnly(h, k, {"twice"}) /\ k.twice \in BOOLEAN /\ (k.twice <=> u)
    BY <1>4, <1>5, <1>6, <1>7, <1>8, <2>0, <2>1a DEF LiTyped, LiFields, LiOnly, SockTyped
  <2>1c. LiTyped(k)
    BY <1>8, <2>1b DEF LiTyped, LiOnly
  <2>2. PICK b : SocketFreed(k, li', i, b)
    BY <2>1, <2>1c, FreesSocket
  <2>3. /\ LiOnly(li, li', {"refcnt", "alive", "as", "uaf", "twice"}) /\ k.refcnt = li.refcnt /\ k.alive = li.alive
        /\ k.uaf = li.uaf /\ k.as = h.as /\ li'.twice = k.twice
    BY <1>6, <2>1b, <2>2 DEF LiOnly, SocketFreed
  <2>4. li'.as = [li.as EXCEPT ![i] = b]
    BY <1>4, <1>6, <2>2, <2>3 DEF SocketFreed, LiTyped
  <2>5. DOMAIN li'.as = AsIds /\ \A j \in AsIds : SockTyped(li'.as[j])
    BY <1>4, <2>2, <2>4 DEF LiTyped, SocketFreed
  <2>6. li'.refcnt \in Int
    BY <1>4, <2>2, <2>3 DEF LiTyped, SocketFreed
  <2>7. LiTyped(li')
    BY <1>4, <2>1b, <2>2, <2>3, <2>5, <2>6 DEF LiTyped, LiOnly, SocketFreed
  <2>8. CASE u
    BY <2>1b, <2>3, <2>7, <2>8 DEF LiInv
  <2>9. CASE ~u /\ LiSafe(li)
    <3>1. li.as[i].alive /\ li.as[i].io = 0 /\ ~li.as[i].incb /\ li.freecalled
      BY <1>1, <1>5, <1>9, <2>1a, <2>9 DEF LiSafe, SockCalm
    <3>2. ~li'.uaf /\ li'.freecalled = li.freecalled
      BY <1>5, <1>7, <2>2, <2>3, <2>9, <3>1 DEF LiOnly, LiSafe, SocketFreed
    <3>3. SockCalm(b)
      BY <1>5, <1>7, <2>2, <2>3, <3>1 DEF SocketFreed, SockCalm
    <3>4. li'.alive <=> li'.refcnt > 0
      BY <2>2, <2>3, <2>9 DEF LiSafe, SocketFreed
    <3>5. li'.refcnt = li.refcnt + One(b.alive) - One(li.as[i].alive) + One(b.incb) - One(li.as[i].incb)
      <4>1. One(b.alive) = 0 /\ One(li.as[i].alive) = 1 /\ One(b.incb) = 0 /\ One(li.as[i].incb) = 0
        BY <2>2, <3>1 DEF One, SocketFreed
      <4>2. li'.refcnt = li.refcnt - 1 /\ li.refcnt \in Int
        BY <1>4, <2>2, <2>3 DEF SocketFreed, LiTyped
      <4> QED BY <4>1, <4>2
    <3>6. SockTyped(b)
      BY <2>2 DEF SocketFreed
    <3>7. LiSafe(li')
      BY <1>4, <2>4, <2>9, <3>1, <3>2, <3>3, <3>4, <3>5, <3>6, SocketChanges
    <3> QED BY <2>7, <3>7 DEF LiInv
  <2> QED BY <2>1a, <2>8, <2>9 DEF LiInv
<1>10. CASE ~c.free_on_cb
  <2>2. PICK d : d = [c EXCEPT !.error = FALSE, !.incb = TRUE, !.s = IF c.error THEN @ ELSE "none"]
    OBVIOUS
  <2>3. /\ SockTyped(d) /\ d.incb /\ d.io = c.io /\ d.deferred = c.deferred /\ d.alive = c.alive
        /\ d.free_on_cb = c.free_on_cb /\ d.early = c.early /\ d.restart = c.restart /\ d.error = FALSE
        /\ ~c.error => d.s = "none"
    BY <1>5, <2>2 DEF SockTyped, SockFields
  <2>4. li' = [h EXCEPT !.refcnt = @ + 1, !.as[i].error = FALSE, !.as[i].incb = TRUE,
                        !.as[i].s = IF h.as[i].error THEN @ ELSE "none"]
    BY <1>2, <1>7, <1>10
  <2>5. LiOnly(h, li', {"refcnt", "as"}) /\ li'.refcnt = h.refcnt + 1 /\ li'.as = [h.as EXCEPT ![i] = d]
    BY <1>7, <1>8, <2>2, <2>4 DEF LiTyped, LiFields, LiOnly
  <2>6. LiOnly(li, li', {"refcnt", "as"}) /\ li'.refcnt = li.refcnt + 1 /\ li'.as = [li.as EXCEPT ![i] = d]
    BY <1>4, <1>6, <2>5 DEF LiTyped, LiOnly
  <2>7. DOMAIN li'.as = AsIds /\ \A j \in AsIds : SockTyped(li'.as[j])
    BY <1>4, <2>3, <2>6 DEF LiTyped
  <2>8. LiTyped(li')
    BY <1>4, <2>6, <2>7 DEF LiTyped, LiOnly
  <2>9. CASE li.twice
    BY <2>6, <2>8, <2>9 DEF LiInv, LiOnly
  <2>10. CASE LiSafe(li)
    <3>1. SockCalm(li.as[i]) /\ li.as[i].alive /\ ~li.as[i].incb /\ li.as[i].deferred /\ ~li.as[i].restart
      BY <1>1, <2>10 DEF LiSafe, SockCalm
    <3>2. ~li'.uaf /\ li'.freecalled = li.freecalled
      BY <2>6, <2>10 DEF LiOnly, LiSafe
    <3>3. SockCalm(d)
      BY <1>5, <2>3, <3>1 DEF SockCalm
    <3>4. One(d.alive) = 1 /\ One(li.as[i].alive) = 1 /\ One(d.incb) = 1 /\ One(li.as[i].incb) = 0
      BY <1>5, <2>3, <3>1 DEF One
    <3>5. li'.refcnt = li.refcnt + One(d.alive) - One(li.as[i].alive) + One(d.incb) - One(li.as[i].incb)
      BY <1>4, <2>6, <3>4 DEF LiTyped
    <3>6. li.refcnt > 0 /\ li.refcnt \in Nat /\ li.alive
      BY <1>4, <2>10, <3>1, SocketKeepsListener
    <3>7. li'.alive <=> li'.refcnt > 0
      <4>1. li'.alive = li.alive
        BY <2>6 DEF LiOnly
      <4> QED BY <2>6, <3>6, <4>1
    <3>8. ~li.freecalled => d.alive /\ ~d.free_on_cb
      BY <1>5, <1>10, <2>3, <3>1
    <3>9. LiSafe(li')
      BY <1>4, <2>3, <2>6, <2>10, <3>2, <3>3, <3>5, <3>7, <3>8, SocketChanges
    <3> QED BY <2>8, <3>9 DEF LiInv
  <2> QED BY <2>9, <2>10 DEF LiInv
<1> QED BY <1>9, <1>10

LEMMA LiEnable ==
  ASSUME LiInv, A!Enable
  PROVE  LiInv'
<1>1. PICK h : h = [li EXCEPT !.calls = @ + 1]
  OBVIOUS
<1>2. LiTyped(li)
  BY DEF LiInv
<1>3. LiOnly(li, h, {})
  BY <1>1, <1>2 DEF LiTyped, LiFields, LiOnly
<1>4. ~li.freecalled /\ li' \in A!iocp_listener_enable(h)
  BY <1>1 DEF A!Enable, A!MayCall, A!Called
<1>5. \E starts : \E how \in [AsIds -> A!Outcomes] :
        li' = [h EXCEPT !.enabled = TRUE, !.event_added = TRUE, !.twice = @ \/ \E i \in starts : A!Busy(h.as[i]),
                        !.as = [i \in AsIds |-> IF i \in starts THEN A!Started(@[i], how[i]) ELSE @[i]]]
  BY <1>4, Zenon DEF A!iocp_listener_enable
<1>6. PICK starts : \E how \in [AsIds -> A!Outcomes] :
        li' = [h EXCEPT !.enabled = TRUE, !.event_added = TRUE, !.twice = @ \/ \E i \in starts : A!Busy(h.as[i]),
                        !.as = [i \in AsIds |-> IF i \in starts THEN A!Started(@[i], how[i]) ELSE @[i]]]
  BY <1>5
<1>6a. PICK how \in [AsIds -> A!Outcomes] :
        li' = [h EXCEPT !.enabled = TRUE, !.event_added = TRUE, !.twice = @ \/ \E i \in starts : A!Busy(h.as[i]),
                        !.as = [i \in AsIds |-> IF i \in starts THEN A!Started(@[i], how[i]) ELSE @[i]]]
  BY <1>6
<1>7. PICK t \in BOOLEAN : t <=> (h.twice \/ \E i \in starts : A!Busy(h.as[i]))
  OBVIOUS
<1>8. /\ LiOnly(h, li', {"enabled", "twice", "as"}) /\ li'.enabled = TRUE
      /\ li'.twice \in BOOLEAN /\ (li'.twice <=> t)
  BY <1>3, <1>6a, <1>7 DEF LiOnly, LiFields
<1>9. li'.as = [i \in AsIds |-> IF i \in starts THEN A!Started(h.as[i], how[i]) ELSE h.as[i]]
  BY <1>3, <1>6a DEF LiOnly, LiFields
<1>10. /\ LiOnly(li, li', {"enabled", "twice", "as"}) /\ h.as = li.as /\ h.twice = li.twice
  BY <1>3, <1>8 DEF LiOnly
<1>11. ASSUME NEW i \in AsIds
       PROVE  /\ SockTyped(li'.as[i]) /\ li'.as[i].alive = li.as[i].alive /\ li'.as[i].incb = li.as[i].incb
              /\ li'.as[i].free_on_cb = li.as[i].free_on_cb
              /\ ~t /\ SockCalm(li.as[i]) /\ li.as[i].alive => SockCalm(li'.as[i])
  <2>1. SockTyped(li.as[i])
    BY <1>2 DEF LiTyped
  <2>2. CASE i \in starts
    <3>1. li'.as[i] = A!Started(li.as[i], how[i]) /\ how[i] \in A!Outcomes
      BY <1>6a, <1>9, <1>10, <2>2
    <3>2. PICK b : b = A!Started(li.as[i], how[i])
      OBVIOUS
    <3>3. /\ SockTyped(b) /\ b.alive = li.as[i].alive /\ b.incb = li.as[i].incb
          /\ b.free_on_cb = li.as[i].free_on_cb
          /\ SockCalm(li.as[i]) /\ ~A!Busy(li.as[i]) /\ li.as[i].alive => SockCalm(b)
      BY <2>1, <3>1, <3>2, StartedCalm
    <3>4. ~t => ~A!Busy(li.as[i])
      BY <1>7, <1>10, <2>2
    <3> QED BY <3>1, <3>2, <3>3, <3>4
  <2>3. CASE i \notin starts
    <3>1. li'.as[i] = li.as[i]
      BY <1>9, <1>10, <2>3
    <3> QED BY <2>1, <3>1
  <2> QED BY <2>2, <2>3
<1>12. DOMAIN li'.as = AsIds
  BY <1>9
<1>13. LiTyped(li')
  BY <1>2, <1>8, <1>10, <1>11, <1>12 DEF LiTyped, LiOnly
<1>14. CASE t
  BY <1>8, <1>13, <1>14 DEF LiInv
<1>15. CASE ~t
  <2>1. LiSafe(li)
    BY <1>7, <1>10, <1>15 DEF LiInv
  <2>2. ~li'.uaf /\ li'.freecalled = li.freecalled /\ li'.refcnt = li.refcnt /\ li'.alive = li.alive
    BY <1>10, <2>1 DEF LiOnly, LiSafe
  <2>3. \A i \in AsIds : /\ SockCalm(li'.as[i]) /\ li'.as[i].alive = li.as[i].alive /\ li'.as[i].incb = li.as[i].incb
                         /\ ~li.freecalled => ~li'.as[i].free_on_cb
    BY <1>4, <1>11, <1>15, <2>1 DEF LiSafe
  <2>4. LiSafe(li')
    BY <1>2, <2>1, <2>2, <2>3, SocketsStay
  <2> QED BY <1>13, <2>4 DEF LiInv
<1> QED BY <1>14, <1>15

\* stop_accepting takes the sockets in use out of service, and marks them at a shutdown.
LEMMA LiDisables ==
  ASSUME NEW h, LiTyped(h), NEW down \in BOOLEAN,
         NEW g, g = A!iocp_listener_disable_impl(h, down)
  PROVE  /\ LiTyped(g) /\ LiOnly(h, g, {"as", "idle"})
         /\ \A i \in AsIds : /\ g.as[i].alive = h.as[i].alive /\ g.as[i].incb = h.as[i].incb
                             /\ SockCalm(h.as[i]) => SockCalm(g.as[i])
                             /\ ~down => g.as[i].free_on_cb = h.as[i].free_on_cb
<1>1. LiOnly(h, g, {"as", "idle"})
  BY DEF A!iocp_listener_disable_impl, LiTyped, LiFields, LiOnly
<1>2. g.as = [i \in AsIds |-> IF h.as[i].free_on_cb \/ h.as[i].s = "none" \/ ~h.as[i].alive THEN h.as[i]
                             ELSE [h.as[i] EXCEPT !.s = "none", !.free_on_cb = down]]
  BY DEF A!iocp_listener_disable_impl, LiTyped, LiFields
<1>3. ASSUME NEW i \in AsIds
      PROVE  /\ SockTyped(g.as[i]) /\ g.as[i].alive = h.as[i].alive /\ g.as[i].incb = h.as[i].incb
             /\ g.as[i].io = h.as[i].io /\ g.as[i].deferred = h.as[i].deferred /\ g.as[i].early = h.as[i].early
             /\ g.as[i].restart = h.as[i].restart /\ g.as[i].error = h.as[i].error
             /\ g.as[i].s \in {h.as[i].s, "none"}
             /\ ~down => g.as[i].free_on_cb = h.as[i].free_on_cb
  <2>1. SockTyped(h.as[i])
    BY DEF LiTyped
  <2>2. CASE g.as[i] = h.as[i]
    BY <2>1, <2>2
  <2>3. CASE ~h.as[i].free_on_cb /\ g.as[i] = [h.as[i] EXCEPT !.s = "none", !.free_on_cb = down]
    <3>1. /\ SockTyped(g.as[i]) /\ g.as[i].alive = h.as[i].alive /\ g.as[i].incb = h.as[i].incb
          /\ g.as[i].io = h.as[i].io /\ g.as[i].deferred = h.as[i].deferred /\ g.as[i].early = h.as[i].early
          /\ g.as[i].restart = h.as[i].restart /\ g.as[i].error = h.as[i].error
          /\ g.as[i].s = "none" /\ g.as[i].free_on_cb = down
      BY <2>1, <2>3 DEF SockTyped, SockFields
    <3>2. ~down => g.as[i].free_on_cb = h.as[i].free_on_cb
      BY <2>1, <2>3, <3>1 DEF SockTyped
    <3> QED BY <3>1, <3>2
  <2> QED BY <1>2, <2>2, <2>3
<1>4. DOMAIN g.as = AsIds
  BY <1>2
<1>5. LiTyped(g)
  BY <1>1, <1>3, <1>4 DEF LiTyped, LiOnly
<1>6. \A i \in AsIds : SockCalm(h.as[i]) => SockCalm(g.as[i])
  BY <1>3 DEF SockCalm
<1> QED BY <1>1, <1>3, <1>5, <1>6

LEMMA LiDisable ==
  ASSUME LiInv, A!Disable
  PROVE  LiInv'
<1>1. PICK h : h = [A!Called EXCEPT !.enabled = FALSE]
  OBVIOUS
<1>2. LiTyped(li)
  BY DEF LiInv
<1>3. LiOnly(li, h, {"enabled"}) /\ h.enabled = FALSE
  BY <1>1, <1>2 DEF LiTyped, LiFields, LiOnly, A!Called
<1>4. LiTyped(h)
  BY <1>2, <1>3 DEF LiTyped, LiOnly
<1>5. PICK down \in BOOLEAN : ~down /\ li' = A!iocp_listener_disable_impl(h, down)
  BY <1>1 DEF A!Disable
<1>6. h.twice \/ LiSafe(h)
  BY <1>3 DEF LiInv, LiSafe, LiOnly, Living, Running
<1>7. /\ LiTyped(li') /\ LiOnly(h, li', {"as", "idle"})
      /\ \A i \in AsIds : /\ li'.as[i].alive = h.as[i].alive /\ li'.as[i].incb = h.as[i].incb
                          /\ SockCalm(h.as[i]) => SockCalm(li'.as[i])
                          /\ li'.as[i].free_on_cb = h.as[i].free_on_cb
  BY <1>4, <1>5, LiDisables
<1>8. CASE h.twice
  BY <1>7, <1>8 DEF LiInv, LiOnly
<1>9. CASE LiSafe(h)
  <2>1. ~li'.uaf /\ li'.freecalled = h.freecalled /\ li'.refcnt = h.refcnt /\ li'.alive = h.alive
    BY <1>7, <1>9 DEF LiOnly, LiSafe
  <2>2. \A i \in AsIds : /\ SockCalm(li'.as[i]) /\ li'.as[i].alive = h.as[i].alive /\ li'.as[i].incb = h.as[i].incb
                         /\ ~h.freecalled => ~li'.as[i].free_on_cb
    BY <1>7, <1>9 DEF LiSafe
  <2>3. LiSafe(li')
    BY <1>4, <1>9, <2>1, <2>2, SocketsStay
  <2> QED BY <1>7, <2>3 DEF LiInv
<1> QED BY <1>6, <1>8, <1>9

LEMMA LiFree ==
  ASSUME LiInv, A!Free
  PROVE  LiInv'
<1>1. PICK h : h = [A!Called EXCEPT !.cb = FALSE]
  OBVIOUS
<1>2. PICK m : m = [A!Called EXCEPT !.cb = FALSE, !.freecalled = TRUE]
  OBVIOUS
<1>3. LiTyped(li)
  BY DEF LiInv
<1>4. LiOnly(li, m, {"freecalled"}) /\ m.freecalled = TRUE
  BY <1>2, <1>3 DEF LiTyped, LiFields, LiOnly, A!Called
<1>5. LiTyped(m)
  BY <1>3, <1>4 DEF LiTyped, LiOnly
<1>6. PICK k : k = A!iocp_listener_disable_impl(m, TRUE)
  OBVIOUS
<1>7. ~li.freecalled /\ li' = A!listener_decref_and_unlock(k)
  BY <1>2, <1>6 DEF A!Free, A!MayCall
<1>8. /\ LiTyped(k) /\ LiOnly(m, k, {"as", "idle"})
      /\ \A i \in AsIds : /\ k.as[i].alive = m.as[i].alive /\ k.as[i].incb = m.as[i].incb
                          /\ SockCalm(m.as[i]) => SockCalm(k.as[i])
  BY <1>5, <1>6, LiDisables
<1>9. /\ LiOnly(k, li', {"refcnt", "alive"}) /\ li'.refcnt = k.refcnt - 1 /\ li'.alive \in BOOLEAN
      /\ (k.alive <=> k.refcnt > 0) => (li'.alive <=> li'.refcnt > 0)
  BY <1>7, <1>8, LiDecref
<1>10. /\ LiOnly(li, li', {"freecalled", "as", "refcnt", "alive", "idle"}) /\ li'.freecalled = TRUE /\ li'.as = k.as
       /\ m.as = li.as /\ k.refcnt = li.refcnt /\ k.alive = li.alive
  BY <1>4, <1>8, <1>9 DEF LiOnly
<1>11. LiTyped(li')
  BY <1>3, <1>8, <1>9, <1>10 DEF LiTyped, LiOnly
<1>12. CASE li.twice
  BY <1>10, <1>11, <1>12 DEF LiInv, LiOnly
<1>13. CASE LiSafe(li)
  <2>1. Living(li') = Living(li) /\ Running(li') = Running(li)
    BY <1>8, <1>10 DEF Living, Running
  <2>2. \A i \in AsIds : SockCalm(li'.as[i])
    BY <1>8, <1>10, <1>13 DEF LiSafe
  <2>3. ~li'.uaf /\ (li'.alive <=> li'.refcnt > 0)
    BY <1>9, <1>10, <1>13 DEF LiSafe, LiOnly
  <2>4. li'.refcnt = (1 + Cardinality(Living(li)) + Cardinality(Running(li))) - 1
    BY <1>7, <1>9, <1>10, <1>13 DEF LiSafe
  <2>5. li'.refcnt = 0 + Cardinality(Living(li)) + Cardinality(Running(li))
    <3> DEFINE living == Cardinality(Living(li))
               running == Cardinality(Running(li))
    <3>1. li'.refcnt = (1 + living + running) - 1
      BY <2>4
    <3>2. Living(li) \in SUBSET AsIds /\ Running(li) \in SUBSET AsIds
      BY DEF Living, Running
    <3>3. living \in Nat /\ running \in Nat
      BY <3>2, SocketsAssumption, FS_Subset, FS_CardinalityType
    <3> HIDE DEF living, running
    <3>4. li'.refcnt = 0 + living + running
      BY <3>1, <3>3
    <3> QED BY <3>4 DEF living, running
  <2>6. LiSafe(li')
    BY <1>10, <2>1, <2>2, <2>3, <2>5 DEF LiSafe
  <2> QED BY <1>11, <2>6 DEF LiInv
<1> QED BY <1>12, <1>13 DEF LiInv

LEMMA LiInit ==
  ASSUME A!Init
  PROVE  LiInv
<1>1. PICK how \in [AsIds -> A!Outcomes] :
        li = [alive |-> TRUE, refcnt |-> 1 + A!Cardinality(AsIds), enabled |-> TRUE, cb |-> TRUE, fdopen |-> TRUE,
              event_added |-> TRUE, as |-> [i \in AsIds |-> A!Started(A!Idle, how[i])],
              calls |-> 0, freecalled |-> FALSE, uaf |-> FALSE, twice |-> FALSE, idle |-> FALSE]
  BY DEF A!Init
<1>1a. PICK a : a = A!Idle
  OBVIOUS
<1>1b. /\ SockTyped(a) /\ SockCalm(a) /\ ~A!Busy(a) /\ a.alive = TRUE /\ a.incb = FALSE /\ a.free_on_cb = FALSE
  BY <1>1a DEF A!Idle, SockTyped, SockCalm, SockFields, A!Busy
<1>2. ASSUME NEW i \in AsIds
      PROVE  /\ SockTyped(li.as[i]) /\ SockCalm(li.as[i]) /\ li.as[i].alive /\ ~li.as[i].incb
             /\ ~li.as[i].free_on_cb
  <2>1. PICK b : b = A!Started(a, how[i])
    OBVIOUS
  <2>2. SockTyped(b) /\ SockCalm(b) /\ b.alive /\ ~b.incb /\ ~b.free_on_cb
    BY <1>1b, <2>1, StartedCalm
  <2> QED BY <1>1, <1>1a, <2>1, <2>2
<1>3. /\ DOMAIN li = LiFields /\ DOMAIN li.as = AsIds /\ li.refcnt = 1 + Cardinality(AsIds)
      /\ li.alive = TRUE /\ li.freecalled = FALSE /\ li.uaf = FALSE /\ li.twice = FALSE /\ li.enabled = TRUE
  BY <1>1, SameCardinality DEF LiFields
<1>4. Cardinality(AsIds) \in Nat
  BY SocketsAssumption, FS_CardinalityType
<1>4a. /\ DOMAIN li.as = AsIds /\ \A i \in AsIds : SockTyped(li.as[i])
       /\ li.refcnt \in Int
  BY <1>2, <1>3, <1>4
<1>5. LiTyped(li)
  BY <1>3, <1>4a DEF LiTyped
<1>6. Living(li) = AsIds /\ Running(li) = {}
  BY <1>2, <1>3 DEF Living, Running
<1>7. Cardinality(Running(li)) = 0
  BY <1>6, FS_EmptySet
<1>8. /\ li.refcnt = 1 + Cardinality(Living(li)) + Cardinality(Running(li)) /\ li.refcnt > 0
  BY <1>3, <1>4, <1>6, <1>7
<1>9. \A i \in AsIds : SockCalm(li.as[i]) /\ li.as[i].alive /\ ~li.as[i].free_on_cb
  BY <1>2, <1>3
<1> QED BY <1>3, <1>5, <1>8, <1>9 DEF LiInv, LiSafe

\* After evconnlistener_free a socket that is left has its operation under way or its
\* callback scheduled, and goes with it.
Ending(a) == a.alive => a.free_on_cb /\ a.s = "none" /\ ~a.incb /\ ~a.restart /\ (a.io > 0 \/ a.deferred)
LiEnds == li.freecalled /\ ~li.idle /\ ~li.twice => \A i \in AsIds : Ending(li.as[i])

LEMMA CompletesEnding ==
  ASSUME LiInv, LiEnds, A!Completes
  PROVE  LiEnds'
<1>1. SUFFICES ASSUME li'.freecalled, ~li'.idle, ~li'.twice
               PROVE  \A i \in AsIds : Ending(li'.as[i])
  BY DEF LiEnds
<1>2. PICK i \in AsIds :
        /\ li.as[i].io > 0
        /\ \/ li.as[i].early /\ li' = A!accepted_socket_cb(i, TRUE)
           \/ li.as[i].s = "accepting" /\ li' = [A!accepted_socket_cb(i, TRUE) EXCEPT !.as[i].s = "conn"]
           \/ li' = A!accepted_socket_cb(i, FALSE)
  BY DEF A!Completes
<1>3. PICK ok \in BOOLEAN :
           \/ li.as[i].s = "accepting" /\ li' = [A!accepted_socket_cb(i, ok) EXCEPT !.as[i].s = "conn"]
           \/ li' = A!accepted_socket_cb(i, ok)
  BY <1>2
<1>4. PICK g : g = A!accepted_socket_cb(i, ok)
  OBVIOUS
<1>5. PICK d : /\ CompletionUsed(g, i, d) /\ (~ok /\ li.as[i].free_on_cb => ~d.alive)
               /\ ok => d.deferred /\ d.alive = li.as[i].alive
  BY <1>4, UsesCompletion, Zenon DEF CompletionOf
<1>6. LiOnly(li, g, {"refcnt", "alive", "as", "uaf"}) /\ g.as = [li.as EXCEPT ![i] = d]
  BY <1>5 DEF CompletionUsed
<1>7. li'.freecalled = g.freecalled /\ li'.idle = g.idle /\ li'.twice = g.twice
  BY <1>3, <1>4, <1>6 DEF LiOnly, LiFields
<1>8. li.freecalled /\ ~li.idle /\ ~li.twice
  BY <1>1, <1>6, <1>7 DEF LiOnly
<1>9. \A j \in AsIds : Ending(li.as[j])
  BY <1>8 DEF LiEnds
<1>10. li.as[i].alive
  BY <1>2, <1>8 DEF LiInv, LiSafe, SockCalm
<1>11. li.as[i].free_on_cb /\ li.as[i].s # "accepting"
  BY <1>9, <1>10 DEF Ending
<1>12. li' = g /\ (~d.alive \/ d.deferred)
  BY <1>3, <1>4, <1>5, <1>11
<1>13. \A j \in AsIds : li'.as[j] = IF j = i THEN d ELSE li.as[j]
  BY <1>6, <1>12 DEF LiInv, LiTyped
<1>14. Ending(d)
  <2>1. Ending(li.as[i])
    BY <1>9
  <2> QED BY <1>5, <1>10, <1>12, <2>1 DEF Ending, CompletionUsed
<1> QED BY <1>9, <1>13, <1>14

LEMMA InvokesEnding ==
  ASSUME LiInv, LiEnds, A!accepted_socket_invoke_user_cb
  PROVE  LiEnds'
<1>1. SUFFICES ASSUME li'.freecalled, ~li'.idle, ~li'.twice
               PROVE  \A i \in AsIds : Ending(li'.as[i])
  BY DEF LiEnds
<1>2. PICK i \in AsIds : \E h :
       /\ li.as[i].deferred
       /\ h = [li EXCEPT !.as[i].deferred = FALSE]
       /\ li' = IF h.as[i].free_on_cb THEN A!free_and_unlock_accepting_socket([h EXCEPT !.twice = @ \/ h.as[i].early], i)
                ELSE [h EXCEPT !.refcnt = @ + 1, !.as[i].error = FALSE, !.as[i].incb = TRUE,
                               !.as[i].s = IF h.as[i].error THEN @ ELSE "none"]
  BY Zenon DEF A!accepted_socket_invoke_user_cb
<1>3. PICK h :
       /\ h = [li EXCEPT !.as[i].deferred = FALSE]
       /\ li' = IF h.as[i].free_on_cb THEN A!free_and_unlock_accepting_socket([h EXCEPT !.twice = @ \/ h.as[i].early], i)
                ELSE [h EXCEPT !.refcnt = @ + 1, !.as[i].error = FALSE, !.as[i].incb = TRUE,
                               !.as[i].s = IF h.as[i].error THEN @ ELSE "none"]
  BY <1>2
<1>4. PICK c : c = [li.as[i] EXCEPT !.deferred = FALSE]
  OBVIOUS
<1>5. LiTyped(li) /\ SockTyped(li.as[i])
  BY DEF LiInv, LiTyped
<1>6. SockTyped(c) /\ c.free_on_cb = li.as[i].free_on_cb
  BY <1>4, <1>5 DEF SockTyped, SockFields
<1>7. LiOnly(li, h, {"as"}) /\ h.as = [li.as EXCEPT ![i] = c]
  BY <1>3, <1>4, <1>5 DEF LiTyped, LiFields, LiOnly
<1>8. DOMAIN h.as = AsIds /\ h.as[i] = c /\ \A j \in AsIds : SockTyped(h.as[j])
  BY <1>5, <1>6, <1>7 DEF LiTyped
<1>9. LiTyped(h)
  BY <1>5, <1>7, <1>8 DEF LiTyped, LiOnly
<1>10. CASE c.free_on_cb
  <2>0. PICK k : k = [h EXCEPT !.twice = @ \/ h.as[i].early]
    OBVIOUS
  <2>1. li' = A!free_and_unlock_accepting_socket(k, i)
    BY <1>3, <1>8, <1>10, <2>0
  <2>1a. LiOnly(h, k, {"twice"}) /\ k.twice \in BOOLEAN /\ (h.twice => k.twice)
    BY <1>6, <1>8, <1>9, <2>0 DEF LiTyped, LiFields, LiOnly, SockTyped
  <2>1b. LiTyped(k)
    BY <1>9, <2>1a DEF LiTyped, LiOnly
  <2>2. PICK b : SocketFreed(k, li', i, b)
    BY <2>1, <2>1b, FreesSocket
  <2>3. li'.as = [li.as EXCEPT ![i] = b] /\ ~b.alive
    BY <1>5, <1>7, <2>1a, <2>2 DEF SocketFreed, LiTyped, LiOnly
  <2>4. li.freecalled /\ ~li.idle /\ ~li.twice
    BY <1>1, <1>7, <2>1a, <2>2 DEF LiOnly, SocketFreed
  <2>5. \A j \in AsIds : Ending(li.as[j])
    BY <2>4 DEF LiEnds
  <2>6. \A j \in AsIds : li'.as[j] = IF j = i THEN b ELSE li.as[j]
    BY <1>5, <2>3 DEF LiTyped
  <2> QED BY <2>3, <2>5, <2>6 DEF Ending
<1>11. CASE ~c.free_on_cb
  <2>1. li' = [h EXCEPT !.refcnt = @ + 1, !.as[i].error = FALSE, !.as[i].incb = TRUE,
                        !.as[i].s = IF h.as[i].error THEN @ ELSE "none"]
    BY <1>3, <1>8, <1>11
  <2>2. li'.freecalled = h.freecalled /\ li'.idle = h.idle /\ li'.twice = h.twice
    BY <1>9, <2>1 DEF LiTyped, LiFields
  <2>3. li.freecalled /\ ~li.idle /\ ~li.twice
    BY <1>1, <1>7, <2>2 DEF LiOnly
  <2>4. li.as[i].alive
    BY <1>2, <2>3 DEF LiInv, LiSafe, SockCalm
  <2>5. FALSE
    BY <1>6, <1>11, <2>3, <2>4 DEF LiEnds, Ending
  <2> QED BY <2>5
<1> QED BY <1>10, <1>11

LEMMA ReturnsEnding ==
  ASSUME LiInv, LiEnds, A!CallbackReturns
  PROVE  LiEnds'
<1>1. PICK i \in AsIds :
        /\ li.as[i].incb
        /\ LET h == A!listener_decref_and_unlock([li EXCEPT !.as[i].incb = FALSE])
           IN li' = IF h.alive THEN [h EXCEPT !.as[i].restart = TRUE] ELSE h
  BY DEF A!CallbackReturns
<1>2. PICK k : k = [li EXCEPT !.as[i].incb = FALSE]
  OBVIOUS
<1>3. PICK h : h = A!listener_decref_and_unlock(k)
  OBVIOUS
<1>4. li' = h \/ li' = [h EXCEPT !.as[i].restart = TRUE]
  BY <1>1, <1>2, <1>3
<1>5. /\ DOMAIN k = LiFields /\ k.freecalled = li.freecalled /\ k.idle = li.idle /\ k.twice = li.twice
  BY <1>2 DEF LiInv, LiTyped, LiFields
<1>6. /\ DOMAIN h = LiFields /\ h.freecalled = li.freecalled /\ h.idle = li.idle /\ h.twice = li.twice
  BY <1>3, <1>5 DEF A!listener_decref_and_unlock, LiFields
<1>7. li'.freecalled = li.freecalled /\ li'.idle = li.idle /\ li'.twice = li.twice
  BY <1>4, <1>6 DEF LiFields
<1>8. SUFFICES ASSUME li.freecalled, ~li.idle, ~li.twice
               PROVE  FALSE
  BY <1>7 DEF LiEnds
<1>9. li.as[i].alive
  BY <1>1, <1>8 DEF LiInv, LiSafe, SockCalm
<1> QED BY <1>1, <1>8, <1>9 DEF LiEnds, Ending

LEMMA RestartsEnding ==
  ASSUME LiInv, LiEnds, A!Restarts
  PROVE  LiEnds'
<1>1. PICK i \in AsIds :
        /\ li.as[i].restart
        /\ li' \in A!start_accepting([li EXCEPT !.as[i].restart = FALSE,
                                              !.uaf = @ \/ ~li.as[i].alive \/ ~li.alive], i)
  BY DEF A!Restarts
<1>2. PICK h : h = [li EXCEPT !.as[i].restart = FALSE, !.uaf = @ \/ ~li.as[i].alive \/ ~li.alive]
  OBVIOUS
<1>3. DOMAIN h = LiFields /\ h.freecalled = li.freecalled /\ h.idle = li.idle /\ h.twice = li.twice
  BY <1>2 DEF LiInv, LiTyped, LiFields
<1>4. li'.freecalled = li.freecalled /\ li'.idle = li.idle /\ (~li'.twice => ~li.twice)
  <2>1. CASE li' = h
    BY <1>3, <2>1
  <2>2. CASE \E how : li' = [h EXCEPT !.twice = @ \/ A!Busy(h.as[i]), !.as[i] = A!Started(@, how)]
    BY <1>3, <2>2 DEF LiFields
  <2> QED BY <1>1, <1>2, <2>1, <2>2, Zenon DEF A!start_accepting
<1>5. SUFFICES ASSUME li.freecalled, ~li.idle, ~li.twice
               PROVE  FALSE
  BY <1>4 DEF LiEnds
<1>6. li.as[i].alive
  BY <1>1, <1>5 DEF LiInv, LiSafe, SockCalm
<1> QED BY <1>1, <1>5, <1>6 DEF LiEnds, Ending

LEMMA FreeEnding ==
  ASSUME LiInv, A!Free
  PROVE  LiEnds'
<1>1. PICK m : m = [A!Called EXCEPT !.cb = FALSE, !.freecalled = TRUE]
  OBVIOUS
<1>2. PICK k : k = A!iocp_listener_disable_impl(m, TRUE)
  OBVIOUS
<1>3. ~li.freecalled /\ li' = A!listener_decref_and_unlock(k)
  BY <1>1, <1>2 DEF A!Free, A!MayCall
<1>4. LiTyped(li)
  BY DEF LiInv
<1>5. DOMAIN m = LiFields /\ m.as = li.as /\ m.twice = li.twice
  BY <1>1, <1>4 DEF LiTyped, LiFields, A!Called
<1>6. /\ k.twice = m.twice /\ DOMAIN k = LiFields
      /\ k.idle = (m.idle \/ \E i \in AsIds : /\ m.as[i].alive
                                              /\ m.as[i].s = "none" \/ (m.as[i].io = 0 /\ ~m.as[i].deferred))
      /\ k.as = [i \in AsIds |-> IF m.as[i].free_on_cb \/ m.as[i].s = "none" \/ ~m.as[i].alive THEN m.as[i]
                                 ELSE [m.as[i] EXCEPT !.s = "none", !.free_on_cb = TRUE]]
  BY <1>2, <1>4, <1>5 DEF A!iocp_listener_disable_impl, LiTyped, LiFields
<1>7. li'.as = k.as /\ li'.idle = k.idle /\ li'.twice = k.twice
  BY <1>3, <1>6 DEF A!listener_decref_and_unlock, LiFields
<1>8. SUFFICES ASSUME ~li'.idle, ~li'.twice, NEW i \in AsIds, li'.as[i].alive
               PROVE  Ending(li'.as[i])
  BY DEF LiEnds, Ending
<1>9. ~li.twice
  BY <1>5, <1>6, <1>7, <1>8
<1>10. SockTyped(li.as[i]) /\ SockCalm(li.as[i]) /\ li.as[i].alive /\ ~li.as[i].free_on_cb
  BY <1>3, <1>4, <1>9 DEF LiInv, LiSafe, LiTyped
<1>11. li.as[i].s # "none" /\ (li.as[i].io # 0 \/ li.as[i].deferred)
  BY <1>5, <1>6, <1>7, <1>8, <1>10
<1>12. li.as[i].io > 0 \/ li.as[i].deferred
  BY <1>10, <1>11 DEF SockCalm
<1>13. ~li.as[i].incb /\ ~li.as[i].restart
  BY <1>10, <1>11 DEF SockCalm
<1>14. li'.as[i] = [li.as[i] EXCEPT !.s = "none", !.free_on_cb = TRUE]
  <2>1. li'.as = [j \in AsIds |-> IF li.as[j].free_on_cb \/ li.as[j].s = "none" \/ ~li.as[j].alive THEN li.as[j]
                                  ELSE [li.as[j] EXCEPT !.s = "none", !.free_on_cb = TRUE]]
    BY <1>5, <1>6, <1>7
  <2>2. li'.as[i] = IF li.as[i].free_on_cb \/ li.as[i].s = "none" \/ ~li.as[i].alive THEN li.as[i]
                    ELSE [li.as[i] EXCEPT !.s = "none", !.free_on_cb = TRUE]
    BY <2>1, Zenon
  <2> QED BY <1>10, <1>11, <2>2
<1>15. /\ li'.as[i].s = "none" /\ li'.as[i].free_on_cb /\ li'.as[i].io = li.as[i].io
       /\ li'.as[i].deferred = li.as[i].deferred /\ li'.as[i].incb = li.as[i].incb
      /\ li'.as[i].restart = li.as[i].restart
  BY <1>10, <1>14 DEF SockTyped, SockFields
<1> QED BY <1>12, <1>13, <1>15 DEF Ending

LEMMA OthersEnding ==
  ASSUME LiInv, A!Enable \/ A!Disable
  PROVE  LiEnds'
<1>1. LiTyped(li) /\ ~li.freecalled
  BY DEF LiInv, A!Enable, A!Disable, A!MayCall
<1>2. CASE A!Disable
  <2>1. PICK h : h = [A!Called EXCEPT !.enabled = FALSE]
    OBVIOUS
  <2>2. DOMAIN h = LiFields /\ h.freecalled = li.freecalled
    BY <1>1, <2>1 DEF LiTyped, LiFields, A!Called
  <2>3. li'.freecalled = h.freecalled
    BY <1>2, <2>1, <2>2 DEF A!Disable, A!iocp_listener_disable_impl, LiFields
  <2> QED BY <1>1, <2>2, <2>3 DEF LiEnds
<1>3. CASE A!Enable
  <2>1. PICK h : h = A!Called
    OBVIOUS
  <2>2. DOMAIN h = LiFields /\ h.freecalled = li.freecalled
    BY <1>1, <2>1 DEF LiTyped, LiFields, A!Called
  <2>3. li' \in A!iocp_listener_enable(h)
    BY <1>3, <2>1 DEF A!Enable
  <2>4. \E starts : \E how \in [AsIds -> A!Outcomes] :
          li' = [h EXCEPT !.enabled = TRUE, !.event_added = TRUE, !.twice = @ \/ \E i \in starts : A!Busy(h.as[i]),
                          !.as = [i \in AsIds |-> IF i \in starts THEN A!Started(@[i], how[i]) ELSE @[i]]]
    BY <2>3, Zenon DEF A!iocp_listener_enable
  <2>5. li'.freecalled = h.freecalled
    BY <2>2, <2>4 DEF LiFields
  <2> QED BY <1>1, <2>2, <2>5 DEF LiEnds
<1> QED BY <1>2, <1>3

\* A listener on an IOCP port is freed when the program, every accepting socket and
\* every running callback have let go of it, and no completion or deferred callback
\* reaches a freed socket; once it was told to go, no socket waits for a completion that
\* nobody owes (listener.c), for any number of sockets.
THEOREM IocpListenersAreSound ==
  SuiteSpec => [](part = "iocp" => A!IocpReferences /\ A!IocpSocketsGo)
<1> DEFINE Inv == part = "iocp" => LiInv /\ LiEnds
<1>1. SuiteInit => Inv
  <2>1. A!Init => ~li.freecalled
    BY DEF A!Init
  <2> QED BY <2>1, LiInit DEF SuiteInit, LiEnds
<1>2. Inv /\ [SuiteNext]_<<part, sg, bk, ln, li, lk, bl>> => Inv'
  <2>1. ASSUME LiInv, LiEnds, A!Next
        PROVE  LiInv' /\ LiEnds'
    <3>1. LiInv'
      BY <2>1, SocketsAssumption, LiEnable, LiDisable, LiFree, LiCompletes, LiInvokes,
         LiReturns, LiRestarts DEF A!Next
    <3>2. LiEnds'
      BY <2>1, FreeEnding, OthersEnding, CompletesEnding, InvokesEnding, ReturnsEnding, RestartsEnding DEF A!Next
    <3> QED BY <3>1, <3>2
  <2>2. ASSUME Inv, SuiteNext
        PROVE  Inv'
    <3>1. part' = part /\ (part = "iocp" => A!Next)
      BY <2>2 DEF SuiteNext
    <3> QED BY <2>1, <2>2, <3>1
  <2>3. ASSUME Inv, UNCHANGED <<part, li>>
        PROVE  Inv'
    BY <2>3 DEF LiInv, LiTyped, LiSafe, LiEnds, Living, Running
  <2> QED BY <2>2, <2>3
<1>3. Inv => (part = "iocp" => A!IocpReferences /\ A!IocpSocketsGo)
  <2>1. LiInv => A!IocpReferences
    BY SameCardinality DEF LiInv, LiSafe, Living, Running, A!IocpReferences
  <2>2. LiEnds => A!IocpSocketsGo
    BY DEF LiEnds, Ending, A!IocpSocketsGo, A!Busy
  <2> QED BY <2>1, <2>2
<1> QED BY <1>1, <1>2, <1>3, PTL DEF SuiteSpec

-----------------------------------------------------------------------------
(* Lock debugging.                                                         *)

LkFields == {"fns", "orig", "condwait", "origcond", "debugging", "id", "shut", "ok", "steps", "locks", "held", "pc"}
LockFields == {"exists", "wrap", "count", "held_by", "real", "realrec", "owner", "n"}

\* How often a thread that holds a lock has taken the mutex, and how often the record
\* of the debugging lock says so; at is what the thread is doing with the lock.
Taken(held, at) == IF at = "wait" THEN 0 ELSE held
Marked(held, at) == IF at = "idle" THEN held ELSE held - 1

\* Thread u at a lock, whatever the other threads do.
Turn(k, held, at, u, id, rec) ==
  /\ held \in Nat /\ at \in {"idle", "mark", "drop", "wait"}
  /\ at # "idle" => held > 0
  /\ at \in {"mark", "drop"} => k.wrap
  /\ at = "wait" => held = 1 /\ k.real
  /\ held > 1 => rec
  /\ k.real /\ Taken(held, at) > 0 => k.owner = u /\ k.n = Taken(held, at)
  /\ k.real /\ k.owner = u => Taken(held, at) > 0
  /\ k.wrap /\ Taken(held, at) > 0 => k.count = Marked(held, at) /\ (id /\ k.count > 0 => k.held_by = u)

LockTyped(k) ==
  /\ DOMAIN k = LockFields /\ k.exists \in BOOLEAN /\ k.wrap \in BOOLEAN /\ k.real \in BOOLEAN
  /\ k.count \in Int /\ k.n \in Int

\* A lock as its threads see it: held and at are functions of the threads.
LockSound(k, held, at, id, threaded, rec) ==
  /\ LockTyped(k)
  /\ ~k.exists => ~k.wrap /\ \A u \in LkThreads : held[u] = 0
  /\ k.exists => k.wrap \/ k.real
  /\ k.exists /\ threaded => k.real
  /\ ~k.wrap => k.count = 0
  /\ k.owner = 0 => k.n = 0
  /\ ~threaded => \A u \in LkThreads : u # 1 => held[u] = 0
  /\ (\A u \in LkThreads : Taken(held[u], at[u]) = 0) => k.count = 0
  /\ \A u \in LkThreads : Turn(k, held[u], at[u], u, id, rec)

Held(h, l) == [u \in LkThreads |-> h.held[u][l]]
At(h, l) == [u \in LkThreads |-> IF h.pc[u].l = l THEN h.pc[u].at ELSE "idle"]
Threaded(h) == h.fns = "posix" \/ h.orig = "posix"
SoundAt(h, l) == LockSound(h.locks[l], Held(h, l), At(h, l), h.id, Threaded(h), K!Recursive(l))

Pcs == {K!NoPc} \cup [at : {"mark", "drop", "wait"}, l : LkLocks]

LkTyped(h) ==
  /\ DOMAIN h = LkFields /\ h.debugging \in BOOLEAN /\ h.id \in BOOLEAN /\ h.shut \in BOOLEAN /\ h.ok \in BOOLEAN
  /\ h.locks = [l \in LkLocks |-> h.locks[l]] /\ h.held \in [LkThreads -> [LkLocks -> Int]] /\ h.pc \in [LkThreads -> Pcs]
  /\ h.fns \in {"null", "posix", "debug"} /\ h.orig \in {"null", "posix"}

\* The lock functions, and the global lock that they came with.
Functions(h) ==
  /\ h.id => Threaded(h)
  /\ h.condwait = "posix" \/ h.origcond = "posix" => Threaded(h)
  /\ ~h.shut => /\ h.locks["glob"].exists <=> h.fns # "null"
                /\ h.debugging => h.fns = "debug" /\ h.locks["glob"].wrap
                /\ ~h.debugging => h.fns # "debug" /\ h.orig = "null"

LkSound(h) == LkTyped(h) /\ Functions(h) /\ h.ok /\ \A l \in LkLocks : SoundAt(h, l)

\* Two threads have not taken the same lock.
LEMMA OneTaken ==
  ASSUME NEW k, NEW held, NEW at, NEW id, NEW threaded, NEW rec, LockSound(k, held, at, id, threaded, rec),
         NEW t \in LkThreads, NEW u \in LkThreads, t # u, Taken(held[t], at[t]) > 0
  PROVE  Taken(held[u], at[u]) = 0
<1>1. Turn(k, held[t], at[t], t, id, rec) /\ Turn(k, held[u], at[u], u, id, rec)
  BY DEF LockSound
<1>2. CASE k.real
  <2>1. k.owner = t
    BY <1>1, <1>2 DEF Turn
  <2>2. ~(Taken(held[u], at[u]) > 0)
    BY <1>1, <1>2, <2>1 DEF Turn
  <2> QED BY <1>1, <2>2 DEF Turn, Taken
<1>3. CASE ~k.real
  <2>1. k.exists
    BY <1>1 DEF LockSound, Turn, Taken
  <2>2. ~threaded
    BY <1>3, <2>1 DEF LockSound
  <2>3. held[t] # 0
    BY <1>1 DEF Turn, Taken
  <2>4. held[u] = 0
    BY <2>2, <2>3 DEF LockSound
  <2> QED BY <2>4 DEF Taken
<1> QED BY <1>2, <1>3

\* The properties of the run follow.
LEMMA LkSoundIsEnough ==
  ASSUME LkSound(lk)
  PROVE  K!LocksExclude /\ K!DebugRecordsHolder
<1>1. ASSUME NEW t \in LkThreads, NEW l \in LkLocks, K!Inside(t, l)
      PROVE  Held(lk, l)[t] > 0 /\ At(lk, l)[t] = "idle" /\ Held(lk, l)[t] = lk.held[t][l]
  BY <1>1 DEF K!Inside, Held, At
<1>2. K!LocksExclude
  <2>1. SUFFICES ASSUME NEW l \in LkLocks, NEW t \in LkThreads, NEW u \in LkThreads, t # u,
                        K!Inside(t, l), K!Inside(u, l)
                 PROVE  FALSE
    BY DEF K!LocksExclude
  <2>2. Taken(Held(lk, l)[t], At(lk, l)[t]) > 0 /\ Taken(Held(lk, l)[u], At(lk, l)[u]) > 0
    BY <1>1, <2>1 DEF Taken
  <2>3. LockSound(lk.locks[l], Held(lk, l), At(lk, l), lk.id, Threaded(lk), K!Recursive(l))
    BY DEF LkSound, SoundAt
  <2>4. Taken(Held(lk, l)[u], At(lk, l)[u]) = 0
    BY <2>1, <2>2, <2>3, OneTaken
  <2> QED BY <2>2, <2>4
<1>3. K!DebugRecordsHolder
  <2>1. SUFFICES ASSUME NEW l \in LkLocks, NEW t \in LkThreads, lk.locks[l].wrap, K!Inside(t, l)
                 PROVE  lk.locks[l].count = lk.held[t][l] /\ (lk.id => lk.locks[l].held_by = t)
    BY DEF K!DebugRecordsHolder, LkSound
  <2>2. PICK k : k = lk.locks[l]
    OBVIOUS
  <2>3. PICK a : a = At(lk, l)[t]
    OBVIOUS
  <2>4. PICK n : n = Held(lk, l)[t]
    OBVIOUS
  <2>5. Turn(k, n, a, t, lk.id, K!Recursive(l))
    BY <2>2, <2>3, <2>4 DEF LkSound, SoundAt, LockSound
  <2>6. n > 0 /\ a = "idle" /\ n = lk.held[t][l] /\ k.wrap
    BY <1>1, <2>1, <2>2, <2>3, <2>4
  <2>7. k.count = n /\ (lk.id => k.held_by = t)
    BY <2>5, <2>6 DEF Turn, Taken, Marked
  <2> QED BY <2>2, <2>6, <2>7
<1> QED BY <1>2, <1>3

\* A step of thread t at a lock that no other thread has taken.
Untaken(held, at, t) == \A u \in LkThreads : u # t => Taken(held[u], at[u]) = 0

LEMMA LockStep ==
  ASSUME NEW k, NEW held, NEW at, NEW id, NEW threaded, NEW rec, LockSound(k, held, at, id, threaded, rec),
         DOMAIN held = LkThreads, DOMAIN at = LkThreads,
         NEW t \in LkThreads, Untaken(held, at, t), threaded \/ t = 1, k.exists,
         NEW k2, LockTyped(k2), k2.exists = k.exists, k2.wrap = k.wrap, k2.real = k.real,
         k2.real => k2.owner \in {0, t}, k2.owner = 0 => k2.n = 0, ~k2.wrap => k2.count = 0,
         NEW n, NEW a, Turn(k2, n, a, t, id, rec), Taken(n, a) = 0 => k2.count = 0
  PROVE  LockSound(k2, [held EXCEPT ![t] = n], [at EXCEPT ![t] = a], id, threaded, rec)
<1> DEFINE held2 == [held EXCEPT ![t] = n]
           at2 == [at EXCEPT ![t] = a]
<1>1. held2[t] = n /\ at2[t] = a /\ \A u \in LkThreads : u # t => held2[u] = held[u] /\ at2[u] = at[u]
  OBVIOUS
<1> HIDE DEF held2, at2
<1>2. ASSUME NEW u \in LkThreads
      PROVE  Turn(k2, held2[u], at2[u], u, id, rec)
  <2>1. CASE u = t
    BY <1>1, <2>1
  <2>2. CASE u # t
    <3>1. Turn(k, held[u], at[u], u, id, rec) /\ Taken(held[u], at[u]) = 0
      BY <2>2 DEF LockSound, Untaken
    <3>2. k2.real => k2.owner # u
      BY <2>2, LocksAssumption
    <3>3. Turn(k2, held[u], at[u], u, id, rec)
      BY <3>1, <3>2 DEF Turn
    <3> QED BY <1>1, <2>2, <3>3
  <2> QED BY <2>1, <2>2
<1>3. ~threaded => \A u \in LkThreads : u # 1 => held2[u] = 0
  BY <1>1 DEF LockSound
<1>4. (\A u \in LkThreads : Taken(held2[u], at2[u]) = 0) => k2.count = 0
  BY <1>1
<1>5. LockSound(k2, held2, at2, id, threaded, rec)
  BY <1>2, <1>3, <1>4 DEF LockSound
<1> QED BY <1>5 DEF held2, at2

\* A lock whose mutex is free, or is t's, is taken by no other thread.
LEMMA Untakens ==
  ASSUME NEW k, NEW held, NEW at, NEW id, NEW threaded, NEW rec, LockSound(k, held, at, id, threaded, rec),
         NEW t \in LkThreads, threaded \/ t = 1, k.exists,
         Taken(held[t], at[t]) > 0 \/ (k.real => k.owner \in {0, t})
  PROVE  Untaken(held, at, t)
<1>1. SUFFICES ASSUME NEW u \in LkThreads, u # t, Taken(held[u], at[u]) # 0
               PROVE  FALSE
  BY DEF Untaken
<1>2. Turn(k, held[u], at[u], u, id, rec) /\ Turn(k, held[t], at[t], t, id, rec)
  BY DEF LockSound
<1>3. Taken(held[u], at[u]) > 0
  BY <1>1, <1>2 DEF Turn, Taken
<1>4. Taken(held[t], at[t]) = 0
  BY <1>1, <1>3, OneTaken
<1>5. k.real => k.owner = u
  BY <1>2, <1>3 DEF Turn
<1>6. ~k.real
  BY <1>1, <1>4, <1>5, LocksAssumption
<1>7. ~threaded /\ held[u] = 0
  BY <1>1, <1>6 DEF LockSound
<1> QED BY <1>3, <1>7 DEF Taken

\* The changes that the operations make to a lock.
LockOnly(k, k2, C) ==
  /\ DOMAIN k2 = LockFields /\ k2.exists = k.exists /\ k2.wrap = k.wrap /\ k2.real = k.real
  /\ ("count" \notin C => k2.count = k.count) /\ ("held_by" \notin C => k2.held_by = k.held_by)
  /\ ("owner" \notin C => k2.owner = k.owner) /\ ("n" \notin C => k2.n = k.n)

\* The mutex is taken, by a thread that has it already or as the first.
LEMMA LockTakes ==
  ASSUME NEW k, NEW held, NEW at, NEW id, NEW threaded, NEW rec, LockSound(k, held, at, id, threaded, rec),
         DOMAIN held = LkThreads, DOMAIN at = LkThreads,
         NEW t \in LkThreads, threaded \/ t = 1, k.exists, at[t] = "idle", held[t] = 0 \/ rec,
         k.real => k.owner \in {0, t},
         NEW k2, LockOnly(k, k2, {"owner", "n"}), k.real => k2.owner = t /\ k2.n = k.n + 1,
         ~k.real => k2.owner = k.owner /\ k2.n = k.n,
         NEW n, n = held[t] + 1, NEW a, a = IF k.wrap THEN "mark" ELSE "idle"
  PROVE  LockSound(k2, [held EXCEPT ![t] = n], [at EXCEPT ![t] = a], id, threaded, rec)
<1>1. LockOnly(k, k2, {"owner", "n"})
  OBVIOUS
<1>2. Untaken(held, at, t)
  BY Untakens
<1>3. Turn(k, held[t], at[t], t, id, rec)
  BY DEF LockSound
<1>4. LockTyped(k2)
  <2>1. LockTyped(k)
    BY DEF LockSound
  <2>2. k2.n \in Int
    BY <1>1, <2>1 DEF LockOnly, LockTyped
  <2> QED BY <1>1, <2>1, <2>2 DEF LockOnly, LockTyped
<1>5. held[t] = 0 => k.count = 0
  BY <1>2 DEF Untaken, LockSound, Taken
<1>6. k.real => k2.n = held[t] + 1
  <2>1. SUFFICES ASSUME k.real
                 PROVE  k.n = held[t]
    BY <1>1
  <2>2. CASE k.owner = 0
    BY <1>3, <2>1, <2>2, LocksAssumption DEF Turn, Taken, LockSound
  <2>3. CASE k.owner = t
    BY <1>3, <2>1, <2>3 DEF Turn, Taken
  <2> QED BY <2>1, <2>2, <2>3
<1>7. k.wrap => k2.count = held[t] /\ (id /\ k2.count > 0 => k2.held_by = t)
  BY <1>1, <1>3, <1>5 DEF Turn, Taken, Marked, LockOnly
<1>8. Turn(k2, held[t] + 1, a, t, id, rec)
  <2>1. held[t] \in Nat
    BY <1>3 DEF Turn
  <2>2. Taken(held[t] + 1, a) = held[t] + 1 /\ (k.wrap => Marked(held[t] + 1, a) = held[t])
    BY <2>1 DEF Taken, Marked
  <2>3. k2.wrap = k.wrap /\ k2.real = k.real
    BY <1>1 DEF LockOnly
  <2> QED BY <1>1, <1>3, <1>6, <1>7, <2>1, <2>2, <2>3 DEF Turn
<1>9. /\ k2.exists = k.exists /\ k2.wrap = k.wrap /\ k2.real = k.real /\ k2.count = k.count
      /\ (k2.real => k2.owner \in {0, t}) /\ (k2.owner = 0 => k2.n = 0) /\ (~k2.wrap => k2.count = 0)
  BY <1>1, LocksAssumption DEF LockOnly, LockSound
<1>10. Taken(held[t] + 1, a) = 0 => k2.count = 0
  BY <1>3 DEF Taken, Turn
<1>11. Turn(k2, n, a, t, id, rec) /\ (Taken(n, a) = 0 => k2.count = 0)
  BY <1>8, <1>10
<1>12. ASSUME NEW m, NEW b, Turn(k2, m, b, t, id, rec), Taken(m, b) = 0 => k2.count = 0
       PROVE  LockSound(k2, [held EXCEPT ![t] = m], [at EXCEPT ![t] = b], id, threaded, rec)
  BY <1>2, <1>4, <1>9, <1>12, LockStep
<1> QED BY <1>11, <1>12

\* evthread_debug_lock_mark_locked and evthread_debug_lock_mark_unlocked, and what they assert.
Marking(k, k2, id, t) ==
  LockOnly(k, k2, {"count", "held_by"}) /\ k2.count = k.count + 1 /\ (id => k2.held_by = t)
Unmarking(k, k2) ==
  LockOnly(k, k2, {"count", "held_by"}) /\ k2.count = k.count - 1 /\ (k.count # 1 => k2.held_by = k.held_by)
MayMark(k, id, t, rec) == (rec \/ k.count + 1 = 1) /\ (id /\ k.count + 1 > 1 => k.held_by = t)
MayUnmark(k, id, t) == (id => k.held_by = t) /\ k.count > 0

\* The holder is recorded.
LEMMA LockMarks ==
  ASSUME NEW k, NEW held, NEW at, NEW id, NEW threaded, NEW rec, LockSound(k, held, at, id, threaded, rec),
         DOMAIN held = LkThreads, DOMAIN at = LkThreads,
         NEW t \in LkThreads, threaded \/ t = 1, k.exists, at[t] = "mark", id \in BOOLEAN, NEW n, n = held[t],
         NEW k2, Marking(k, k2, id, t)
  PROVE  /\ LockSound(k2, [held EXCEPT ![t] = n], [at EXCEPT ![t] = "idle"], id, threaded, rec)
         /\ MayMark(k, id, t, rec)
<1>1. LockOnly(k, k2, {"count", "held_by"}) /\ k2.count = k.count + 1 /\ (id => k2.held_by = t)
  BY DEF Marking
<1>2. Turn(k, held[t], "mark", t, id, rec)
  BY DEF LockSound
<1>3. held[t] \in Nat /\ held[t] > 0 /\ k.wrap /\ Taken(held[t], "mark") = held[t] /\ Marked(held[t], "mark") = held[t] - 1
  BY <1>2 DEF Turn, Taken, Marked
<1>4. Untaken(held, at, t)
  BY <1>3, Untakens
<1>5. k.count = held[t] - 1
  BY <1>2, <1>3 DEF Turn
<1>6. LockTyped(k2)
  <2>1. LockTyped(k)
    BY DEF LockSound
  <2>2. k2.count \in Int
    BY <1>1, <2>1 DEF LockTyped
  <2> QED BY <1>1, <2>1, <2>2 DEF LockOnly, LockTyped
<1>7. Turn(k2, held[t], "idle", t, id, rec)
  <2>1. Taken(held[t], "idle") = held[t] /\ Marked(held[t], "idle") = held[t] /\ k2.count = held[t]
    BY <1>1, <1>3, <1>5 DEF Taken, Marked
  <2>2. k2.owner = k.owner /\ k2.n = k.n /\ k2.wrap = k.wrap /\ k2.real = k.real
    BY <1>1 DEF LockOnly
  <2> QED BY <1>1, <1>2, <1>3, <2>1, <2>2 DEF Turn
<1>8. k.real => k.owner = t
  BY <1>2, <1>3 DEF Turn
<1>9. /\ k2.exists = k.exists /\ k2.wrap = k.wrap /\ k2.real = k.real
      /\ (k2.real => k2.owner \in {0, t}) /\ (k2.owner = 0 => k2.n = 0) /\ (~k2.wrap => k2.count = 0)
  BY <1>1, <1>3, <1>8 DEF LockOnly, LockSound
<1>10. Taken(held[t], "idle") # 0
  BY <1>3 DEF Taken
<1>11. Turn(k2, n, "idle", t, id, rec) /\ (Taken(n, "idle") = 0 => k2.count = 0)
  BY <1>7, <1>10
<1>12. LockSound(k2, [held EXCEPT ![t] = n], [at EXCEPT ![t] = "idle"], id, threaded, rec)
  BY <1>4, <1>6, <1>9, <1>11, LockStep
<1>13. rec \/ k.count + 1 = 1
  BY <1>2, <1>3, <1>5 DEF Turn
<1>14. id /\ k.count + 1 > 1 => k.held_by = t
  BY <1>2, <1>3, <1>5 DEF Turn
<1> QED BY <1>12, <1>13, <1>14 DEF MayMark

\* The holder is cleared, on the way to giving the mutex up.
LEMMA LockUnmarks ==
  ASSUME NEW k, NEW held, NEW at, NEW id, NEW threaded, NEW rec, LockSound(k, held, at, id, threaded, rec),
         DOMAIN held = LkThreads, DOMAIN at = LkThreads,
         NEW t \in LkThreads, threaded \/ t = 1, k.exists, at[t] = "idle", held[t] > 0, k.wrap, id \in BOOLEAN,
         NEW n, n = held[t],
         NEW k2, Unmarking(k, k2)
  PROVE  /\ LockSound(k2, [held EXCEPT ![t] = n], [at EXCEPT ![t] = "drop"], id, threaded, rec)
         /\ MayUnmark(k, id, t)
<1>1. /\ LockOnly(k, k2, {"count", "held_by"}) /\ k2.count = k.count - 1
      /\ k.count # 1 => k2.held_by = k.held_by
  BY DEF Unmarking
<1>2. Turn(k, held[t], "idle", t, id, rec)
  BY DEF LockSound
<1>3. held[t] \in Nat /\ Taken(held[t], "idle") = held[t] /\ Marked(held[t], "idle") = held[t]
  BY <1>2 DEF Turn, Taken, Marked
<1>4. Untaken(held, at, t)
  BY <1>3, Untakens
<1>5. k.count = held[t] /\ (id => k.held_by = t)
  BY <1>2, <1>3 DEF Turn
<1>6. LockTyped(k2)
  <2>1. LockTyped(k)
    BY DEF LockSound
  <2>2. k2.count \in Int
    BY <1>1, <2>1 DEF LockTyped
  <2> QED BY <1>1, <2>1, <2>2 DEF LockOnly, LockTyped
<1>7. Turn(k2, held[t], "drop", t, id, rec)
  <2>1. Taken(held[t], "drop") = held[t] /\ Marked(held[t], "drop") = held[t] - 1 /\ k2.count = held[t] - 1
    BY <1>1, <1>3, <1>5 DEF Taken, Marked
  <2>2. k2.owner = k.owner /\ k2.n = k.n /\ k2.wrap = k.wrap /\ k2.real = k.real
    BY <1>1 DEF LockOnly
  <2>3. id /\ k2.count > 0 => k2.held_by = t
    BY <1>1, <1>3, <1>5, <2>1
  <2> QED BY <1>2, <1>3, <2>1, <2>2, <2>3 DEF Turn
<1>8. k.real => k.owner = t
  BY <1>2, <1>3 DEF Turn
<1>9. /\ k2.exists = k.exists /\ k2.wrap = k.wrap /\ k2.real = k.real
      /\ (k2.real => k2.owner \in {0, t}) /\ (k2.owner = 0 => k2.n = 0) /\ (~k2.wrap => k2.count = 0)
  BY <1>1, <1>8 DEF LockOnly, LockSound
<1>10. Taken(held[t], "drop") # 0
  BY <1>3 DEF Taken
<1>11. Turn(k2, n, "drop", t, id, rec) /\ (Taken(n, "drop") = 0 => k2.count = 0)
  BY <1>7, <1>10
<1>12. LockSound(k2, [held EXCEPT ![t] = n], [at EXCEPT ![t] = "drop"], id, threaded, rec)
  BY <1>4, <1>6, <1>9, <1>11, LockStep
<1>13. k.count > 0
  BY <1>1, <1>3, <1>5
<1> QED BY <1>5, <1>12, <1>13 DEF MayUnmark

\* The mutex is given up.
LEMMA LockDrops ==
  ASSUME NEW k, NEW held, NEW at, NEW id, NEW threaded, NEW rec, LockSound(k, held, at, id, threaded, rec),
         DOMAIN held = LkThreads, DOMAIN at = LkThreads,
         NEW t \in LkThreads, threaded \/ t = 1, k.exists, held[t] > 0,
         at[t] = IF k.wrap THEN "drop" ELSE "idle",
         NEW k2, LockOnly(k, k2, {"owner", "n"}),
         k.real => k2.n = k.n - 1 /\ k2.owner = (IF k.n = 1 THEN 0 ELSE k.owner),
         ~k.real => k2.n = k.n /\ k2.owner = k.owner, NEW n, n = held[t] - 1
  PROVE  LockSound(k2, [held EXCEPT ![t] = n], [at EXCEPT ![t] = "idle"], id, threaded, rec)
<1>1. PICK a : a = at[t]
  OBVIOUS
<1>2. Turn(k, held[t], a, t, id, rec)
  BY <1>1 DEF LockSound
<1>3. held[t] \in Nat /\ n \in Nat /\ Taken(held[t], a) = held[t] /\ a \in {"drop", "idle"}
  BY <1>1, <1>2 DEF Turn, Taken
<1>4. Untaken(held, at, t)
  BY <1>1, <1>3, Untakens
<1>5. k.real => k.owner = t /\ k.n = held[t]
  BY <1>2, <1>3 DEF Turn
<1>6. /\ LockOnly(k, k2, {"owner", "n"})
      /\ k.real => k2.n = k.n - 1 /\ k2.owner = (IF k.n = 1 THEN 0 ELSE k.owner)
      /\ ~k.real => k2.n = k.n /\ k2.owner = k.owner
  OBVIOUS
<1>7. k.real => k2.n = n /\ (n = 0 => k2.owner = 0) /\ (n # 0 => k2.owner = t)
  BY <1>3, <1>5, <1>6
<1>8. LockTyped(k2)
  <2>1. LockTyped(k)
    BY DEF LockSound
  <2>2. k2.n \in Int
    BY <1>3, <1>6, <1>7, <2>1 DEF LockTyped
  <2> QED BY <1>6, <2>1, <2>2 DEF LockOnly, LockTyped
<1>9. k.wrap => k.count = n /\ (id /\ k.count > 0 => k.held_by = t)
  <2>1. SUFFICES ASSUME k.wrap
                 PROVE  k.count = n /\ (id /\ k.count > 0 => k.held_by = t)
    OBVIOUS
  <2>2. Marked(held[t], a) = n
    BY <1>1, <2>1 DEF Marked
  <2> QED BY <1>2, <1>3, <2>1, <2>2 DEF Turn
<1>10. Turn(k2, n, "idle", t, id, rec)
  <2>1. Taken(n, "idle") = n /\ Marked(n, "idle") = n
    BY DEF Taken, Marked
  <2>2. k2.wrap = k.wrap /\ k2.real = k.real /\ k2.count = k.count /\ k2.held_by = k.held_by
    BY <1>6 DEF LockOnly
  <2>3. n > 1 => rec
    BY <1>2, <1>3 DEF Turn
  <2>4. k2.real /\ k2.owner = t => n > 0
    BY <1>3, <1>7, <2>2, LocksAssumption
  <2>5. k2.real /\ n > 0 => k2.owner = t /\ k2.n = n
    BY <1>7, <2>2
  <2>6. k2.wrap /\ n > 0 => k2.count = n /\ (id /\ k2.count > 0 => k2.held_by = t)
    BY <1>9, <2>2
  <2> QED BY <1>3, <2>1, <2>3, <2>4, <2>5, <2>6 DEF Turn
<1>11. k2.exists = k.exists /\ k2.wrap = k.wrap /\ k2.real = k.real /\ k2.count = k.count
  BY <1>6 DEF LockOnly
<1>12. (k2.real => k2.owner \in {0, t}) /\ (k2.owner = 0 => k2.n = 0) /\ (~k2.wrap => k2.count = 0)
  <2>1. CASE k.real
    BY <1>7, <1>11, <2>1, LocksAssumption DEF LockSound
  <2>2. CASE ~k.real
    BY <1>6, <1>11, <2>2 DEF LockSound
  <2> QED BY <2>1, <2>2
<1>13. Taken(n, "idle") = 0 => k2.count = 0
  BY <1>9, <1>11, <1>12 DEF Taken
<1> QED BY <1>4, <1>8, <1>10, <1>11, <1>12, <1>13, LockStep

\* The mutex is given up for the wait on a condition; the holder was cleared first.
LEMMA LockWaits ==
  ASSUME NEW k, NEW held, NEW at, NEW id, NEW threaded, NEW rec, LockSound(k, held, at, id, threaded, rec),
         DOMAIN held = LkThreads, DOMAIN at = LkThreads,
         NEW t \in LkThreads, threaded \/ t = 1, k.exists, k.real, held[t] = 1, at[t] = "idle",
         NEW k2, LockOnly(k, k2, {"count", "held_by", "owner", "n"}),
         k.wrap => k2.count = k.count - 1, ~k.wrap => k2.count = k.count,
         k2.n = k.n - 1, k.n = 1 => k2.owner = 0
  PROVE  /\ LockSound(k2, [held EXCEPT ![t] = 1], [at EXCEPT ![t] = "wait"], id, threaded, rec)
         /\ k.wrap => MayUnmark(k, id, t)
<1>1. Turn(k, 1, "idle", t, id, rec)
  BY DEF LockSound
<1>2. Taken(1, "idle") = 1 /\ Marked(1, "idle") = 1
  BY DEF Taken, Marked
<1>3. k.real /\ k.owner = t /\ k.n = 1
  BY <1>1, <1>2 DEF Turn, LockSound
<1>4. Untaken(held, at, t)
  BY <1>3, Untakens
<1>5. k2.owner = 0 /\ k2.n = 0
  BY <1>3
<1>6. k.wrap => k.count = 1 /\ k.count > 0 /\ (id => k.held_by = t)
  BY <1>1, <1>2 DEF Turn
<1>7. k2.count = 0
  BY <1>6 DEF LockSound
<1>8. k2.exists = k.exists /\ k2.wrap = k.wrap /\ k2.real = k.real
  BY DEF LockOnly
<1>9. LockTyped(k2)
  BY <1>5, <1>7, <1>8 DEF LockOnly, LockTyped, LockSound
<1>10. Taken(1, "wait") = 0
  BY DEF Taken
<1>11. Turn(k2, 1, "wait", t, id, rec)
  BY <1>3, <1>5, <1>8, <1>10, LocksAssumption DEF Turn
<1>12. (k2.real => k2.owner \in {0, t}) /\ (k2.owner = 0 => k2.n = 0) /\ (~k2.wrap => k2.count = 0)
       /\ (Taken(1, "wait") = 0 => k2.count = 0)
  BY <1>5, <1>7
<1>13. LockSound(k2, [held EXCEPT ![t] = 1], [at EXCEPT ![t] = "wait"], id, threaded, rec)
  BY <1>4, <1>8, <1>9, <1>11, <1>12, LockStep
<1> QED BY <1>6, <1>13 DEF MayUnmark

\* The mutex is taken again after the wait.
LEMMA LockWakes ==
  ASSUME NEW k, NEW held, NEW at, NEW id, NEW threaded, NEW rec, LockSound(k, held, at, id, threaded, rec),
         DOMAIN held = LkThreads, DOMAIN at = LkThreads,
         NEW t \in LkThreads, threaded \/ t = 1, k.exists, held[t] = 1, at[t] = "wait", k.owner = 0,
         NEW k2, LockOnly(k, k2, {"owner", "n"}), k2.owner = t, k2.n = k.n + 1,
         NEW a, a = IF k.wrap THEN "mark" ELSE "idle"
  PROVE  LockSound(k2, [held EXCEPT ![t] = 1], [at EXCEPT ![t] = a], id, threaded, rec)
<1>1. Turn(k, 1, "wait", t, id, rec)
  BY DEF LockSound
<1>2. Untaken(held, at, t)
  BY Untakens
<1>3. Taken(held[t], at[t]) = 0
  BY DEF Taken
<1>4. \A u \in LkThreads : Taken(held[u], at[u]) = 0
  BY <1>2, <1>3 DEF Untaken
<1>5. k.count = 0 /\ k.n = 0
  BY <1>4 DEF LockSound
<1>6. k2.exists = k.exists /\ k2.wrap = k.wrap /\ k2.real = k.real /\ k2.count = 0 /\ k2.n = 1
  BY <1>5 DEF LockOnly
<1>7. LockTyped(k2)
  BY <1>6 DEF LockOnly, LockTyped, LockSound
<1>8. Taken(1, a) = 1 /\ (k.wrap => Marked(1, a) = 0)
  BY DEF Taken, Marked
<1>9. Turn(k2, 1, a, t, id, rec)
  <2>1. a \in {"mark", "idle"} /\ (a = "mark" => k2.wrap)
    BY <1>6
  <2>2. k2.wrap => k2.count = Marked(1, a) /\ ~(k2.count > 0)
    BY <1>6, <1>8
  <2> QED BY <1>6, <1>8, <2>1, <2>2 DEF Turn
<1>10. (k2.real => k2.owner \in {0, t}) /\ (k2.owner = 0 => k2.n = 0) /\ (~k2.wrap => k2.count = 0)
       /\ (Taken(1, a) = 0 => k2.count = 0)
  BY <1>6, <1>8, LocksAssumption
<1> QED BY <1>2, <1>6, <1>7, <1>9, <1>10, LockStep

\* What the operations of the mutex and of the record do to a lock.
LEMMA TakesAndDrops ==
  ASSUME NEW k, LockTyped(k), NEW t
  PROVE  /\ LockOnly(k, K!Takes(k, t), {"owner", "n"}) /\ K!Takes(k, t).owner = t /\ K!Takes(k, t).n = k.n + 1
         /\ LockOnly(k, K!Drops(k), {"owner", "n"}) /\ K!Drops(k).n = k.n - 1
         /\ K!Drops(k).owner = IF k.n = 1 THEN 0 ELSE k.owner
         /\ LockOnly(k, k, {"owner", "n"})
BY DEF K!Takes, K!Drops, LockOnly, LockTyped, LockFields

-----------------------------------------------------------------------------
(* Steps of one thread at one lock.                                        *)

Moves(h, g, t, l, k, n, p) ==
  /\ DOMAIN g = LkFields
  /\ g.locks = [h.locks EXCEPT ![l] = k]
  /\ g.held = [h.held EXCEPT ![t] = [@ EXCEPT ![l] = n]]
  /\ g.pc = [h.pc EXCEPT ![t] = p]
  /\ g.fns = h.fns /\ g.orig = h.orig /\ g.condwait = h.condwait /\ g.origcond = h.origcond
  /\ g.debugging = h.debugging /\ g.id = h.id /\ g.shut = h.shut

LEMMA LkMoves ==
  ASSUME NEW h, LkSound(h), NEW g, NEW t \in LkThreads, NEW l \in LkLocks, NEW k, NEW n, NEW p,
         Moves(h, g, t, l, k, n, p), g.ok = TRUE, LockOnly(h.locks[l], k, {"count", "held_by", "owner", "n"}),
         h.pc[t].l \in {"none", l}, p \in Pcs, p.l \in {"none", l},
         NEW a, a = (IF p.l = l THEN p.at ELSE "idle"),
         LockSound(k, [Held(h, l) EXCEPT ![t] = n], [At(h, l) EXCEPT ![t] = a], h.id, Threaded(h), K!Recursive(l))
  PROVE  LkSound(g)
<1>1. /\ g.locks = [j \in LkLocks |-> g.locks[j]] /\ g.locks[l] = k /\ \A j \in LkLocks : j # l => g.locks[j] = h.locks[j]
  BY DEF Moves, LkSound, LkTyped
<1>2a. n \in Int
  <2>1. Turn(k, [Held(h, l) EXCEPT ![t] = n][t], [At(h, l) EXCEPT ![t] = a][t], t, h.id, K!Recursive(l))
    BY DEF LockSound
  <2>2. [Held(h, l) EXCEPT ![t] = n][t] = n
    BY DEF Held
  <2> QED BY <2>1, <2>2 DEF Turn
<1>2. /\ g.held \in [LkThreads -> [LkLocks -> Int]]
      /\ g.held[t][l] = n /\ \A j \in LkLocks : j # l => g.held[t][j] = h.held[t][j]
      /\ \A u \in LkThreads : u # t => g.held[u] = h.held[u]
  BY <1>2a DEF Moves, LkSound, LkTyped
<1>3. g.pc \in [LkThreads -> Pcs] /\ g.pc[t] = p /\ \A u \in LkThreads : u # t => g.pc[u] = h.pc[u]
  BY DEF Moves, LkSound, LkTyped
<1>4. Threaded(g) = Threaded(h) /\ g.id = h.id
  BY DEF Moves, Threaded
<1>5. LkTyped(g)
  <2>1. g.fns \in {"null", "posix", "debug"} /\ g.orig \in {"null", "posix"}
    BY DEF Moves, LkSound, LkTyped
  <2>2. g.debugging \in BOOLEAN /\ g.id \in BOOLEAN /\ g.shut \in BOOLEAN /\ DOMAIN g = LkFields
    BY DEF Moves, LkSound, LkTyped
  <2> QED BY <1>1, <1>2, <1>3, <2>1, <2>2 DEF LkTyped
<1>6. Functions(g)
  <2>1. g.locks["glob"].exists = h.locks["glob"].exists /\ g.locks["glob"].wrap = h.locks["glob"].wrap
    BY <1>1, LocksAssumption DEF LockOnly
  <2> QED BY <1>4, <2>1 DEF Functions, Moves, LkSound
<1>7. ASSUME NEW j \in LkLocks
      PROVE  SoundAt(g, j)
  <2>1. CASE j = l
    <3>1. Held(g, l) = [Held(h, l) EXCEPT ![t] = n]
      BY <1>2 DEF Held
    <3>2. At(g, l) = [At(h, l) EXCEPT ![t] = a]
      BY <1>3 DEF At
    <3> QED BY <1>1, <1>4, <2>1, <3>1, <3>2 DEF SoundAt
  <2>2. CASE j # l
    <3>1. Held(g, j) = Held(h, j)
      BY <1>2, <2>2 DEF Held
    <3>2. At(g, j) = At(h, j)
      <4>1. ASSUME NEW u \in LkThreads
            PROVE  (IF g.pc[u].l = j THEN g.pc[u].at ELSE "idle") = (IF h.pc[u].l = j THEN h.pc[u].at ELSE "idle")
        BY <1>3, <2>2, LocksAssumption
      <4> QED BY <4>1 DEF At
    <3> QED BY <1>1, <1>4, <2>2, <3>1, <3>2 DEF SoundAt, LkSound
  <2> QED BY <2>1, <2>2
<1> QED BY <1>5, <1>6, <1>7 DEF LkSound

\* A thread that is doing nothing, and one that is in the middle of an operation.
LEMMA Idles ==
  ASSUME LkSound(lk), NEW t \in LkThreads, K!May(t)
  PROVE  /\ lk.pc[t] = K!NoPc /\ lk.pc[t].l = "none" /\ \A l \in LkLocks : At(lk, l)[t] = "idle"
         /\ Threaded(lk) \/ t = 1
<1>1. lk.pc[t] = K!NoPc /\ (Threaded(lk) \/ t = 1)
  BY DEF K!May, Threaded
<1>2. lk.pc[t].l = "none"
  BY <1>1 DEF K!NoPc
<1> QED BY <1>1, <1>2, LocksAssumption DEF At

LEMMA Works ==
  ASSUME LkSound(lk), NEW t \in LkThreads, NEW a \in {"mark", "drop", "wait"}, lk.pc[t].at = a, NEW l, l = lk.pc[t].l
  PROVE  /\ l \in LkLocks /\ At(lk, l)[t] = a /\ lk.held[t][l] > 0 /\ lk.locks[l].exists
         /\ Threaded(lk) \/ t = 1
         /\ Turn(lk.locks[l], lk.held[t][l], a, t, lk.id, K!Recursive(l))
<1>1. l \in LkLocks
  <2>1. lk.pc[t] \in Pcs
    BY DEF LkSound, LkTyped
  <2> QED BY <2>1 DEF Pcs, K!NoPc
<1>2. At(lk, l)[t] = a /\ Held(lk, l)[t] = lk.held[t][l]
  BY <1>1 DEF At, Held
<1>3. LockSound(lk.locks[l], Held(lk, l), At(lk, l), lk.id, Threaded(lk), K!Recursive(l))
  BY <1>1 DEF LkSound, SoundAt
<1>4. Turn(lk.locks[l], lk.held[t][l], a, t, lk.id, K!Recursive(l))
  BY <1>2, <1>3 DEF LockSound
<1>5. lk.held[t][l] > 0 /\ lk.held[t][l] # 0
  BY <1>4 DEF Turn
<1>6. lk.locks[l].exists
  BY <1>2, <1>3, <1>5 DEF LockSound
<1>7. Threaded(lk) \/ t = 1
  BY <1>2, <1>3, <1>5 DEF LockSound
<1> QED BY <1>1, <1>2, <1>4, <1>5, <1>6, <1>7

LEMMA LkLocksLock ==
  ASSUME LkSound(lk), NEW t \in LkThreads, NEW l \in LkLocks, K!evthreadimpl_lock_lock_(t, l)
  PROVE  LkSound(lk')
<1>1. PICK k : k = lk.locks[l]
  OBVIOUS
<1>2. /\ K!May(t) /\ k.exists /\ (lk.held[t][l] = 0 \/ K!Recursive(l))
      /\ k.real => k.owner \in {0, t}
  BY <1>1 DEF K!evthreadimpl_lock_lock_, K!Free_
<1>3. LockSound(k, Held(lk, l), At(lk, l), lk.id, Threaded(lk), K!Recursive(l))
  BY <1>1 DEF LkSound, SoundAt
<1>4. /\ lk.pc[t] = K!NoPc /\ lk.pc[t].l = "none" /\ At(lk, l)[t] = "idle" /\ (Threaded(lk) \/ t = 1)
  BY <1>2, Idles
<1>5. PICK k2 : k2 = IF k.real THEN K!Takes(k, t) ELSE k
  OBVIOUS
<1>6. PICK n : n = lk.held[t][l] + 1
  OBVIOUS
<1>7. PICK p : p = IF k.wrap THEN [at |-> "mark", l |-> l] ELSE K!NoPc
  OBVIOUS
<1>8. PICK a : a = IF k.wrap THEN "mark" ELSE "idle"
  OBVIOUS
<1>9. lk' = [lk EXCEPT !.steps = @ + 1, !.locks[l] = k2, !.held[t][l] = n, !.pc[t] = p]
  BY <1>1, <1>4, <1>5, <1>6, <1>7 DEF K!evthreadimpl_lock_lock_, K!Stepped, LkSound, LkTyped,
     LkFields
<1>10. Moves(lk, lk', t, l, k2, n, p) /\ lk'.ok = TRUE
  BY <1>9 DEF Moves, LkSound, LkTyped, LkFields
<1>11. /\ LockOnly(k, k2, {"owner", "n"})
       /\ k.real => k2.owner = t /\ k2.n = k.n + 1
       /\ ~k.real => k2.owner = k.owner /\ k2.n = k.n
  <2>1. LockTyped(k)
    BY <1>3 DEF LockSound
  <2> QED BY <1>5, <2>1, TakesAndDrops
<1>12. p \in Pcs /\ p.l \in {"none", l} /\ a = (IF p.l = l THEN p.at ELSE "idle")
  BY <1>7, <1>8, LocksAssumption DEF Pcs, K!NoPc
<1>13. DOMAIN Held(lk, l) = LkThreads /\ DOMAIN At(lk, l) = LkThreads /\ Held(lk, l)[t] = lk.held[t][l]
  BY DEF Held, At
<1>14. LockSound(k2, [Held(lk, l) EXCEPT ![t] = n], [At(lk, l) EXCEPT ![t] = a], lk.id, Threaded(lk), K!Recursive(l))
  BY <1>2, <1>3, <1>4, <1>6, <1>8, <1>11, <1>13, LockTakes
<1>15. LockOnly(lk.locks[l], k2, {"count", "held_by", "owner", "n"}) /\ lk.pc[t].l \in {"none", l}
  BY <1>1, <1>4, <1>11 DEF LockOnly
<1> QED BY <1>10, <1>12, <1>14, <1>15, LkMoves

LEMMA LkMarks ==
  ASSUME LkSound(lk), NEW t \in LkThreads, K!Marks(t)
  PROVE  LkSound(lk')
<1>1. PICK l : l = lk.pc[t].l
  OBVIOUS
<1>2. PICK k : k = lk.locks[l]
  OBVIOUS
<1>3. lk.pc[t].at = "mark"
  BY DEF K!Marks
<1>4. /\ l \in LkLocks /\ At(lk, l)[t] = "mark" /\ k.exists /\ (Threaded(lk) \/ t = 1)
      /\ Turn(k, lk.held[t][l], "mark", t, lk.id, K!Recursive(l))
  BY <1>1, <1>2, <1>3, Works
<1>5. LockSound(k, Held(lk, l), At(lk, l), lk.id, Threaded(lk), K!Recursive(l))
  BY <1>2, <1>4 DEF LkSound, SoundAt
<1>6. PICK k2 : k2 = [k EXCEPT !.count = k.count + 1, !.held_by = IF lk.id THEN t ELSE @]
  OBVIOUS
<1>7. PICK h : h = [lk EXCEPT !.pc[t] = K!NoPc]
  OBVIOUS
<1>8. /\ DOMAIN h = LkFields /\ h.locks = lk.locks /\ h.held = lk.held /\ h.pc = [lk.pc EXCEPT ![t] = K!NoPc]
      /\ h.fns = lk.fns /\ h.orig = lk.orig /\ h.condwait = lk.condwait /\ h.origcond = lk.origcond
      /\ h.debugging = lk.debugging /\ h.id = lk.id /\ h.shut = lk.shut /\ h.ok = lk.ok
  BY <1>7 DEF LkSound, LkTyped, LkFields
<1>9. lk' = K!evthread_debug_lock_mark_locked(h, l, t)
  BY <1>1, <1>7 DEF K!Marks
<1>10. lk' = [h EXCEPT !.locks[l] = k2,
                       !.ok = /\ @ /\ (K!Recursive(l) \/ k.count + 1 = 1)
                              /\ lk.id /\ k.count + 1 > 1 => k.held_by = t]
  BY <1>2, <1>6, <1>8, <1>9 DEF K!evthread_debug_lock_mark_locked
<1>11. Marking(k, k2, lk.id, t)
  BY <1>5, <1>6 DEF Marking, LockOnly, LockSound, LockTyped, LockFields
<1>12. PICK n : n = lk.held[t][l]
  OBVIOUS
<1>13. DOMAIN Held(lk, l) = LkThreads /\ DOMAIN At(lk, l) = LkThreads /\ Held(lk, l)[t] = n /\ lk.id \in BOOLEAN
  BY <1>12 DEF Held, At, LkSound, LkTyped
<1>14. /\ LockSound(k2, [Held(lk, l) EXCEPT ![t] = n], [At(lk, l) EXCEPT ![t] = "idle"], lk.id,
                    Threaded(lk), K!Recursive(l))
       /\ MayMark(k, lk.id, t, K!Recursive(l))
  BY <1>4, <1>5, <1>11, <1>13, LockMarks
<1>15. lk'.ok = TRUE
  BY <1>8, <1>10, <1>14 DEF LkSound, LkFields, MayMark
<1>16. /\ DOMAIN lk' = LkFields /\ lk'.locks = [lk.locks EXCEPT ![l] = k2] /\ lk'.held = lk.held /\ lk'.pc = h.pc
       /\ lk'.fns = lk.fns /\ lk'.orig = lk.orig /\ lk'.condwait = lk.condwait /\ lk'.origcond = lk.origcond
       /\ lk'.debugging = lk.debugging /\ lk'.id = lk.id /\ lk'.shut = lk.shut
  BY <1>8, <1>10 DEF LkFields
<1>17. lk.held = [lk.held EXCEPT ![t] = [@ EXCEPT ![l] = n]]
  BY <1>4, <1>12 DEF LkSound, LkTyped
<1>18. PICK q : q = K!NoPc
  OBVIOUS
<1>19. Moves(lk, lk', t, l, k2, n, q)
  BY <1>8, <1>16, <1>17, <1>18 DEF Moves
<1>20. q \in Pcs /\ q.l \in {"none", l} /\ "idle" = (IF q.l = l THEN q.at ELSE "idle")
  BY <1>4, <1>18, LocksAssumption DEF Pcs, K!NoPc
<1>22. LockOnly(lk.locks[l], k2, {"count", "held_by", "owner", "n"}) /\ lk.pc[t].l \in {"none", l}
  BY <1>1, <1>2, <1>11 DEF LockOnly, Marking
<1> QED BY <1>4, <1>15, <1>19, <1>14, <1>20, <1>22, LkMoves

LEMMA LkUnlocks ==
  ASSUME LkSound(lk), NEW t \in LkThreads, NEW l \in LkLocks, K!evthreadimpl_lock_unlock_(t, l)
  PROVE  LkSound(lk')
<1>1. PICK k : k = lk.locks[l]
  OBVIOUS
<1>2. K!May(t) /\ lk.held[t][l] > 0
  BY DEF K!evthreadimpl_lock_unlock_
<1>3. /\ lk.pc[t] = K!NoPc /\ lk.pc[t].l = "none" /\ At(lk, l)[t] = "idle" /\ (Threaded(lk) \/ t = 1)
  BY <1>2, Idles
<1>4. LockSound(k, Held(lk, l), At(lk, l), lk.id, Threaded(lk), K!Recursive(l))
  BY <1>1 DEF LkSound, SoundAt
<1>5. DOMAIN Held(lk, l) = LkThreads /\ DOMAIN At(lk, l) = LkThreads /\ Held(lk, l)[t] = lk.held[t][l] /\ lk.id \in BOOLEAN
  BY DEF Held, At, LkSound, LkTyped
<1>6. lk.held[t][l] \in Nat /\ lk.held[t][l] # 0
  BY <1>2, <1>4, <1>5 DEF LockSound, Turn
<1>7. k.exists
  BY <1>4, <1>5, <1>6 DEF LockSound
<1>8. CASE k.wrap
  <2>1. PICK p : p = [at |-> "drop", l |-> l]
    OBVIOUS
  <2>2. PICK h : h = [lk EXCEPT !.pc[t] = p]
    OBVIOUS
  <2>3. /\ DOMAIN h = LkFields /\ h.locks = lk.locks /\ h.held = lk.held /\ h.pc = [lk.pc EXCEPT ![t] = p]
        /\ h.fns = lk.fns /\ h.orig = lk.orig /\ h.condwait = lk.condwait /\ h.origcond = lk.origcond
        /\ h.debugging = lk.debugging /\ h.id = lk.id /\ h.shut = lk.shut /\ h.ok = lk.ok
    BY <2>2 DEF LkSound, LkTyped, LkFields
  <2>4. lk' = K!evthread_debug_lock_mark_unlocked(h, l, t)
    BY <1>1, <1>8, <2>1, <2>2 DEF K!evthreadimpl_lock_unlock_
  <2>5. PICK k2 : k2 = [k EXCEPT !.count = @ - 1, !.held_by = IF lk.id /\ k.count = 1 THEN 0 ELSE @]
    OBVIOUS
  <2>6. lk' = [h EXCEPT !.locks[l] = k2, !.ok = @ /\ (lk.id => k.held_by = t) /\ k.count > 0]
    BY <1>1, <2>3, <2>4, <2>5 DEF K!evthread_debug_lock_mark_unlocked, LkSound, LkTyped
  <2>7. Unmarking(k, k2)
    BY <1>4, <2>5 DEF Unmarking, LockOnly, LockSound, LockTyped, LockFields
  <2>11. PICK n : n = lk.held[t][l]
    OBVIOUS
  <2>8. /\ LockSound(k2, [Held(lk, l) EXCEPT ![t] = n], [At(lk, l) EXCEPT ![t] = "drop"], lk.id,
                     Threaded(lk), K!Recursive(l))
        /\ MayUnmark(k, lk.id, t)
    BY <1>2, <1>3, <1>4, <1>5, <1>7, <1>8, <2>7, <2>11, LockUnmarks
  <2>9. lk'.ok = TRUE
    BY <2>3, <2>6, <2>8 DEF LkSound, LkFields, MayUnmark
  <2>10. /\ DOMAIN lk' = LkFields /\ lk'.locks = [lk.locks EXCEPT ![l] = k2] /\ lk'.held = lk.held /\ lk'.pc = h.pc
         /\ lk'.fns = lk.fns /\ lk'.orig = lk.orig /\ lk'.condwait = lk.condwait /\ lk'.origcond = lk.origcond
         /\ lk'.debugging = lk.debugging /\ lk'.id = lk.id /\ lk'.shut = lk.shut
    BY <2>3, <2>6 DEF LkFields
  <2>12. lk.held = [lk.held EXCEPT ![t] = [@ EXCEPT ![l] = n]]
    BY <2>11 DEF LkSound, LkTyped
  <2>13. Moves(lk, lk', t, l, k2, n, p)
    BY <2>3, <2>10, <2>12 DEF Moves
  <2>14. p \in Pcs /\ p.l \in {"none", l} /\ "drop" = (IF p.l = l THEN p.at ELSE "idle")
    BY <2>1 DEF Pcs
  <2>16. LockOnly(lk.locks[l], k2, {"count", "held_by", "owner", "n"}) /\ lk.pc[t].l \in {"none", l}
    BY <1>1, <1>3, <2>7 DEF LockOnly, Unmarking
  <2> QED BY <2>8, <2>9, <2>13, <2>14, <2>16, LkMoves
<1>9. CASE ~k.wrap
  <2>1. PICK k2 : k2 = IF k.real THEN K!Drops(k) ELSE k
    OBVIOUS
  <2>2. PICK n : n = lk.held[t][l] - 1
    OBVIOUS
  <2>3. lk' = [lk EXCEPT !.held[t][l] = n, !.locks[l] = k2]
    BY <1>1, <1>9, <2>1, <2>2 DEF K!evthreadimpl_lock_unlock_, LkSound, LkTyped
  <2>4. PICK q : q = K!NoPc
    OBVIOUS
  <2>5. lk.pc = [lk.pc EXCEPT ![t] = q]
    BY <1>3, <2>4 DEF LkSound, LkTyped
  <2>6. /\ DOMAIN lk' = LkFields /\ lk'.locks = [lk.locks EXCEPT ![l] = k2] /\ lk'.pc = lk.pc /\ lk'.ok = lk.ok
        /\ lk'.held = [lk.held EXCEPT ![t] = [@ EXCEPT ![l] = n]]
        /\ lk'.fns = lk.fns /\ lk'.orig = lk.orig /\ lk'.condwait = lk.condwait /\ lk'.origcond = lk.origcond
        /\ lk'.debugging = lk.debugging /\ lk'.id = lk.id /\ lk'.shut = lk.shut
    BY <2>3 DEF LkSound, LkTyped, LkFields
  <2>7. Moves(lk, lk', t, l, k2, n, q) /\ lk'.ok = TRUE
    BY <2>5, <2>6 DEF Moves, LkSound, LkTyped
  <2>8. /\ LockOnly(k, k2, {"owner", "n"})
        /\ k.real => k2.n = k.n - 1 /\ k2.owner = (IF k.n = 1 THEN 0 ELSE k.owner)
        /\ ~k.real => k2.n = k.n /\ k2.owner = k.owner
    <3>1. LockTyped(k)
      BY <1>4 DEF LockSound
    <3> QED BY <2>1, <3>1, TakesAndDrops
  <2>9. At(lk, l)[t] = IF k.wrap THEN "drop" ELSE "idle"
    BY <1>3, <1>9
  <2>10. LockSound(k2, [Held(lk, l) EXCEPT ![t] = n], [At(lk, l) EXCEPT ![t] = "idle"], lk.id, Threaded(lk), K!Recursive(l))
    BY <1>2, <1>3, <1>4, <1>5, <1>7, <2>2, <2>8, <2>9, LockDrops
  <2>11. q \in Pcs /\ q.l \in {"none", l} /\ "idle" = (IF q.l = l THEN q.at ELSE "idle")
    BY <2>4, LocksAssumption DEF Pcs, K!NoPc
  <2>12. LockOnly(lk.locks[l], k2, {"count", "held_by", "owner", "n"}) /\ lk.pc[t].l \in {"none", l}
    BY <1>1, <1>3, <2>8 DEF LockOnly
  <2> QED BY <2>7, <2>10, <2>11, <2>12, LkMoves
<1> QED BY <1>8, <1>9

LEMMA LkDrops ==
  ASSUME LkSound(lk), NEW t \in LkThreads, K!debug_lock_unlock(t)
  PROVE  LkSound(lk')
<1>1. PICK l : l = lk.pc[t].l
  OBVIOUS
<1>2. PICK k : k = lk.locks[l]
  OBVIOUS
<1>3. lk.pc[t].at = "drop"
  BY DEF K!debug_lock_unlock
<1>4. /\ l \in LkLocks /\ At(lk, l)[t] = "drop" /\ k.exists /\ (Threaded(lk) \/ t = 1) /\ lk.held[t][l] > 0
      /\ Turn(k, lk.held[t][l], "drop", t, lk.id, K!Recursive(l))
  BY <1>1, <1>2, <1>3, Works
<1>5. LockSound(k, Held(lk, l), At(lk, l), lk.id, Threaded(lk), K!Recursive(l))
  BY <1>2, <1>4 DEF LkSound, SoundAt
<1>6. PICK k2 : k2 = IF k.real THEN K!Drops(k) ELSE k
  OBVIOUS
<1>7. PICK n : n = lk.held[t][l] - 1
  OBVIOUS
<1>8. PICK q : q = K!NoPc
  OBVIOUS
<1>9. lk' = [lk EXCEPT !.pc[t] = q, !.held[t][l] = n, !.locks[l] = k2]
  BY <1>1, <1>2, <1>4, <1>6, <1>7, <1>8 DEF K!debug_lock_unlock, LkSound, LkTyped
<1>10. Moves(lk, lk', t, l, k2, n, q) /\ lk'.ok = TRUE
  BY <1>9 DEF Moves, LkSound, LkTyped, LkFields
<1>11. /\ LockOnly(k, k2, {"owner", "n"})
       /\ k.real => k2.n = k.n - 1 /\ k2.owner = (IF k.n = 1 THEN 0 ELSE k.owner)
       /\ ~k.real => k2.n = k.n /\ k2.owner = k.owner
  <2>1. LockTyped(k)
    BY <1>5 DEF LockSound
  <2> QED BY <1>6, <2>1, TakesAndDrops
<1>12. DOMAIN Held(lk, l) = LkThreads /\ DOMAIN At(lk, l) = LkThreads /\ Held(lk, l)[t] = lk.held[t][l]
  BY DEF Held, At
<1>13. At(lk, l)[t] = IF k.wrap THEN "drop" ELSE "idle"
  BY <1>4 DEF Turn
<1>14. LockSound(k2, [Held(lk, l) EXCEPT ![t] = n], [At(lk, l) EXCEPT ![t] = "idle"], lk.id, Threaded(lk), K!Recursive(l))
  BY <1>4, <1>5, <1>7, <1>11, <1>12, <1>13, LockDrops
<1>15. q \in Pcs /\ q.l \in {"none", l} /\ "idle" = (IF q.l = l THEN q.at ELSE "idle")
  BY <1>4, <1>8, LocksAssumption DEF Pcs, K!NoPc
<1>16. LockOnly(lk.locks[l], k2, {"count", "held_by", "owner", "n"}) /\ lk.pc[t].l \in {"none", l}
  BY <1>1, <1>2, <1>11 DEF LockOnly
<1> QED BY <1>4, <1>10, <1>14, <1>15, <1>16, LkMoves

LEMMA LkWakes ==
  ASSUME LkSound(lk), NEW t \in LkThreads, K!Wakes(t)
  PROVE  LkSound(lk')
<1>1. PICK l : l = lk.pc[t].l
  OBVIOUS
<1>2. PICK k : k = lk.locks[l]
  OBVIOUS
<1>3. lk.pc[t].at = "wait" /\ k.owner = 0
  BY <1>1, <1>2 DEF K!Wakes, K!Free_
<1>4. /\ l \in LkLocks /\ At(lk, l)[t] = "wait" /\ k.exists /\ (Threaded(lk) \/ t = 1)
      /\ Turn(k, lk.held[t][l], "wait", t, lk.id, K!Recursive(l))
  BY <1>1, <1>2, <1>3, Works
<1>5. LockSound(k, Held(lk, l), At(lk, l), lk.id, Threaded(lk), K!Recursive(l))
  BY <1>2, <1>4 DEF LkSound, SoundAt
<1>6. PICK k2 : k2 = K!Takes(k, t)
  OBVIOUS
<1>7. PICK n : n = 1
  OBVIOUS
<1>8. lk.held[t][l] = 1
  BY <1>4 DEF Turn
<1>9. PICK q : q = IF k.wrap THEN [at |-> "mark", l |-> l] ELSE K!NoPc
  OBVIOUS
<1>10. PICK a : a = IF k.wrap THEN "mark" ELSE "idle"
  OBVIOUS
<1>11. lk' = [lk EXCEPT !.locks[l] = k2, !.pc[t] = q]
  BY <1>1, <1>2, <1>6, <1>9 DEF K!Wakes
<1>12. lk.held = [lk.held EXCEPT ![t] = [@ EXCEPT ![l] = n]]
  BY <1>4, <1>7, <1>8 DEF LkSound, LkTyped
<1>13. Moves(lk, lk', t, l, k2, n, q) /\ lk'.ok = TRUE
  BY <1>11, <1>12 DEF Moves, LkSound, LkTyped, LkFields
<1>14. LockOnly(k, k2, {"owner", "n"}) /\ k2.owner = t /\ k2.n = k.n + 1
  <2>1. LockTyped(k)
    BY <1>5 DEF LockSound
  <2> QED BY <1>6, <2>1, TakesAndDrops
<1>15. DOMAIN Held(lk, l) = LkThreads /\ DOMAIN At(lk, l) = LkThreads /\ Held(lk, l)[t] = 1
  BY <1>8 DEF Held, At
<1>16. LockSound(k2, [Held(lk, l) EXCEPT ![t] = 1], [At(lk, l) EXCEPT ![t] = a], lk.id, Threaded(lk), K!Recursive(l))
  BY <1>3, <1>4, <1>5, <1>10, <1>14, <1>15, LockWakes
<1>17. q \in Pcs /\ q.l \in {"none", l} /\ a = (IF q.l = l THEN q.at ELSE "idle")
  BY <1>4, <1>9, <1>10, LocksAssumption DEF Pcs, K!NoPc
<1>18. LockOnly(lk.locks[l], k2, {"count", "held_by", "owner", "n"}) /\ lk.pc[t].l \in {"none", l}
  BY <1>1, <1>2, <1>14 DEF LockOnly
<1>19. LockSound(k2, [Held(lk, l) EXCEPT ![t] = n], [At(lk, l) EXCEPT ![t] = a], lk.id, Threaded(lk), K!Recursive(l))
  BY <1>7, <1>16
<1> QED BY <1>4, <1>13, <1>17, <1>18, <1>19, LkMoves

LEMMA LkWaits ==
  ASSUME LkSound(lk), NEW t \in LkThreads, NEW l \in LkLocks, K!debug_cond_wait(t, l)
  PROVE  LkSound(lk')
<1>1. PICK k : k = lk.locks[l]
  OBVIOUS
<1>2. /\ K!May(t) /\ lk.held[t][l] = 1
      /\ lk.origcond = "posix" \/ lk.condwait = "posix"
  BY DEF K!debug_cond_wait
<1>3. /\ lk.pc[t] = K!NoPc /\ lk.pc[t].l = "none" /\ At(lk, l)[t] = "idle"
  BY <1>2, Idles
<1>4. Threaded(lk)
  BY <1>2 DEF LkSound, Functions
<1>5. LockSound(k, Held(lk, l), At(lk, l), lk.id, Threaded(lk), K!Recursive(l))
  BY <1>1 DEF LkSound, SoundAt
<1>6. DOMAIN Held(lk, l) = LkThreads /\ DOMAIN At(lk, l) = LkThreads /\ Held(lk, l)[t] = 1
  BY <1>2 DEF Held, At
<1>7. k.exists /\ k.real
  BY <1>4, <1>5, <1>6 DEF LockSound
<1>8. PICK q : q = [at |-> "wait", l |-> l]
  OBVIOUS
<1>9. PICK h : h = [lk EXCEPT !.steps = @ + 1, !.pc[t] = q]
  OBVIOUS
<1>10. /\ DOMAIN h = LkFields /\ h.locks = lk.locks /\ h.held = lk.held /\ h.pc = [lk.pc EXCEPT ![t] = q]
       /\ h.fns = lk.fns /\ h.orig = lk.orig /\ h.condwait = lk.condwait /\ h.origcond = lk.origcond
       /\ h.debugging = lk.debugging /\ h.id = lk.id /\ h.shut = lk.shut /\ h.ok = lk.ok
  BY <1>9 DEF LkSound, LkTyped, LkFields
<1>11. PICK u : u = IF k.wrap THEN K!evthread_debug_lock_mark_unlocked(h, l, t) ELSE h
  OBVIOUS
<1>12. lk' = [u EXCEPT !.locks[l] = K!Drops(@)]
  BY <1>1, <1>8, <1>9, <1>11 DEF K!debug_cond_wait, K!Stepped, LkSound, LkTyped, LkFields
<1>13. PICK k1 : k1 = IF k.wrap THEN [k EXCEPT !.count = @ - 1, !.held_by = IF lk.id /\ k.count = 1 THEN 0 ELSE @] ELSE k
  OBVIOUS
<1>14. /\ DOMAIN u = LkFields /\ u.locks = [lk.locks EXCEPT ![l] = k1] /\ u.held = lk.held /\ u.pc = h.pc
       /\ u.fns = lk.fns /\ u.orig = lk.orig /\ u.condwait = lk.condwait /\ u.origcond = lk.origcond
       /\ u.debugging = lk.debugging /\ u.id = lk.id /\ u.shut = lk.shut
       /\ (k.wrap /\ MayUnmark(k, lk.id, t)) \/ ~k.wrap => u.ok = TRUE
  <2>1. CASE k.wrap
    <3>1. u = [h EXCEPT !.locks[l] = k1, !.ok = @ /\ (lk.id => k.held_by = t) /\ k.count > 0]
      BY <1>1, <1>10, <1>11, <1>13, <2>1 DEF K!evthread_debug_lock_mark_unlocked, LkSound, LkTyped
    <3>2. MayUnmark(k, lk.id, t) => u.ok = TRUE
      BY <1>10, <3>1 DEF MayUnmark, LkSound, LkFields
    <3> QED BY <1>10, <2>1, <3>1, <3>2 DEF LkFields
  <2>2. CASE ~k.wrap
    <3>1. u = h /\ k1 = k
      BY <1>11, <1>13, <2>2
    <3>2. lk.locks = [lk.locks EXCEPT ![l] = k1]
      BY <1>1, <3>1 DEF LkSound, LkTyped
    <3> QED BY <1>10, <2>2, <3>1, <3>2 DEF LkSound
  <2> QED BY <2>1, <2>2
<1>15. PICK k2 : k2 = K!Drops(k1)
  OBVIOUS
<1>16. LockTyped(k1) /\ LockOnly(k, k1, {"count", "held_by"})
       /\ (k.wrap => k1.count = k.count - 1) /\ (~k.wrap => k1.count = k.count)
  BY <1>5, <1>13 DEF LockOnly, LockSound, LockTyped, LockFields
<1>17. LockOnly(k1, k2, {"owner", "n"}) /\ k2.n = k1.n - 1 /\ (k1.n = 1 => k2.owner = 0)
  BY <1>15, <1>16, TakesAndDrops
<1>18. /\ LockOnly(k, k2, {"count", "held_by", "owner", "n"})
       /\ (k.wrap => k2.count = k.count - 1) /\ (~k.wrap => k2.count = k.count)
       /\ k2.n = k.n - 1 /\ (k.n = 1 => k2.owner = 0)
  BY <1>16, <1>17 DEF LockOnly
<1>19. /\ LockSound(k2, [Held(lk, l) EXCEPT ![t] = 1], [At(lk, l) EXCEPT ![t] = "wait"], lk.id, Threaded(lk), K!Recursive(l))
       /\ k.wrap => MayUnmark(k, lk.id, t)
  BY <1>3, <1>4, <1>5, <1>6, <1>7, <1>18, LockWaits
<1>20. u.ok = TRUE
  BY <1>14, <1>19
<1>21. PICK n : n = 1
  OBVIOUS
<1>22. lk.held = [lk.held EXCEPT ![t] = [@ EXCEPT ![l] = n]]
  BY <1>2, <1>21 DEF LkSound, LkTyped
<1>23. /\ DOMAIN lk' = LkFields /\ lk'.locks = [lk.locks EXCEPT ![l] = k2] /\ lk'.held = lk.held /\ lk'.pc = h.pc
       /\ lk'.fns = lk.fns /\ lk'.orig = lk.orig /\ lk'.condwait = lk.condwait /\ lk'.origcond = lk.origcond
       /\ lk'.debugging = lk.debugging /\ lk'.id = lk.id /\ lk'.shut = lk.shut /\ lk'.ok = TRUE
  BY <1>12, <1>14, <1>15, <1>20 DEF LkSound, LkTyped, LkFields
<1>24. Moves(lk, lk', t, l, k2, n, q)
  BY <1>10, <1>22, <1>23 DEF Moves
<1>25. q \in Pcs /\ q.l \in {"none", l} /\ "wait" = (IF q.l = l THEN q.at ELSE "idle")
  BY <1>8 DEF Pcs
<1>26. LockOnly(lk.locks[l], k2, {"count", "held_by", "owner", "n"}) /\ lk.pc[t].l \in {"none", l}
  BY <1>1, <1>3, <1>18
<1> QED BY <1>19, <1>21, <1>23, <1>24, <1>25, <1>26, LkMoves

-----------------------------------------------------------------------------
(* Set-up, and locks made and freed.                                       *)

\* A lock that nobody holds.
FreshLock(k, threaded) ==
  /\ LockTyped(k) /\ k.count = 0 /\ k.owner = 0 /\ k.n = 0
  /\ ~k.exists => ~k.wrap
  /\ k.exists => k.wrap \/ k.real
  /\ k.exists /\ threaded => k.real

LEMMA FreshSound ==
  ASSUME NEW h, NEW l \in LkLocks, FreshLock(h.locks[l], Threaded(h)),
         \A t \in LkThreads : h.held[t][l] = 0 /\ h.pc[t].l # l
  PROVE  SoundAt(h, l)
<1>1. PICK k : k = h.locks[l]
  OBVIOUS
<1>2. ASSUME NEW u \in LkThreads
      PROVE  Held(h, l)[u] = 0 /\ At(h, l)[u] = "idle" /\ Taken(0, "idle") = 0
             /\ Turn(k, 0, "idle", u, h.id, K!Recursive(l))
  BY <1>1, LocksAssumption DEF Held, At, Taken, Turn, FreshLock
<1>3. LockSound(k, Held(h, l), At(h, l), h.id, Threaded(h), K!Recursive(l))
  BY <1>1, <1>2 DEF FreshLock, LockSound
<1> QED BY <1>1, <1>3 DEF SoundAt

LEMMA FreshLocks ==
  /\ \A th : FreshLock(K!NoLock, th)
  /\ \A th, l : FreshLock(K!evthread_posix_lock_alloc(l), th) /\ K!evthread_posix_lock_alloc(l).exists = TRUE
                /\ K!evthread_posix_lock_alloc(l).wrap = FALSE
  /\ \A th, h, l : /\ K!debug_lock_alloc(h, l).exists = TRUE /\ K!debug_lock_alloc(h, l).wrap = TRUE
                   /\ (th => h.orig = "posix") => FreshLock(K!debug_lock_alloc(h, l), th)
  /\ K!NoLock.exists = FALSE /\ K!NoLock.wrap = FALSE
<1>1. \A th : FreshLock(K!NoLock, th) /\ K!NoLock.exists = FALSE /\ K!NoLock.wrap = FALSE
  BY DEF FreshLock, LockTyped, LockFields, K!NoLock
<1>2. ASSUME NEW th, NEW l
      PROVE  FreshLock(K!evthread_posix_lock_alloc(l), th) /\ K!evthread_posix_lock_alloc(l).exists = TRUE
             /\ K!evthread_posix_lock_alloc(l).wrap = FALSE
  BY DEF FreshLock, LockTyped, LockFields, K!NoLock, K!evthread_posix_lock_alloc
<1>3. ASSUME NEW th, NEW h, NEW l
      PROVE  /\ K!debug_lock_alloc(h, l).exists = TRUE /\ K!debug_lock_alloc(h, l).wrap = TRUE
             /\ (th => h.orig = "posix") => FreshLock(K!debug_lock_alloc(h, l), th)
  <2>1. PICK k : k = K!debug_lock_alloc(h, l)
    OBVIOUS
  <2>2. PICK p \in BOOLEAN : p <=> h.orig = "posix"
    OBVIOUS
  <2>3. /\ DOMAIN k = LockFields /\ k.exists = TRUE /\ k.wrap = TRUE /\ k.count = 0 /\ k.owner = 0 /\ k.n = 0
        /\ k.real \in BOOLEAN /\ (k.real <=> p)
    BY <2>1, <2>2 DEF LockFields, K!NoLock, K!debug_lock_alloc
  <2>4. (th => h.orig = "posix") => FreshLock(k, th)
    <3>1. LockTyped(k)
      <4>1. k.count \in Int /\ k.n \in Int
        BY <2>3
      <4>2. k.exists \in BOOLEAN /\ k.wrap \in BOOLEAN
        BY <2>3
      <4> QED BY <2>3, <4>1, <4>2, Zenon DEF LockTyped
    <3>2. (th => h.orig = "posix") /\ k.exists /\ th => k.real
      BY <2>2, <2>3
    <3> QED BY <2>3, <3>1, <3>2, Zenon DEF FreshLock
  <2> QED BY <2>1, <2>3, <2>4
<1> QED BY <1>1, <1>2, <1>3

\* Nobody holds anything when the program sets up.
LEMMA SetupQuiet ==
  ASSUME LkSound(lk), K!Setup
  PROVE  /\ ~lk.shut
         /\ \A t \in LkThreads, l \in LkLocks : lk.held[t][l] = 0 /\ lk.pc[t].l # l
         /\ \A l \in LkLocks : FreshLock(lk.locks[l], Threaded(lk))
         /\ \A l \in LkLocks : l # "glob" => ~lk.locks[l].exists
<1>1. ~lk.shut /\ \A l \in LkLocks : l # "glob" => ~lk.locks[l].exists
  BY DEF K!Setup, K!NoLocksYet
<1>2. ASSUME NEW l \in LkLocks
      PROVE  /\ lk.locks[l].count = 0 /\ lk.locks[l].owner = 0
             /\ LockSound(lk.locks[l], Held(lk, l), At(lk, l), lk.id, Threaded(lk), K!Recursive(l))
  BY DEF K!Setup, LkSound, SoundAt
<1>3. ASSUME NEW l \in LkLocks
      PROVE  FreshLock(lk.locks[l], Threaded(lk))
  BY <1>2 DEF FreshLock, LockSound
<1>4. ASSUME NEW t \in LkThreads
      PROVE  lk.pc[t].l = "none"
  BY DEF K!Setup, K!Quiet, K!NoPc
<1>5. ASSUME NEW t \in LkThreads, NEW l \in LkLocks
      PROVE  lk.held[t][l] = 0 /\ lk.pc[t].l # l
  <2>1. lk.pc[t].l # l
    BY <1>4, LocksAssumption
  <2>2. At(lk, l)[t] = "idle" /\ Held(lk, l)[t] = lk.held[t][l]
    BY <2>1 DEF At, Held
  <2>3. Turn(lk.locks[l], lk.held[t][l], "idle", t, lk.id, K!Recursive(l))
    BY <1>2, <2>2 DEF LockSound
  <2>4. SUFFICES ASSUME lk.held[t][l] > 0
                 PROVE  FALSE
    BY <2>1, <2>3 DEF Turn
  <2>5. Taken(lk.held[t][l], "idle") = lk.held[t][l] /\ Marked(lk.held[t][l], "idle") = lk.held[t][l]
    BY DEF Taken, Marked
  <2>6. ~lk.locks[l].real
    BY <1>2, <2>3, <2>4, <2>5, LocksAssumption DEF Turn
  <2>7. ~lk.locks[l].wrap
    BY <1>2, <2>3, <2>4, <2>5 DEF Turn
  <2>8. lk.locks[l].exists
    BY <1>2, <2>2, <2>3, <2>4 DEF LockSound, Turn
  <2> QED BY <1>2, <2>6, <2>7, <2>8 DEF LockSound
<1> QED BY <1>1, <1>3, <1>5

LEMMA SetsUp ==
  ASSUME LkSound(lk), K!Setup, NEW g, LkTyped(g), Functions(g), g.ok, g.held = lk.held, g.pc = lk.pc,
         \A l \in LkLocks : l # "glob" => g.locks[l] = lk.locks[l],
         FreshLock(g.locks["glob"], Threaded(g))
  PROVE  LkSound(g)
<1>1. ASSUME NEW l \in LkLocks
      PROVE  SoundAt(g, l)
  <2>1. \A t \in LkThreads : g.held[t][l] = 0 /\ g.pc[t].l # l
    BY SetupQuiet
  <2>2. FreshLock(g.locks[l], Threaded(g))
    <3>1. CASE l = "glob"
      BY <3>1
    <3>2. CASE l # "glob"
      BY <3>2, SetupQuiet DEF FreshLock
    <3> QED BY <3>1, <3>2
  <2> QED BY <2>1, <2>2, FreshSound
<1> QED BY <1>1 DEF LkSound

\* Only the fields of C differ, and the global lock.
SetOnly(h, g, C) ==
  /\ DOMAIN g = LkFields /\ g.held = h.held /\ g.pc = h.pc
  /\ ("fns" \notin C => g.fns = h.fns) /\ ("orig" \notin C => g.orig = h.orig)
  /\ ("condwait" \notin C => g.condwait = h.condwait) /\ ("origcond" \notin C => g.origcond = h.origcond)
  /\ ("debugging" \notin C => g.debugging = h.debugging) /\ ("id" \notin C => g.id = h.id)
  /\ ("shut" \notin C => g.shut = h.shut) /\ ("ok" \notin C => g.ok = h.ok)
  /\ ("locks" \notin C => g.locks = h.locks)
  /\ g.locks = [l \in LkLocks |-> g.locks[l]]
  /\ \A l \in LkLocks : l # "glob" => g.locks[l] = h.locks[l]

\* evthread_use_pthreads: lock functions, condition functions, and how to name a thread.
LEMMA LkUsesPthreads ==
  ASSUME LkSound(lk), K!evthread_use_pthreads
  PROVE  LkSound(lk')
<1>1. K!Setup
  BY DEF K!evthread_use_pthreads
<1>2. PICK h : h = K!Stepped
  OBVIOUS
<1>3. SetOnly(lk, h, {})
  BY <1>2 DEF K!Stepped, LkSound, LkTyped, LkFields, SetOnly
<1>4. PICK g : g = K!evthread_set_lock_callbacks(h)
  OBVIOUS
<1>5. PICK f : f = K!evthread_set_condition_callbacks(g)
  OBVIOUS
<1>6. lk' = [f EXCEPT !.id = TRUE]
  BY <1>2, <1>4, <1>5 DEF K!evthread_use_pthreads
<1>7. PICK k : k = lk.locks["glob"]
  OBVIOUS
<1>8. /\ LockTyped(k) /\ FreshLock(k, Threaded(lk)) /\ ~lk.shut /\ (k.exists <=> lk.fns # "null")
      /\ lk.debugging => lk.fns = "debug" /\ k.wrap
      /\ ~lk.debugging => lk.fns # "debug" /\ lk.orig = "null"
      /\ lk.fns \in {"null", "posix", "debug"} /\ lk.orig \in {"null", "posix"} /\ lk.debugging \in BOOLEAN /\ lk.ok
  BY <1>1, <1>7, SetupQuiet, LocksAssumption DEF LkSound, LkTyped, Functions, FreshLock
<1>9. /\ SetOnly(lk, g, {"fns", "orig", "locks", "ok"}) /\ g.ok = TRUE /\ Threaded(g)
      /\ FreshLock(g.locks["glob"], TRUE) /\ g.locks["glob"].exists = TRUE /\ g.fns # "null"
      /\ lk.debugging => g.fns = "debug" /\ g.locks["glob"].wrap = TRUE /\ g.orig = "posix"
      /\ ~lk.debugging => g.fns = "posix" /\ g.orig = "null"
  <2>1. CASE lk.debugging /\ lk.orig # "null"
    <3>1. g = h
      BY <1>3, <1>4, <2>1 DEF K!evthread_set_lock_callbacks, SetOnly
    <3>2. Threaded(g) /\ lk.orig = "posix"
      BY <1>3, <1>8, <2>1, <3>1 DEF Threaded, SetOnly
    <3>3. FreshLock(g.locks["glob"], TRUE) /\ g.locks["glob"].exists = TRUE /\ g.locks["glob"].wrap = TRUE
      BY <1>3, <1>7, <1>8, <2>1, <3>1, <3>2 DEF Threaded, SetOnly, FreshLock, LockTyped
    <3> QED BY <1>3, <1>8, <2>1, <3>1, <3>2, <3>3 DEF SetOnly
  <2>2. CASE ~lk.debugging /\ lk.fns # "null"
    <3>1. g = h
      BY <1>3, <1>4, <2>2 DEF K!evthread_set_lock_callbacks, SetOnly
    <3>2. Threaded(g) /\ lk.fns = "posix" /\ Threaded(lk)
      BY <1>3, <1>8, <2>2, <3>1 DEF Threaded, SetOnly
    <3>3. FreshLock(g.locks["glob"], TRUE) /\ g.locks["glob"].exists = TRUE
      BY <1>3, <1>7, <1>8, <2>2, <3>1, <3>2 DEF SetOnly, FreshLock, LockTyped
    <3> QED BY <1>3, <1>8, <2>2, <3>1, <3>2, <3>3 DEF SetOnly
  <2>3. CASE lk.debugging /\ lk.orig = "null"
    <3>1. PICK k2 : k2 = [k EXCEPT !.real = TRUE, !.realrec = IF k.real THEN @ ELSE TRUE]
      OBVIOUS
    <3>2. g = [[h EXCEPT !.orig = "posix"] EXCEPT !.locks["glob"] = k2, !.ok = @ /\ k.wrap]
      <4>1. PICK s : s = [h EXCEPT !.orig = "posix"]
        OBVIOUS
      <4>2. s.locks = lk.locks /\ s.debugging = TRUE /\ s.locks["glob"] = k /\ k.exists
        BY <1>3, <1>7, <1>8, <2>3, <4>1 DEF SetOnly, LkFields
      <4>3. g = K!evthread_setup_global_lock_(s, "glob", TRUE)
        BY <1>3, <1>4, <2>3, <4>1 DEF K!evthread_set_lock_callbacks, K!event_global_setup_locks_,
           SetOnly
      <4> QED BY <3>1, <4>1, <4>2, <4>3 DEF K!evthread_setup_global_lock_
    <3>3. /\ DOMAIN g = LkFields /\ g.locks = [lk.locks EXCEPT !["glob"] = k2] /\ g.orig = "posix" /\ g.fns = lk.fns
          /\ g.ok = TRUE /\ g.held = lk.held /\ g.pc = lk.pc /\ g.condwait = lk.condwait /\ g.origcond = lk.origcond
          /\ g.debugging = lk.debugging /\ g.id = lk.id /\ g.shut = lk.shut
      BY <1>3, <1>8, <2>3, <3>2 DEF SetOnly, LkFields
    <3>4. SetOnly(lk, g, {"fns", "orig", "locks", "ok"}) /\ g.locks["glob"] = k2
      BY <3>3, LocksAssumption DEF SetOnly, LkSound, LkTyped
    <3>5. FreshLock(k2, TRUE) /\ k2.exists = TRUE /\ k2.wrap = TRUE
      BY <1>8, <2>3, <3>1 DEF FreshLock, LockTyped, LockFields
    <3> QED BY <1>8, <2>3, <3>3, <3>4, <3>5 DEF Threaded
  <2>4. CASE ~lk.debugging /\ lk.fns = "null"
    <3>1. PICK k2 : k2 = K!evthread_posix_lock_alloc("glob")
      OBVIOUS
    <3>2. g = [[h EXCEPT !.fns = "posix"] EXCEPT !.locks["glob"] = k2, !.ok = @ /\ ~k.exists]
      <4>1. PICK s : s = [h EXCEPT !.fns = "posix"]
        OBVIOUS
      <4>2. s.locks = lk.locks /\ s.debugging = FALSE /\ s.locks["glob"] = k /\ s.fns = "posix"
        BY <1>3, <1>7, <1>8, <2>4, <4>1 DEF SetOnly, LkFields
      <4>3. g = K!evthread_setup_global_lock_(s, "glob", TRUE)
        BY <1>3, <1>4, <2>4, <4>1 DEF K!evthread_set_lock_callbacks, K!event_global_setup_locks_,
           SetOnly
      <4>4. K!evthreadimpl_lock_alloc_(s, "glob") = k2
        BY <3>1, <4>2 DEF K!evthreadimpl_lock_alloc_
      <4> QED BY <4>1, <4>2, <4>3, <4>4 DEF K!evthread_setup_global_lock_
    <3>3. /\ DOMAIN g = LkFields /\ g.locks = [lk.locks EXCEPT !["glob"] = k2] /\ g.fns = "posix" /\ g.orig = lk.orig
          /\ g.ok = TRUE /\ g.held = lk.held /\ g.pc = lk.pc /\ g.condwait = lk.condwait /\ g.origcond = lk.origcond
          /\ g.debugging = lk.debugging /\ g.id = lk.id /\ g.shut = lk.shut
      BY <1>3, <1>8, <2>4, <3>2 DEF SetOnly, LkFields
    <3>4. SetOnly(lk, g, {"fns", "orig", "locks", "ok"}) /\ g.locks["glob"] = k2
      BY <3>3, LocksAssumption DEF SetOnly, LkSound, LkTyped
    <3>5. FreshLock(k2, TRUE) /\ k2.exists = TRUE
      BY <3>1, FreshLocks
    <3> QED BY <1>8, <2>4, <3>3, <3>4, <3>5 DEF Threaded
  <2> QED BY <1>8, <2>1, <2>2, <2>3, <2>4
<1>10. SetOnly(g, f, {"condwait", "origcond"})
  BY <1>5, <1>9 DEF K!evthread_set_condition_callbacks, SetOnly, LkFields
<1>11. SetOnly(f, lk', {"id"}) /\ lk'.id = TRUE
  BY <1>6, <1>10 DEF SetOnly, LkFields
<1>12. /\ SetOnly(lk, lk', {"fns", "orig", "locks", "ok", "condwait", "origcond", "id"}) /\ lk'.fns = g.fns
       /\ lk'.orig = g.orig /\ lk'.locks = g.locks /\ lk'.ok = TRUE
  BY <1>9, <1>10, <1>11 DEF SetOnly
<1>13. LkTyped(lk')
  BY <1>8, <1>9, <1>11, <1>12 DEF SetOnly, LkTyped, LkSound
<1>14. Threaded(lk')
  BY <1>9, <1>12 DEF Threaded
<1>15. Functions(lk')
  BY <1>8, <1>9, <1>12, <1>14 DEF Functions, SetOnly
<1>16. FreshLock(lk'.locks["glob"], Threaded(lk'))
  BY <1>9, <1>12, <1>14 DEF FreshLock
<1>17. /\ lk'.held = lk.held /\ lk'.pc = lk.pc /\ lk'.ok
       /\ \A l \in LkLocks : l # "glob" => lk'.locks[l] = lk.locks[l]
  BY <1>12 DEF SetOnly
<1> QED BY <1>1, <1>13, <1>15, <1>16, <1>17, SetsUp

\* evthread_enable_lock_debugging: the global lock becomes a debugging lock.
LEMMA LkEnablesDebugging ==
  ASSUME LkSound(lk), K!evthread_enable_lock_debugging
  PROVE  LkSound(lk')
<1>1. K!Setup
  BY DEF K!evthread_enable_lock_debugging
<1>2. PICK k : k = lk.locks["glob"]
  OBVIOUS
<1>3. /\ FreshLock(k, Threaded(lk)) /\ ~lk.shut /\ (k.exists <=> lk.fns # "null")
      /\ lk.debugging => lk.fns = "debug" /\ k.wrap
      /\ ~lk.debugging => lk.fns # "debug" /\ lk.orig = "null"
      /\ lk.fns \in {"null", "posix", "debug"} /\ lk.orig \in {"null", "posix"} /\ lk.debugging \in BOOLEAN /\ lk.ok = TRUE
  BY <1>1, <1>2, SetupQuiet, LocksAssumption DEF LkSound, LkTyped, Functions
<1>4. CASE lk.debugging
  <2>1. lk' = K!Stepped
    BY <1>4 DEF K!evthread_enable_lock_debugging
  <2>2. SetOnly(lk, lk', {})
    BY <2>1 DEF K!Stepped, LkSound, LkTyped, LkFields, SetOnly
  <2>3. LkTyped(lk') /\ Functions(lk') /\ lk'.ok /\ Threaded(lk') = Threaded(lk)
    BY <2>2 DEF LkSound, LkTyped, Functions, Threaded, SetOnly
  <2>4. FreshLock(lk'.locks["glob"], Threaded(lk'))
    BY <1>2, <1>3, <2>2, <2>3 DEF SetOnly
  <2>5. /\ lk'.held = lk.held /\ lk'.pc = lk.pc /\ \A l \in LkLocks : l # "glob" => lk'.locks[l] = lk.locks[l]
    BY <2>2 DEF SetOnly
  <2> QED BY <1>1, <2>3, <2>4, <2>5, SetsUp
<1>5. CASE ~lk.debugging
  <2>1. PICK h : h = [K!Stepped EXCEPT !.orig = lk.fns, !.fns = "debug", !.origcond = lk.condwait,
                                       !.condwait = "debug", !.debugging = TRUE]
    OBVIOUS
  <2>2. /\ SetOnly(lk, h, {"fns", "orig", "condwait", "origcond", "debugging"}) /\ h.orig = lk.fns /\ h.fns = "debug"
        /\ h.origcond = lk.condwait /\ h.condwait = "debug" /\ h.debugging = TRUE
    BY <2>1 DEF K!Stepped, LkSound, LkTyped, LkFields, SetOnly
  <2>3. PICK k2 : k2 = K!debug_lock_alloc(h, "glob")
    OBVIOUS
  <2>4. lk' = K!evthread_setup_global_lock_(h, "glob", FALSE)
    BY <1>5, <2>1 DEF K!evthread_enable_lock_debugging, K!event_global_setup_locks_
  <2>5. h.locks["glob"] = k /\ h.ok = TRUE
    BY <1>2, <1>3, <2>2 DEF SetOnly
  <2>6. /\ DOMAIN lk' = LkFields /\ lk'.locks = [h.locks EXCEPT !["glob"] = k2] /\ lk'.ok = TRUE
        /\ lk'.held = h.held /\ lk'.pc = h.pc /\ lk'.fns = h.fns /\ lk'.orig = h.orig
        /\ lk'.condwait = h.condwait /\ lk'.origcond = h.origcond
        /\ lk'.debugging = h.debugging /\ lk'.id = h.id /\ lk'.shut = h.shut
    <3>1. CASE h.orig = "null"
      <4>1. lk' = [h EXCEPT !.locks["glob"] = k2, !.ok = @ /\ ~k.exists]
        BY <2>3, <2>4, <2>5, <3>1 DEF K!evthread_setup_global_lock_
      <4>2. ~k.exists
        BY <1>3, <2>2, <3>1
      <4> QED BY <2>2, <2>5, <4>1, <4>2 DEF SetOnly, LkFields
    <3>2. CASE h.orig # "null"
      <4>1. lk' = [h EXCEPT !.locks["glob"] = k2, !.ok = @ /\ k.exists]
        BY <2>3, <2>4, <2>5, <3>2 DEF K!evthread_setup_global_lock_
      <4>2. k.exists
        BY <1>3, <2>2, <3>2
      <4> QED BY <2>2, <2>5, <4>1, <4>2 DEF SetOnly, LkFields
    <3> QED BY <3>1, <3>2
  <2>7. /\ lk'.locks = [l \in LkLocks |-> lk'.locks[l]] /\ lk'.locks["glob"] = k2
        /\ \A l \in LkLocks : l # "glob" => lk'.locks[l] = lk.locks[l]
    BY <2>2, <2>6, LocksAssumption DEF SetOnly
  <2>8. /\ lk'.held = lk.held /\ lk'.pc = lk.pc /\ lk'.ok = TRUE /\ lk'.fns = "debug" /\ lk'.orig = lk.fns
        /\ lk'.condwait = "debug" /\ lk'.origcond = lk.condwait /\ lk'.debugging = TRUE /\ lk'.id = lk.id
        /\ lk'.shut = lk.shut
    BY <2>2, <2>6 DEF SetOnly
  <2>9. Threaded(lk') <=> Threaded(lk)
    BY <1>3, <1>5, <2>8 DEF Threaded
  <2>10. LkTyped(lk')
    BY <1>3, <1>5, <2>6, <2>7, <2>8 DEF LkTyped, LkSound
  <2>11. k2.exists = TRUE /\ k2.wrap = TRUE /\ ((Threaded(lk') => h.orig = "posix") => FreshLock(k2, Threaded(lk')))
    BY <2>3, FreshLocks
  <2>12. Threaded(lk') => h.orig = "posix"
    BY <2>2, <2>8 DEF Threaded
  <2>13. Functions(lk')
    BY <2>7, <2>8, <2>9, <2>11 DEF Functions, LkSound
  <2> QED BY <1>1, <2>7, <2>8, <2>10, <2>11, <2>12, <2>13, SetsUp
<1> QED BY <1>3, <1>4, <1>5

\* libevent_global_shutdown: the global lock goes.
LEMMA LkShutsDown ==
  ASSUME LkSound(lk), K!libevent_global_shutdown
  PROVE  LkSound(lk')
<1>1. K!Setup
  BY DEF K!libevent_global_shutdown
<1>2. FreshLock(lk.locks["glob"], Threaded(lk))
  BY <1>1, SetupQuiet, LocksAssumption
<1>3. PICK d \in BOOLEAN : d = IF lk.locks["glob"].exists THEN FALSE ELSE lk.debugging
  BY DEF LkSound, LkTyped
<1>4. lk' = [K!Stepped EXCEPT !.shut = TRUE, !.ok = @ /\ lk.locks["glob"].count = 0, !.locks["glob"] = K!NoLock,
                              !.debugging = IF lk.locks["glob"].exists THEN FALSE ELSE @]
  BY DEF K!libevent_global_shutdown
<1>5. /\ DOMAIN lk' = LkFields /\ lk'.locks = [lk.locks EXCEPT !["glob"] = K!NoLock] /\ lk'.ok = TRUE
      /\ lk'.held = lk.held /\ lk'.pc = lk.pc /\ lk'.fns = lk.fns /\ lk'.orig = lk.orig
      /\ lk'.condwait = lk.condwait /\ lk'.origcond = lk.origcond
      /\ lk'.debugging = d /\ lk'.id = lk.id /\ lk'.shut = TRUE
  BY <1>2, <1>3, <1>4 DEF K!Stepped, LkSound, LkTyped, LkFields, FreshLock
<1>6. /\ lk'.locks = [l \in LkLocks |-> lk'.locks[l]] /\ lk'.locks["glob"] = K!NoLock
      /\ \A l \in LkLocks : l # "glob" => lk'.locks[l] = lk.locks[l]
  BY <1>5, LocksAssumption DEF LkSound, LkTyped
<1>7. LkTyped(lk')
  BY <1>3, <1>5, <1>6 DEF LkTyped, LkSound
<1>8. Functions(lk')
  BY <1>5 DEF Functions, LkSound, Threaded
<1>9. FreshLock(lk'.locks["glob"], Threaded(lk'))
  BY <1>6, FreshLocks
<1> QED BY <1>1, <1>5, <1>6, <1>7, <1>8, <1>9, SetsUp

\* A lock that nobody holds is made or freed.
LEMMA LkReplaces ==
  ASSUME LkSound(lk), NEW l \in LkLocks, l # "glob", NEW k, FreshLock(k, Threaded(lk)),
         \A t \in LkThreads : lk.held[t][l] = 0 /\ lk.pc[t].l # l,
         NEW g, SetOnly(lk, [g EXCEPT !.locks = lk.locks], {}), DOMAIN g = LkFields,
         g.locks = [lk.locks EXCEPT ![l] = k]
  PROVE  LkSound(g)
<1>1. /\ g.held = lk.held /\ g.pc = lk.pc /\ g.fns = lk.fns /\ g.orig = lk.orig /\ g.condwait = lk.condwait
      /\ g.origcond = lk.origcond /\ g.debugging = lk.debugging /\ g.id = lk.id /\ g.shut = lk.shut /\ g.ok = lk.ok
  BY DEF SetOnly, LkFields
<1>2. /\ g.locks = [j \in LkLocks |-> g.locks[j]] /\ g.locks[l] = k
      /\ \A j \in LkLocks : j # l => g.locks[j] = lk.locks[j]
  BY DEF LkSound, LkTyped
<1>3. LkTyped(g)
  BY <1>1, <1>2 DEF LkSound, LkTyped
<1>4. Functions(g)
  BY <1>1, <1>2, LocksAssumption DEF LkSound, Functions, Threaded
<1>5. ASSUME NEW j \in LkLocks
      PROVE  SoundAt(g, j)
  <2>1. CASE j = l
    <3>1. FreshLock(g.locks[l], Threaded(g)) /\ \A t \in LkThreads : g.held[t][l] = 0 /\ g.pc[t].l # l
      BY <1>1, <1>2 DEF Threaded
    <3> QED BY <2>1, <3>1, FreshSound
  <2>2. CASE j # l
    BY <1>1, <1>2, <2>2 DEF LkSound, SoundAt, Held, At, Threaded
  <2> QED BY <2>1, <2>2
<1> QED BY <1>1, <1>3, <1>4, <1>5 DEF LkSound

LEMMA LkAllocates ==
  ASSUME LkSound(lk), K!Alloc
  PROVE  LkSound(lk')
<1>1. PICK l \in LkLocks \ {"glob"} :
        ~lk.locks[l].exists /\ lk.fns # "null" /\ lk' = [K!Stepped EXCEPT !.locks[l] = K!evthreadimpl_lock_alloc_(lk, l)]
  BY DEF K!Alloc
<1>2. ~lk.shut /\ K!Quiet
  BY DEF K!Alloc
<1>3. ASSUME NEW t \in LkThreads
      PROVE  lk.held[t][l] = 0 /\ lk.pc[t].l # l
  <2>1. lk.pc[t].l # l
    BY <1>1, <1>2, LocksAssumption DEF K!Quiet, K!NoPc
  <2>2. Held(lk, l)[t] = lk.held[t][l]
    BY DEF Held
  <2> QED BY <1>1, <2>1, <2>2 DEF LkSound, SoundAt, LockSound
<1>4. PICK k : k = K!evthreadimpl_lock_alloc_(lk, l)
  OBVIOUS
<1>5. FreshLock(k, Threaded(lk))
  <2>1. CASE lk.fns = "posix"
    <3>1. k = K!evthread_posix_lock_alloc(l)
      BY <1>4, <2>1 DEF K!evthreadimpl_lock_alloc_
    <3> QED BY <3>1, FreshLocks
  <2>2. CASE lk.fns = "debug"
    <3>1. k = K!debug_lock_alloc(lk, l)
      BY <1>4, <2>2 DEF K!evthreadimpl_lock_alloc_
    <3>2. Threaded(lk) => lk.orig = "posix"
      BY <2>2 DEF Threaded
    <3> QED BY <3>1, <3>2, FreshLocks
  <2> QED BY <1>1, <2>1, <2>2 DEF LkSound, LkTyped
<1>6. /\ SetOnly(lk, [lk' EXCEPT !.locks = lk.locks], {}) /\ DOMAIN lk' = LkFields
      /\ lk'.locks = [lk.locks EXCEPT ![l] = k]
  BY <1>1, <1>4 DEF K!Stepped, SetOnly, LkSound, LkTyped, LkFields
<1> QED BY <1>1, <1>3, <1>5, <1>6, LkReplaces

LEMMA LkFrees ==
  ASSUME LkSound(lk), K!debug_lock_free
  PROVE  LkSound(lk')
<1>1. PICK l \in LkLocks \ {"glob"} :
        /\ \A t \in LkThreads : lk.held[t][l] = 0 /\ lk.pc[t].l # l
        /\ lk' = [K!Stepped EXCEPT !.locks[l] = K!NoLock, !.ok = @ /\ lk.locks[l].count = 0]
  BY DEF K!debug_lock_free
<1>2. lk.locks[l].count = 0
  <2>1. \A t \in LkThreads : Taken(Held(lk, l)[t], At(lk, l)[t]) = 0
    BY <1>1 DEF Held, At, Taken
  <2> QED BY <2>1 DEF LkSound, SoundAt, LockSound
<1>3. PICK k : k = K!NoLock
  OBVIOUS
<1>4. /\ SetOnly(lk, [lk' EXCEPT !.locks = lk.locks], {}) /\ DOMAIN lk' = LkFields
      /\ lk'.locks = [lk.locks EXCEPT ![l] = k]
  BY <1>1, <1>2, <1>3 DEF K!Stepped, SetOnly, LkSound, LkTyped, LkFields
<1>5. FreshLock(k, Threaded(lk))
  BY <1>3, FreshLocks
<1> QED BY <1>1, <1>4, <1>5, LkReplaces

LEMMA LkInit ==
  ASSUME K!Init
  PROVE  LkSound(lk)
<1>1. /\ DOMAIN lk = LkFields /\ lk.fns = "null" /\ lk.orig = "null" /\ lk.condwait = "null" /\ lk.origcond = "null"
      /\ lk.debugging = FALSE /\ lk.id = FALSE /\ lk.shut = FALSE /\ lk.ok = TRUE
      /\ lk.locks = [l \in LkLocks |-> K!NoLock] /\ lk.held = [t \in LkThreads |-> [l \in LkLocks |-> 0]]
      /\ lk.pc = [t \in LkThreads |-> K!NoPc]
  BY DEF K!Init, LkFields
<1>2. \A l \in LkLocks : SoundAt(lk, l)
  <2>1. ASSUME NEW l \in LkLocks
        PROVE  SoundAt(lk, l)
    <3>1. FreshLock(lk.locks[l], Threaded(lk))
      BY <1>1, FreshLocks
    <3>2. \A t \in LkThreads : lk.held[t][l] = 0 /\ lk.pc[t].l # l
      BY <1>1, LocksAssumption DEF K!NoPc
    <3> QED BY <3>1, <3>2, FreshSound
  <2> QED BY <2>1
<1>3. LkTyped(lk)
  <2>1. lk.held \in [LkThreads -> [LkLocks -> Int]]
    BY <1>1
  <2>2. lk.pc \in [LkThreads -> Pcs]
    BY <1>1 DEF Pcs
  <2>3. lk.locks = [l \in LkLocks |-> lk.locks[l]]
    BY <1>1
  <2>4. lk.debugging \in BOOLEAN /\ lk.id \in BOOLEAN /\ lk.shut \in BOOLEAN /\ lk.ok \in BOOLEAN
    BY <1>1
  <2> QED BY <1>1, <2>1, <2>2, <2>3, <2>4 DEF LkTyped
<1>4. Functions(lk)
  BY <1>1, FreshLocks, LocksAssumption DEF Functions
<1> QED BY <1>1, <1>2, <1>3, <1>4 DEF LkSound

\* No two threads are inside one lock, the record of a debugging lock names its holder
\* and its depth, and no assertion about it fails (evthread.c), in whatever order the
\* lock functions and the debugging were set up, for any number of threads and locks.
THEOREM LocksAreSound == SuiteSpec => [](part = "locks" => K!LocksExclude /\ K!DebugRecordsHolder)
<1> DEFINE Inv == part = "locks" => LkSound(lk)
<1>1. SuiteInit => Inv
  BY LkInit DEF SuiteInit
<1>2. Inv /\ [SuiteNext]_<<part, sg, bk, ln, li, lk, bl>> => Inv'
  <2>1. ASSUME LkSound(lk), K!Next
        PROVE  LkSound(lk')
    <3>1. CASE \E t \in LkThreads : K!Marks(t) \/ K!debug_lock_unlock(t) \/ K!Wakes(t)
      BY <2>1, <3>1, LkMarks, LkDrops, LkWakes
    <3>2. CASE \E t \in LkThreads, l \in LkLocks :
                  K!evthreadimpl_lock_lock_(t, l) \/ K!evthreadimpl_lock_unlock_(t, l) \/ K!debug_cond_wait(t, l)
      BY <2>1, <3>2, LkLocksLock, LkUnlocks, LkWaits
    <3> QED
      BY <2>1, <3>1, <3>2, LkUsesPthreads, LkEnablesDebugging, LkShutsDown, LkAllocates,
         LkFrees DEF K!Next
  <2>2. ASSUME Inv, SuiteNext
        PROVE  Inv'
    <3>1. part' = part /\ (part = "locks" => K!Next)
      BY <2>2 DEF SuiteNext
    <3> QED BY <2>1, <2>2, <3>1
  <2>3. ASSUME Inv, UNCHANGED <<part, lk>>
        PROVE  Inv'
    BY <2>3
  <2> QED BY <2>2, <2>3
<1>3. Inv => (part = "locks" => K!LocksExclude /\ K!DebugRecordsHolder)
  BY LkSoundIsEnough
<1> QED BY <1>1, <1>2, <1>3, PTL DEF SuiteSpec

-----------------------------------------------------------------------------
\* All that the run asks of listeners of both kinds (listener.c) and of locks
\* (evthread.c) holds for every value of the constants.
THEOREM ListenersAndLocksHold ==
  SuiteSpec => [](part \in {"listener", "iocp", "locks"} => NothingLost /\ OutsideFollows /\ OwnershipHolds)
<1> DEFINE Sound == /\ part = "listener" => L!FreedInTime /\ L!ConnectionsKept /\ L!EnabledListens
                    /\ part = "iocp" => A!IocpReferences /\ A!IocpSocketsGo
                    /\ part = "locks" => K!LocksExclude /\ K!DebugRecordsHolder
<1>1. Sound => (part \in {"listener", "iocp", "locks"} => NothingLost /\ OutsideFollows /\ OwnershipHolds)
  BY DEF NothingLost, OutsideFollows, OwnershipHolds
<1> QED BY <1>1, ListenersAreSound, IocpListenersAreSound, LocksAreSound, PTL

=============================================================================
