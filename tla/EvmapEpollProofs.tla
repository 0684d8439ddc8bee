-------------------------- MODULE EvmapEpollProofs --------------------------
(* Proofs about EvmapEpoll, for every value of its constants.              *)
EXTENDS EvmapEpoll, FiniteSetTheorems, TLAPS

------------------------------------------------------------------------------
(* The inductive invariant.                                                *)

ChangeRec == [fd : Fds, old : SUBSET Conds,
              chg : [Conds -> [op : {"none", "add", "del"}, et : BOOLEAN]]]

\* The events of one descriptor are all edge-triggered or all level-triggered.  With the
\* changelist it takes this: a deletion that waits in it keeps its EV_ET for what is
\* added after it.
OneTrigger == \A e, f \in Events : EvFd[e] = EvFd[f] => EvET[e] = EvET[f]
Trig(fd) == \E e \in Events : EvFd[e] = fd /\ EvET[e]
ETof(fd) == IF Trig(fd) THEN {"ET"} ELSE {}

\* The map and the changelist: evmap_io_add_ refuses to mix, so the events on one list are
\* of one kind.
ChangesTyped == changes \in Seq(ChangeRec)
NotMixed == \A e, f \in inserted : EvFd[e] = EvFd[f] => EvET[e] = EvET[f]

MapInv ==
  /\ TypeOK /\ ChangesTyped /\ CountsMatchLists /\ ChangelistConsistent
  /\ ActivatedAsRegistered /\ NotMixed

\* no change of fd waits to be applied
Done(fd) == idxplus1[fd] = 0 \/ (phase = "apply" /\ idxplus1[fd] =< applied)
Watchable(fd) == fdtab[fd] # None /\ Pollable(fd)

\* A change c that waits leads from what the kernel has to what is wanted, also when the
\* descriptor was closed and opened again after old was noted.
Leads(fd, c) ==
  /\ Keep(c) = OldEvents(fd)
  /\ Item(ep, fd) # {} => c.old # {} /\ Item(ep, fd) = c.old \cup ETof(fd)
  /\ Watchable(fd) /\ Item(ep, fd) = {} => \A k \in c.old : c.chg[k].op # "none"
  /\ \A k \in Conds : c.chg[k].et <=> (c.chg[k].op # "none" /\ Trig(fd))

\* One descriptor: it is closed after its last event is deleted; the kernel has no entry of
\* a file under it that it is not any more; what is wanted has been passed on, or the change
\* that waits leads there.
FdInv(fd) ==
  /\ fdtab[fd] = None => OldEvents(fd) = {}
  /\ \A f \in Files : ep[<<f, fd>>] # {} => fdtab[fd] = f /\ f \notin Unpollable
  /\ ~uses_changelist => Item(ep, fd) = Wanted(fd)
  /\ uses_changelist /\ Done(fd) /\ Watchable(fd) => Item(ep, fd) = Wanted(fd)
  /\ uses_changelist /\ ~Done(fd) => Leads(fd, changes[idxplus1[fd]])

\* What the mode of the backend brings: nothing waits without the changelist; descriptors
\* are not duplicated with it.
ModeInv ==
  /\ uses_changelist \in ChangelistModes
  /\ ~uses_changelist => changes = <<>>
  /\ uses_changelist => /\ OneTrigger
                        /\ \A g, h \in Fds : fdtab[g] # None /\ fdtab[g] = fdtab[h] => g = h

KernelInv == ModeInv /\ \A fd \in Fds : FdInv(fd)
IInv == MapInv /\ KernelInv

------------------------------------------------------------------------------
(* Counters.                                                               *)

\* The conditions a descriptor has counters for are those of its events.
LEMMA CountsTell ==
  TypeOK /\ CountsMatchLists => \A fd \in Fds, k \in Conds :
    nev[fd][k] > 0 <=> \E e \in EventsOn(fd) : k \in EvEvents[e]
<1> SUFFICES ASSUME TypeOK, CountsMatchLists, NEW fd \in Fds, NEW k \in Conds
             PROVE  nev[fd][k] > 0 <=> \E e \in EventsOn(fd) : k \in EvEvents[e]
  OBVIOUS
<1> DEFINE T == {e \in EventsOn(fd) : k \in EvEvents[e]}
<1>1. IsFiniteSet(T)
  BY FS_Subset, ConstantsAssumption DEF EventsOn, TypeOK
<1>2. Cardinality(T) \in Nat /\ (Cardinality(T) = 0 <=> T = {})
  BY <1>1, FS_CardinalityType, FS_EmptySet
<1>3. nev[fd][k] = Cardinality(T)
  BY DEF CountsMatchLists
<1> QED BY <1>2, <1>3

\* What is wanted of a descriptor, from its counters.
LEMMA WantedFromCounts ==
  TypeOK /\ CountsMatchLists => \A fd \in Fds :
    Wanted(fd) = OldEvents(fd) \cup (IF \E e \in EventsOn(fd) : EvET[e] THEN {"ET"} ELSE {})
<1> SUFFICES ASSUME TypeOK, CountsMatchLists, NEW fd \in Fds
             PROVE  UNION {EvEvents[e] : e \in EventsOn(fd)} = OldEvents(fd)
  BY DEF Wanted
<1>1. \A e \in EventsOn(fd) : EvEvents[e] \subseteq Conds
  BY ConstantsAssumption DEF TypeOK, EventsOn
<1> QED BY <1>1, CountsTell DEF OldEvents

\* A descriptor without counters has no events.
LEMMA NoCountsNoEvents ==
  TypeOK /\ CountsMatchLists => \A fd \in Fds : OldEvents(fd) = {} <=> EventsOn(fd) = {}
<1> SUFFICES ASSUME TypeOK, CountsMatchLists, NEW fd \in Fds
             PROVE  OldEvents(fd) = {} <=> EventsOn(fd) = {}
  OBVIOUS
<1>1. \A e \in EventsOn(fd) : \E k \in Conds : k \in EvEvents[e]
  BY ConstantsAssumption DEF TypeOK, EventsOn
<1> QED BY <1>1, CountsTell DEF OldEvents

\* How many events of J there are for condition k on fd.
Count(J, fd, k) == Cardinality({x \in {y \in J : EvFd[y] = fd} : k \in EvEvents[x]})

\* Inserting or removing one event changes the counters by one.
LEMMA OneEventCounts ==
  ASSUME NEW I \in SUBSET Events, NEW e \in Events, NEW fd \in Fds, NEW k \in Conds
  PROVE  /\ Count(I, fd, k) \in Nat
         /\ e \notin I => Count(I \cup {e}, fd, k) =
              IF fd = EvFd[e] /\ k \in EvEvents[e] THEN Count(I, fd, k) + 1 ELSE Count(I, fd, k)
         /\ e \in I => Count(I \ {e}, fd, k) =
              IF fd = EvFd[e] /\ k \in EvEvents[e] THEN Count(I, fd, k) - 1 ELSE Count(I, fd, k)
<1> DEFINE Set(J) == {x \in {y \in J : EvFd[y] = fd} : k \in EvEvents[x]}
           hit == fd = EvFd[e] /\ k \in EvEvents[e]
<1>1. IsFiniteSet(Set(I))
  BY FS_Subset, ConstantsAssumption
<1>2. Cardinality(Set(I)) \in Nat
  BY <1>1, FS_CardinalityType
<1>3. ASSUME e \notin I
      PROVE Cardinality(Set(I \cup {e})) = IF hit THEN Cardinality(Set(I)) + 1 ELSE Cardinality(Set(I))
  <2>1. CASE hit
    <3>1. Set(I \cup {e}) = Set(I) \cup {e} /\ e \notin Set(I)
      BY <1>3, <2>1
    <3> QED BY <3>1, <1>1, <2>1, FS_AddElement
  <2>2. CASE ~hit
    <3>1. Set(I \cup {e}) = Set(I)
      BY <1>3, <2>2
    <3> QED BY <3>1, <2>2
  <2> QED BY <2>1, <2>2
<1>4. ASSUME e \in I
      PROVE Cardinality(Set(I \ {e})) = IF hit THEN Cardinality(Set(I)) - 1 ELSE Cardinality(Set(I))
  <2>1. CASE hit
    <3>1. Set(I \ {e}) = Set(I) \ {e} /\ e \in Set(I)
      BY <1>4, <2>1
    <3>2. Cardinality(Set(I) \ {e}) = Cardinality(Set(I)) - 1
      BY <3>1, <1>1, FS_RemoveElement
    <3> QED BY <3>1, <3>2, <2>1
  <2>2. CASE ~hit
    <3>1. Set(I \ {e}) = Set(I)
      BY <1>4, <2>2
    <3> QED BY <3>1, <2>2
  <2> QED BY <2>1, <2>2
<1> QED BY <1>2, <1>3, <1>4 DEF Count

------------------------------------------------------------------------------
(* The changelist.                                                         *)

\* An entry that get_or_construct finds or appends, with its conditions set.
LEMMA PutKeepsConsistent ==
  ASSUME TypeOK, ChangesTyped, ChangelistConsistent, NEW fd \in Fds,
         NEW c \in ChangeRec, c.fd = fd, PutChange(fd, c)
  PROVE  /\ changes' \in Seq(ChangeRec) /\ idxplus1' \in [Fds -> Nat] /\ ChangelistConsistent'
         /\ Len(changes') >= Len(changes)
         /\ idxplus1'[fd] # 0 /\ changes'[idxplus1'[fd]] = c
         /\ \A g \in Fds \ {fd} : /\ idxplus1'[g] = idxplus1[g]
                                  /\ idxplus1[g] # 0 => changes'[idxplus1[g]] = changes[idxplus1[g]]
<1>1. CASE idxplus1[fd] = 0
  <2>1. changes' = Append(changes, c) /\ idxplus1' = [idxplus1 EXCEPT ![fd] = Len(changes) + 1]
    BY <1>1 DEF PutChange, ChangeIndex
  <2>2. changes' \in Seq(ChangeRec) /\ Len(changes') = Len(changes) + 1 /\ Len(changes) \in Nat
        /\ changes'[Len(changes) + 1] = c /\ \A i \in 1 .. Len(changes) : changes'[i] = changes[i]
    BY <2>1 DEF ChangesTyped
  <2>3. idxplus1' \in [Fds -> Nat] /\ idxplus1'[fd] = Len(changes) + 1
        /\ \A g \in Fds \ {fd} : idxplus1'[g] = idxplus1[g]
    BY <2>1, <2>2 DEF TypeOK
  <2>4. \A i \in 1 .. Len(changes) : changes[i].fd \in Fds \ {fd} /\ idxplus1[changes[i].fd] = i
    BY <1>1 DEF ChangelistConsistent, ChangesTyped, TypeOK
  <2>5. \A g \in Fds : idxplus1[g] # 0 => idxplus1[g] \in 1 .. Len(changes) /\ changes[idxplus1[g]].fd = g
    BY DEF ChangelistConsistent, ChangesTyped
  <2>6. ChangelistConsistent'
    <3>1. DOMAIN changes' = 1 .. Len(changes) + 1
      BY <2>2
    <3>2. \A i \in 1 .. Len(changes) + 1 : idxplus1'[changes'[i].fd] = i
      BY <2>2, <2>3, <2>4
    <3>3. \A g \in Fds : idxplus1'[g] # 0 =>
             idxplus1'[g] \in 1 .. Len(changes) + 1 /\ changes'[idxplus1'[g]].fd = g
      BY <2>2, <2>3, <2>5
    <3> QED BY <3>1, <3>2, <3>3 DEF ChangelistConsistent
  <2> QED BY <2>2, <2>3, <2>5, <2>6
<1>2. CASE idxplus1[fd] # 0
  <2>1. changes' = [changes EXCEPT ![idxplus1[fd]] = c] /\ idxplus1' = idxplus1
    BY <1>2 DEF PutChange, ChangeIndex, TypeOK
  <2>2. \A g \in Fds : idxplus1[g] # 0 => idxplus1[g] \in 1 .. Len(changes) /\ changes[idxplus1[g]].fd = g
    BY DEF ChangelistConsistent, ChangesTyped
  <2>3. changes' \in Seq(ChangeRec) /\ Len(changes') = Len(changes) /\ changes'[idxplus1[fd]] = c
        /\ \A i \in 1 .. Len(changes) : i # idxplus1[fd] => changes'[i] = changes[i]
    BY <2>1, <2>2, <1>2 DEF ChangesTyped
  <2>4. DOMAIN changes' = 1 .. Len(changes) /\ DOMAIN changes = 1 .. Len(changes)
    BY <2>3 DEF ChangesTyped
  <2>5. ChangelistConsistent'
    <3>1. \A i \in 1 .. Len(changes) : idxplus1'[changes'[i].fd] = i
      BY <2>1, <2>2, <2>3, <2>4 DEF ChangelistConsistent
    <3>2. \A g \in Fds : idxplus1'[g] # 0 =>
             idxplus1'[g] \in 1 .. Len(changes) /\ changes'[idxplus1'[g]].fd = g
      BY <2>1, <2>2, <2>3
    <3> QED BY <2>4, <3>1, <3>2 DEF ChangelistConsistent
  <2>6. idxplus1 \in [Fds -> Nat] /\ Len(changes) \in Nat
    BY DEF TypeOK, ChangesTyped
  <2>7. \A g \in Fds \ {fd} : idxplus1[g] # 0 => idxplus1[g] # idxplus1[fd]
    BY <1>2, <2>2
  <2> QED BY <2>1, <2>2, <2>3, <2>5, <2>6, <2>7, <1>2
<1> QED BY <1>1, <1>2

\* What event_changelist_add_ and event_changelist_del_ put there.
LEMMA GotChange ==
  ASSUME TypeOK, ChangesTyped, ChangelistConsistent, NEW fd \in Fds, NEW old \in SUBSET Conds
  PROVE  /\ GetChange(fd, old) \in ChangeRec /\ GetChange(fd, old).fd = fd
         /\ idxplus1[fd] = 0 => /\ GetChange(fd, old).old = old
                                /\ GetChange(fd, old).chg = [k \in Conds |-> NoChange]
         /\ idxplus1[fd] # 0 => GetChange(fd, old) = changes[idxplus1[fd]]
<1>1. CASE idxplus1[fd] = 0
  <2>1. GetChange(fd, old) = [fd |-> fd, old |-> old, chg |-> [k \in Conds |-> NoChange]]
    BY <1>1 DEF GetChange, Change
  <2>2. [k \in Conds |-> NoChange] \in [Conds -> [op : {"none", "add", "del"}, et : BOOLEAN]]
    BY DEF NoChange
  <2> QED BY <1>1, <2>1, <2>2 DEF ChangeRec
<1>2. CASE idxplus1[fd] # 0
  BY <1>2 DEF GetChange, ChangelistConsistent, ChangesTyped
<1> QED BY <1>1, <1>2

------------------------------------------------------------------------------
(* epoll_apply_one_change                                                  *)

Sets == SUBSET (Conds \cup {"ET"})
Evs(c) == Keep(c) \cup (IF \E k \in Conds : c.chg[k].et THEN {"ET"} ELSE {})

\* A change leaves the other descriptors alone, and everything when its own descriptor is
\* closed or cannot be polled.
LEMMA ApplyElsewhere ==
  ASSUME TypeOK, NEW K \in [Members -> Sets], NEW c \in ChangeRec
  PROVE  LET r == epoll_apply_one_change(K, c).ep IN
         /\ r \in [Members -> Sets]
         /\ \A m \in Members : m # <<fdtab[c.fd], c.fd>> => r[m] = K[m]
         /\ ~Watchable(c.fd) => r = K
<1> DEFINE op == epoll_op_table(c)
           err == Errno(K, op, c.fd)
           r == epoll_apply_one_change(K, c).ep
<1>1. Evs(c) \in Sets
  BY DEF Evs, Keep, Sets
<1>2. op \in {"NONE", "ADD", "MOD", "DEL"}
  BY DEF epoll_op_table
<1>3. CASE ~Watchable(c.fd)
  <2>1. err \in {"EBADF", "EPERM"}
    BY <1>3 DEF Watchable, Pollable, Errno
  <2>2. r = K
    BY <2>1, <1>2 DEF epoll_apply_one_change
  <2> QED BY <2>2
<1>4. CASE Watchable(c.fd)
  <2>1. <<fdtab[c.fd], c.fd>> \in Members
    BY <1>4 DEF Watchable, Pollable, Members, TypeOK, ChangeRec
  <2>2. r \in {K, [K EXCEPT ![<<fdtab[c.fd], c.fd>>] = {}], [K EXCEPT ![<<fdtab[c.fd], c.fd>>] = Evs(c)]}
    <3>1. \A o : Ctl(K, o, c.fd, Evs(c)) \in
             {[K EXCEPT ![<<fdtab[c.fd], c.fd>>] = {}], [K EXCEPT ![<<fdtab[c.fd], c.fd>>] = Evs(c)]}
      BY DEF Ctl
    <3>2. r = K \/ \E o : r = Ctl(K, o, c.fd, Evs(c))
      BY <1>2 DEF epoll_apply_one_change, Evs
    <3> QED BY <3>1, <3>2
  <2>3. {} \in Sets
    BY DEF Sets
  <2> QED BY <2>1, <2>2, <2>3, <1>1, <1>4
<1> QED BY <1>3, <1>4

\* On a descriptor that can be watched every operation ends as it is meant to: ADD and MOD
\* are retried as each other, and there is nothing to delete of what is not there.
LEMMA ApplyHere ==
  ASSUME TypeOK, NEW K \in [Members -> Sets], NEW c \in ChangeRec, Watchable(c.fd)
  PROVE  LET r == epoll_apply_one_change(K, c)
             op == epoll_op_table(c)
             m == <<fdtab[c.fd], c.fd>> IN
         /\ r.ok
         /\ op = "NONE" => r.ep[m] = K[m]
         /\ op \in {"ADD", "MOD"} => r.ep[m] = Evs(c)
         /\ op = "DEL" => r.ep[m] = {}
<1> DEFINE op == epoll_op_table(c)
           err == Errno(K, op, c.fd)
           r == epoll_apply_one_change(K, c)
           m == <<fdtab[c.fd], c.fd>>
<1>1. op \in {"NONE", "ADD", "MOD", "DEL"}
  BY DEF epoll_op_table
<1>2. m \in Members
  BY DEF Watchable, Pollable, Members, TypeOK, ChangeRec
<1>3. err = IF op = "ADD" THEN IF K[m] # {} THEN "EEXIST" ELSE "OK"
            ELSE IF K[m] = {} THEN "ENOENT" ELSE "OK"
  BY DEF Errno, Watchable, Pollable, Item
<1>4. /\ Ctl(K, "ADD", c.fd, Evs(c))[m] = Evs(c)
      /\ Ctl(K, "MOD", c.fd, Evs(c))[m] = Evs(c)
      /\ Ctl(K, "DEL", c.fd, Evs(c))[m] = {}
  BY <1>2 DEF Ctl
<1> SUFFICES /\ r.ok
             /\ op = "NONE" => r.ep[m] = K[m]
             /\ op \in {"ADD", "MOD"} => r.ep[m] = Evs(c)
             /\ op = "DEL" => r.ep[m] = {}
  OBVIOUS
<1> HIDE DEF op, err, m, r
<1>5. CASE op = "NONE"
  <2>1. r = [ok |-> TRUE, ep |-> K]
    BY <1>5 DEF epoll_apply_one_change, op, r
  <2> QED BY <2>1, <1>5
<1>6. CASE op = "ADD"
  <2>1. CASE err = "OK"
    <3>1. r = [ok |-> TRUE, ep |-> Ctl(K, "ADD", c.fd, Evs(c))]
      BY <2>1, <1>6 DEF epoll_apply_one_change, op, err, r, Evs
    <3> QED BY <3>1, <1>4, <1>6
  <2>2. CASE err = "EEXIST"
    <3>1. r = [ok |-> TRUE, ep |-> Ctl(K, "MOD", c.fd, Evs(c))]
      BY <2>2, <1>6 DEF epoll_apply_one_change, op, err, r, Evs
    <3> QED BY <3>1, <1>3, <1>4, <1>6, <2>2
  <2> QED BY <2>1, <2>2, <1>3, <1>6
<1>7. CASE op = "MOD"
  <2>1. CASE err = "OK"
    <3>1. r = [ok |-> TRUE, ep |-> Ctl(K, "MOD", c.fd, Evs(c))]
      BY <2>1, <1>7 DEF epoll_apply_one_change, op, err, r, Evs
    <3> QED BY <3>1, <1>4, <1>7
  <2>2. CASE err = "ENOENT"
    <3>1. r = [ok |-> TRUE, ep |-> Ctl(K, "ADD", c.fd, Evs(c))]
      BY <2>2, <1>7 DEF epoll_apply_one_change, op, err, r, Evs
    <3> QED BY <3>1, <1>3, <1>4, <1>7, <2>2
  <2> QED BY <2>1, <2>2, <1>3, <1>7
<1>8. CASE op = "DEL"
  <2>1. CASE err = "OK"
    <3>1. r = [ok |-> TRUE, ep |-> Ctl(K, "DEL", c.fd, Evs(c))]
      BY <2>1, <1>8 DEF epoll_apply_one_change, op, err, r, Evs
    <3> QED BY <3>1, <1>4, <1>8
  <2>2. CASE err = "ENOENT"
    <3>1. r = [ok |-> TRUE, ep |-> K]
      BY <2>2, <1>8 DEF epoll_apply_one_change, op, err, r, Evs
    <3> QED BY <3>1, <1>3, <1>4, <1>8, <2>2
  <2> QED BY <2>1, <2>2, <1>3, <1>8
<1> QED BY <1>1, <1>5, <1>6, <1>7, <1>8

------------------------------------------------------------------------------
(* The map: types, counters, changelist and activations.                   *)

LEMMA FdOfChange == \A s \in Seq(ChangeRec) : \A i \in DOMAIN s : s[i].fd \in Fds
<1>1. \A c \in ChangeRec : c.fd \in Fds
  BY DEF ChangeRec
<1> QED BY <1>1

\* A change with the conditions of S set to what SetTo gives is a change for the same fd.
LEMMA ChangeWith ==
  ASSUME NEW c \in ChangeRec, NEW chg \in [Conds -> [op : {"none", "add", "del"}, et : BOOLEAN]]
  PROVE  /\ [c EXCEPT !.chg = chg] \in ChangeRec
         /\ [c EXCEPT !.chg = chg].fd = c.fd /\ [c EXCEPT !.chg = chg].old = c.old
         /\ [c EXCEPT !.chg = chg].chg = chg
BY DEF ChangeRec

AddChg(c, S, et) == [k \in Conds |-> IF k \in S THEN [op |-> "add", et |-> et] ELSE c.chg[k]]
DelChg(c, S, et) ==
  [k \in Conds |-> IF k \in S THEN IF k \notin c.old THEN NoChange ELSE [op |-> "del", et |-> et]
                   ELSE c.chg[k]]

LEMMA ChgTyped ==
  ASSUME NEW c \in ChangeRec, NEW S, NEW et \in BOOLEAN
  PROVE  /\ AddChg(c, S, et) \in [Conds -> [op : {"none", "add", "del"}, et : BOOLEAN]]
         /\ DelChg(c, S, et) \in [Conds -> [op : {"none", "add", "del"}, et : BOOLEAN]]
<1>1. NoChange \in [op : {"none", "add", "del"}, et : BOOLEAN]
  BY DEF NoChange
<1>2. \A k \in Conds : c.chg[k] \in [op : {"none", "add", "del"}, et : BOOLEAN]
  BY DEF ChangeRec
<1> QED BY <1>1, <1>2 DEF AddChg, DelChg

\* The entry of a descriptor after event_changelist_add_ or event_changelist_del_.
LEMMA ListedChange ==
  ASSUME TypeOK, ChangesTyped, ChangelistConsistent,
         NEW e \in Events, NEW old \in SUBSET Conds, NEW S \in SUBSET Conds
  PROVE  LET c == GetChange(EvFd[e], old) IN
         /\ event_changelist_add_(EvFd[e], old, S, EvET[e]) => \E n \in ChangeRec :
              n.fd = EvFd[e] /\ n.old = c.old /\ n.chg = AddChg(c, S, EvET[e]) /\ PutChange(EvFd[e], n)
         /\ event_changelist_del_(EvFd[e], old, S, EvET[e]) => \E n \in ChangeRec :
              n.fd = EvFd[e] /\ n.old = c.old /\ n.chg = DelChg(c, S, EvET[e]) /\ PutChange(EvFd[e], n)
<1> DEFINE c == GetChange(EvFd[e], old)
           a == [c EXCEPT !.chg = AddChg(c, S, EvET[e])]
           d == [c EXCEPT !.chg = DelChg(c, S, EvET[e])]
<1>0. EvFd[e] \in Fds /\ EvET[e] \in BOOLEAN
  BY ConstantsAssumption
<1>1. c \in ChangeRec /\ c.fd = EvFd[e]
  BY <1>0, GotChange
<1>2. event_changelist_add_(EvFd[e], old, S, EvET[e]) => PutChange(EvFd[e], a)
  BY <1>1 DEF event_changelist_add_, AddChg, ChangeRec
<1>3. event_changelist_del_(EvFd[e], old, S, EvET[e]) => PutChange(EvFd[e], d)
  BY <1>1 DEF event_changelist_del_, DelChg, ChangeRec
<1> HIDE DEF c
<1>4. a \in ChangeRec /\ a.fd = EvFd[e] /\ a.old = c.old /\ a.chg = AddChg(c, S, EvET[e])
  BY <1>0, <1>1, ChangeWith, ChgTyped
<1>5. d \in ChangeRec /\ d.fd = EvFd[e] /\ d.old = c.old /\ d.chg = DelChg(c, S, EvET[e])
  BY <1>0, <1>1, ChangeWith, ChgTyped
<1> HIDE DEF a, d
<1> QED BY <1>2, <1>3, <1>4, <1>5 DEF c

\* What the backend does of an addition or a deletion keeps the types and the changelist.
LEMMA BackendKeeps ==
  ASSUME MapInv, NEW e \in Events, NEW old \in SUBSET Conds, NEW S \in SUBSET Conds,
         BackendAdd(e, old, S) \/ BackendDel(e, old, S)
  PROVE  /\ changes' \in Seq(ChangeRec) /\ idxplus1' \in [Fds -> Nat] /\ ChangelistConsistent'
         /\ Len(changes') >= Len(changes) /\ ep' \in [Members -> Sets]
<1> USE DEF MapInv
<1>1. EvFd[e] \in Fds /\ EvET[e] \in BOOLEAN /\ ep \in [Members -> Sets]
  BY ConstantsAssumption DEF TypeOK, Sets
<1>2. CASE UNCHANGED <<ep, chl>>
  BY <1>1, <1>2 DEF chl, TypeOK, ChangesTyped, ChangelistConsistent
<1>3. CASE UNCHANGED ep /\ (event_changelist_add_(EvFd[e], old, S, EvET[e])
                            \/ event_changelist_del_(EvFd[e], old, S, EvET[e]))
  <2>1. PICK c \in ChangeRec : c.fd = EvFd[e] /\ PutChange(EvFd[e], c)
    <3>1. CASE event_changelist_add_(EvFd[e], old, S, EvET[e])
      BY <1>1, <3>1, ListedChange, Zenon
    <3>2. CASE event_changelist_del_(EvFd[e], old, S, EvET[e])
      BY <1>1, <3>2, ListedChange, Zenon
    <3> QED BY <1>3, <3>1, <3>2
  <2> QED BY <1>1, <1>3, <2>1, PutKeepsConsistent
<1>4. CASE UNCHANGED chl /\ \E op \in {"add", "del"} :
             ep' = epoll_nochangelist(op, EvFd[e], old, S, EvET[e]).ep
  <2>1. PICK op \in {"add", "del"} : ep' = epoll_nochangelist(op, EvFd[e], old, S, EvET[e]).ep
    BY <1>4
  <2>2. Change(EvFd[e], old, S, op, EvET[e]) \in ChangeRec
    BY <1>1 DEF Change, ChangeRec, NoChange
  <2>3. ep' \in [Members -> Sets]
    BY <1>1, <2>1, <2>2, ApplyElsewhere DEF epoll_nochangelist
  <2> QED BY <1>4, <2>3 DEF chl, TypeOK, ChangesTyped, ChangelistConsistent
<1> QED BY <1>2, <1>3, <1>4 DEF BackendAdd, BackendDel

LEMMA InitMapInv == Init => MapInv
<1> SUFFICES ASSUME Init PROVE MapInv
  OBVIOUS
<1>1. TypeOK /\ ChangesTyped
  BY ConstantsAssumption DEF Init, TypeOK, ChangesTyped
<1>2. CountsMatchLists
  <2>1. \A fd \in Fds, k \in Conds : {e \in EventsOn(fd) : k \in EvEvents[e]} = {}
    BY DEF Init, EventsOn
  <2> QED BY <2>1, FS_EmptySet DEF Init, CountsMatchLists
<1>3. ChangelistConsistent /\ ActivatedAsRegistered /\ NotMixed
  BY DEF Init, ChangelistConsistent, ActivatedAsRegistered, NotMixed
<1> QED BY <1>1, <1>2, <1>3 DEF MapInv

\* What a step that leaves the map and the changelist alone keeps.
LEMMA SameMap ==
  ASSUME MapInv, UNCHANGED <<map, chl>>
  PROVE  ChangesTyped' /\ CountsMatchLists' /\ ChangelistConsistent' /\ NotMixed'
BY DEF MapInv, map, chl, ChangesTyped, CountsMatchLists, EventsOn, ChangelistConsistent, NotMixed

LEMMA AddKeepsMap ==
  ASSUME MapInv, NEW e \in Events, evmap_io_add_(e)
  PROVE  MapInv'
<1> DEFINE fd == EvFd[e]
           S == {k \in EvEvents[e] : nev[fd][k] = 0}
<1>1. fd \in Fds /\ EvEvents[e] \in SUBSET Conds /\ S \in SUBSET Conds /\ OldEvents(fd) \in SUBSET Conds
  BY ConstantsAssumption DEF OldEvents
<1>2. BackendAdd(e, OldEvents(fd), S)
  BY DEF evmap_io_add_
<1> HIDE DEF S
<1>3. /\ changes' \in Seq(ChangeRec) /\ idxplus1' \in [Fds -> Nat] /\ ChangelistConsistent'
      /\ Len(changes') >= Len(changes) /\ ep' \in [Members -> Sets]
  BY <1>1, <1>2, BackendKeeps
<1>4. inserted' = inserted \cup {e} /\ inserted \subseteq Events /\ e \notin inserted
  BY DEF evmap_io_add_, MapInv, TypeOK
<1>5. \A g \in Fds, k \in Conds :
        nev'[g][k] = IF g = fd /\ k \in EvEvents[e] THEN nev[g][k] + 1 ELSE nev[g][k]
  BY <1>1 DEF evmap_io_add_, MapInv, TypeOK
<1>6. nev' \in [Fds -> [Conds -> 0 .. MaxPerFd]]
  <2>1. \A k \in Conds : nev[fd][k] \in 0 .. MaxPerFd /\ (k \in EvEvents[e] => nev[fd][k] + 1 \in 0 .. MaxPerFd)
    BY <1>1, ConstantsAssumption DEF evmap_io_add_, MapInv, TypeOK
  <2>2. [k \in Conds |-> IF k \in EvEvents[e] THEN nev[fd][k] + 1 ELSE nev[fd][k]] \in [Conds -> 0 .. MaxPerFd]
    BY <2>1
  <2>3. nev' = [nev EXCEPT ![fd] = [k \in Conds |-> IF k \in EvEvents[e] THEN nev[fd][k] + 1 ELSE nev[fd][k]]]
    BY <1>1 DEF evmap_io_add_, MapInv, TypeOK
  <2> QED BY <1>1, <2>2, <2>3 DEF MapInv, TypeOK
<1>7. TypeOK' /\ ChangesTyped'
  <2>1. Len(changes) \in Nat /\ Len(changes') \in Nat
    BY <1>3 DEF MapInv, ChangesTyped
  <2>2. \A i \in DOMAIN changes' : changes'[i].fd \in Fds
    BY <1>3, FdOfChange
  <2>3. phase' = phase /\ applied' = applied /\ nevents' = nevents /\ reports' = reports
        /\ uses_changelist' = uses_changelist /\ fdtab' = fdtab /\ active' = active
        /\ phase # "apply"
    BY DEF evmap_io_add_, disp, LockFree
  <2> QED BY <1>3, <1>4, <1>6, <2>1, <2>2, <2>3 DEF MapInv, TypeOK, ChangesTyped, Sets
<1>8. CountsMatchLists'
  <2> SUFFICES ASSUME NEW g \in Fds, NEW k \in Conds
               PROVE  nev'[g][k] = Count(inserted', g, k)
    BY DEF CountsMatchLists, EventsOn, Count
  <2>1. nev[g][k] = Count(inserted, g, k)
    BY DEF MapInv, CountsMatchLists, EventsOn, Count
  <2> QED BY <1>4, <1>5, <2>1, OneEventCounts
<1>9. ActivatedAsRegistered'
  BY <1>4 DEF evmap_io_add_, MapInv, ActivatedAsRegistered
<1>10. NotMixed'
  BY <1>4, ConstantsAssumption DEF evmap_io_add_, NoMix, EventsOn, MapInv, NotMixed
<1> QED BY <1>3, <1>7, <1>8, <1>9, <1>10 DEF MapInv

LEMMA DelKeepsMap ==
  ASSUME MapInv, NEW e \in Events, evmap_io_del_(e)
  PROVE  MapInv'
<1> DEFINE fd == EvFd[e]
           S == {k \in EvEvents[e] : nev[fd][k] = 1}
<1>1. fd \in Fds /\ EvEvents[e] \in SUBSET Conds /\ S \in SUBSET Conds /\ OldEvents(fd) \in SUBSET Conds
  BY ConstantsAssumption DEF OldEvents
<1>2. BackendDel(e, OldEvents(fd), S)
  BY DEF evmap_io_del_
<1> HIDE DEF S
<1>3. /\ changes' \in Seq(ChangeRec) /\ idxplus1' \in [Fds -> Nat] /\ ChangelistConsistent'
      /\ Len(changes') >= Len(changes) /\ ep' \in [Members -> Sets]
  BY <1>1, <1>2, BackendKeeps
<1>4. inserted' = inserted \ {e} /\ inserted \subseteq Events /\ e \in inserted
  BY DEF evmap_io_del_, MapInv, TypeOK
<1>5. \A g \in Fds, k \in Conds :
        nev'[g][k] = IF g = fd /\ k \in EvEvents[e] THEN nev[g][k] - 1 ELSE nev[g][k]
  BY <1>1 DEF evmap_io_del_, MapInv, TypeOK
<1>6. nev' \in [Fds -> [Conds -> 0 .. MaxPerFd]]
  <2>1. \A k \in Conds : nev[fd][k] \in 0 .. MaxPerFd /\ (k \in EvEvents[e] => nev[fd][k] > 0)
    BY <1>1, <1>4, CountsTell DEF MapInv, TypeOK, EventsOn
  <2>2. [k \in Conds |-> IF k \in EvEvents[e] THEN nev[fd][k] - 1 ELSE nev[fd][k]] \in [Conds -> 0 .. MaxPerFd]
    BY <2>1, ConstantsAssumption
  <2>3. nev' = [nev EXCEPT ![fd] = [k \in Conds |-> IF k \in EvEvents[e] THEN nev[fd][k] - 1 ELSE nev[fd][k]]]
    BY <1>1 DEF evmap_io_del_, MapInv, TypeOK
  <2> QED BY <1>1, <2>2, <2>3 DEF MapInv, TypeOK
<1>7. TypeOK' /\ ChangesTyped'
  <2>1. Len(changes) \in Nat /\ Len(changes') \in Nat
    BY <1>3 DEF MapInv, ChangesTyped
  <2>2. \A i \in DOMAIN changes' : changes'[i].fd \in Fds
    BY <1>3, FdOfChange
  <2>3. phase' = phase /\ applied' = applied /\ nevents' = nevents /\ reports' = reports
        /\ uses_changelist' = uses_changelist /\ fdtab' = fdtab
        /\ active' = [active EXCEPT ![e] = {}] /\ phase # "apply"
    BY DEF evmap_io_del_, disp, LockFree
  <2> QED BY <1>3, <1>4, <1>6, <2>1, <2>2, <2>3 DEF MapInv, TypeOK, ChangesTyped, Sets
<1>8. CountsMatchLists'
  <2> SUFFICES ASSUME NEW g \in Fds, NEW k \in Conds
               PROVE  nev'[g][k] = Count(inserted', g, k)
    BY DEF CountsMatchLists, EventsOn, Count
  <2>1. nev[g][k] = Count(inserted, g, k)
    BY DEF MapInv, CountsMatchLists, EventsOn, Count
  <2> QED BY <1>4, <1>5, <2>1, OneEventCounts
<1>9. ActivatedAsRegistered'
  BY <1>4 DEF evmap_io_del_, MapInv, ActivatedAsRegistered, TypeOK
<1>10. NotMixed'
  BY <1>4 DEF MapInv, NotMixed
<1> QED BY <1>3, <1>7, <1>8, <1>9, <1>10 DEF MapInv

\* event_changelist_remove_all_ and the descriptors' entries.
LEMMA WaitKeepsMap == MapInv /\ epoll_wait => MapInv'
<1> SUFFICES ASSUME MapInv, epoll_wait PROVE MapInv'
  OBVIOUS
<1>1. \A fd \in Fds : idxplus1'[fd] = 0
  <2> SUFFICES ASSUME NEW fd \in Fds, idxplus1[fd] # 0
               PROVE  \E i \in DOMAIN changes : changes[i].fd = fd
    BY DEF epoll_wait
  <2> QED BY DEF MapInv, ChangelistConsistent
<1>2. idxplus1' \in [Fds -> Nat]
  BY DEF epoll_wait, MapInv, TypeOK
<1>3. TypeOK' /\ ChangesTyped' /\ ChangelistConsistent'
  BY <1>1, <1>2 DEF epoll_wait, map, MapInv, TypeOK, ChangesTyped, ChangelistConsistent
<1>4. CountsMatchLists' /\ ActivatedAsRegistered' /\ NotMixed'
  BY DEF epoll_wait, map, MapInv, CountsMatchLists, EventsOn, ActivatedAsRegistered, NotMixed
<1> QED BY <1>3, <1>4 DEF MapInv

\* Numbering the descriptors for the changelist after a fork.
LEMMA Slots ==
  LET n == Cardinality(Fds)
      s == CHOOSE s \in [1 .. n -> Fds] : {s[i] : i \in DOMAIN s} = Fds IN
  /\ n \in Nat /\ s \in [1 .. n -> Fds]
  /\ \A fd \in Fds : \E i \in 1 .. n : s[i] = fd
  /\ \A i, j \in 1 .. n : s[i] = s[j] => i = j
<1> DEFINE n == Cardinality(Fds)
           s == CHOOSE s \in [1 .. n -> Fds] : {s[i] : i \in DOMAIN s} = Fds
<1>1. n \in Nat /\ ExistsBijection(1 .. n, Fds)
  BY FS_CardinalityType, ConstantsAssumption
<1> HIDE DEF n
<1>2. \E t \in [1 .. n -> Fds] : {t[i] : i \in DOMAIN t} = Fds
  BY <1>1 DEF ExistsBijection, Bijection, Surjection
<1>3. s \in [1 .. n -> Fds] /\ {s[i] : i \in DOMAIN s} = Fds
  BY <1>2
<1> HIDE DEF s
<1>4. s \in Surjection(1 .. n, Fds)
  BY <1>3 DEF Surjection
<1>5. IsFiniteSet(1 .. n) /\ Cardinality(1 .. n) = Cardinality(Fds)
  BY <1>1, FS_Interval DEF n
<1>6. s \in Injection(1 .. n, Fds)
  BY <1>4, <1>5, FS_SurjSameCardinalityImpliesInj
<1>7. /\ n \in Nat /\ s \in [1 .. n -> Fds]
      /\ \A fd \in Fds : \E i \in 1 .. n : s[i] = fd
      /\ \A i, j \in 1 .. n : s[i] = s[j] => i = j
  BY <1>1, <1>3, <1>6 DEF Injection, IsInjective
<1> QED BY <1>7 DEF n, s

\* The change evmap_io_reinit_iter_fn asks for.
ReinitChange(fd) == Change(fd, {}, OldEvents(fd), "add", \E e \in EventsOn(fd) : EvET[e])

LEMMA ReinitChangeTyped ==
  \A fd \in Fds : /\ ReinitChange(fd) \in ChangeRec
                  /\ ReinitChange(fd).fd = fd /\ ReinitChange(fd).old = {}
BY DEF ReinitChange, Change, ChangeRec, NoChange

\* After a fork every descriptor has an entry, and with the changelist that is all there is.
LEMMA ReinitChangelist ==
  ASSUME evmap_reinit_, uses_changelist
  PROVE  /\ changes' \in Seq(ChangeRec) /\ idxplus1' \in [Fds -> Nat] /\ ChangelistConsistent'
         /\ \A fd \in Fds : idxplus1'[fd] # 0 /\ changes'[idxplus1'[fd]] = ReinitChange(fd)
<1> DEFINE n == Cardinality(Fds)
           s == CHOOSE s \in [1 .. n -> Fds] : {s[i] : i \in DOMAIN s} = Fds
<1>1. /\ n \in Nat /\ s \in [1 .. n -> Fds]
      /\ \A fd \in Fds : \E i \in 1 .. n : s[i] = fd
      /\ \A i, j \in 1 .. n : s[i] = s[j] => i = j
  BY Slots
<1>2. /\ changes' = [i \in 1 .. n |-> ReinitChange(s[i])]
      /\ idxplus1' = [fd \in Fds |-> CHOOSE i \in 1 .. n : s[i] = fd]
  BY DEF evmap_reinit_, ReinitChange
<1> HIDE DEF n, s
<1>3. \A fd \in Fds : idxplus1'[fd] \in 1 .. n /\ s[idxplus1'[fd]] = fd
  BY <1>1, <1>2
<1>4. changes' \in Seq(ChangeRec) /\ DOMAIN changes' = 1 .. n
  BY <1>1, <1>2, ReinitChangeTyped
<1>5. \A i \in 1 .. n : changes'[i] = ReinitChange(s[i]) /\ s[i] \in Fds
  BY <1>1, <1>2
<1>6. ChangelistConsistent'
  <2>1. \A i \in DOMAIN changes' : idxplus1'[changes'[i].fd] = i
    BY <1>1, <1>3, <1>4, <1>5, ReinitChangeTyped
  <2>2. \A fd \in Fds : changes'[idxplus1'[fd]].fd = fd
    BY <1>3, <1>5, ReinitChangeTyped
  <2> QED BY <1>3, <1>4, <2>1, <2>2 DEF ChangelistConsistent
<1>7. idxplus1' \in [Fds -> Nat]
  BY <1>1, <1>2, <1>3
<1>8. \A fd \in Fds : idxplus1'[fd] # 0 /\ changes'[idxplus1'[fd]] = ReinitChange(fd)
  BY <1>1, <1>3, <1>5
<1> QED BY <1>4, <1>6, <1>7, <1>8

\* Without the changelist each descriptor is added at once.
LEMMA ReinitDirect ==
  ASSUME TypeOK, evmap_reinit_, ~uses_changelist
  PROVE  LET K == [m \in Members |-> {}] IN
         /\ ep' \in [Members -> Sets] /\ UNCHANGED chl
         /\ \A m \in Members : ep'[m] = epoll_apply_one_change(K, ReinitChange(m[2])).ep[m]
<1> DEFINE K == [m \in Members |-> {}]
<1>1. ep' = [m \in Members |-> epoll_apply_one_change(K, ReinitChange(m[2])).ep[m]] /\ UNCHANGED chl
  BY DEF evmap_reinit_, ReinitChange
<1>2. K \in [Members -> Sets]
  BY DEF Sets
<1> HIDE DEF K
<1>3. ASSUME NEW m \in Members
      PROVE  epoll_apply_one_change(K, ReinitChange(m[2])).ep[m] \in Sets
  <2>1. ReinitChange(m[2]) \in ChangeRec
    BY ReinitChangeTyped DEF Members
  <2> HIDE DEF ReinitChange
  <2>2. epoll_apply_one_change(K, ReinitChange(m[2])).ep \in [Members -> Sets]
    BY <1>2, <2>1, ApplyElsewhere
  <2> QED BY <2>2
<1>4. ep' \in [Members -> Sets]
  BY <1>1, <1>3
<1>5. \A m \in Members : ep'[m] = epoll_apply_one_change(K, ReinitChange(m[2])).ep[m]
  BY <1>1
<1> QED BY <1>1, <1>4, <1>5 DEF K

LEMMA ReinitKeepsMap == MapInv /\ evmap_reinit_ => MapInv'
<1> SUFFICES ASSUME MapInv, evmap_reinit_ PROVE MapInv'
  OBVIOUS
<1>1. changes' \in Seq(ChangeRec) /\ idxplus1' \in [Fds -> Nat] /\ ChangelistConsistent'
      /\ ep' \in [Members -> Sets]
  <2>1. CASE uses_changelist
    <3>1. ep' = [m \in Members |-> {}]
      BY <2>1 DEF evmap_reinit_
    <3>2. ep' \in [Members -> Sets]
      BY <3>1 DEF Sets
    <3> QED BY <2>1, <3>2, ReinitChangelist
  <2>2. CASE ~uses_changelist
    <3>1. ep' \in [Members -> Sets] /\ UNCHANGED chl
      BY <2>2, ReinitDirect DEF MapInv
    <3> QED BY <3>1 DEF chl, MapInv, TypeOK, ChangesTyped, ChangelistConsistent
  <2> QED BY <2>1, <2>2
<1>2. \A i \in DOMAIN changes' : changes'[i].fd \in Fds
  BY <1>1, FdOfChange
<1>3. UNCHANGED <<uses_changelist, fdtab, map, phase, reports, active, applied>>
      /\ nevents' = InitialNevent /\ phase = "run"
  BY DEF evmap_reinit_
<1>4. TypeOK' /\ ChangesTyped'
  BY <1>1, <1>2, <1>3, ConstantsAssumption DEF MapInv, TypeOK, ChangesTyped, Sets, map
<1>5. CountsMatchLists' /\ ActivatedAsRegistered' /\ NotMixed'
  BY <1>3 DEF map, MapInv, CountsMatchLists, EventsOn, ActivatedAsRegistered, NotMixed
<1> QED BY <1>1, <1>4, <1>5 DEF MapInv

\* The other steps of the loop, and those of the application, leave the map and the
\* changelist alone.
LEMMA LoopKeepsMap ==
  ASSUME MapInv,
         \/ \E e \in Events : run_callback(e)
         \/ dispatch_start \/ epoll_apply_changes \/ dispatch_locked \/ dispatch_return
         \/ wait_return({}) \/ (\E r \in Reports : wait_return({r}))
         \/ \E r \in reports : evmap_io_active_(r)
  PROVE  MapInv'
<1> USE DEF MapInv
<1>0. ASSUME UNCHANGED <<map, chl>>, TypeOK', ActivatedAsRegistered' PROVE MapInv'
  BY <1>0, SameMap
<1>1. ASSUME NEW e \in Events, run_callback(e) PROVE MapInv'
  BY <1>1, <1>0 DEF run_callback, TypeOK, ActivatedAsRegistered, map, chl, disp
<1>2. CASE dispatch_start
  <2>1. Len(changes) \in Nat
    BY DEF ChangesTyped
  <2> QED BY <1>0, <1>2, <2>1 DEF dispatch_start, TypeOK, ActivatedAsRegistered, map, chl
<1>3. CASE epoll_apply_changes
  <2>1. Len(changes) \in Nat /\ applied + 1 \in 1 .. Len(changes)
    BY <1>3 DEF ChangesTyped, epoll_apply_changes, TypeOK
  <2>2. changes[applied + 1] \in ChangeRec
    BY <2>1 DEF ChangesTyped
  <2>3. ep' \in [Members -> Sets]
    <3>1. ep \in [Members -> Sets]
      BY DEF TypeOK, Sets
    <3>2. ep' = epoll_apply_one_change(ep, changes[applied + 1]).ep
      BY <1>3 DEF epoll_apply_changes
    <3> QED BY <2>2, <3>1, <3>2, ApplyElsewhere
  <2> QED BY <1>0, <1>3, <2>1, <2>3 DEF epoll_apply_changes, TypeOK, Sets, ActivatedAsRegistered, map, chl
<1>4. CASE dispatch_locked
  BY <1>0, <1>4 DEF dispatch_locked, TypeOK, ActivatedAsRegistered, map, chl
<1>5. CASE dispatch_return
  BY <1>0, <1>5 DEF dispatch_return, TypeOK, ActivatedAsRegistered, map, chl
<1>6. ASSUME NEW R \in SUBSET Reports, wait_return(R) PROVE MapInv'
  <2>1. nevents' \in Nat
    BY <1>6 DEF wait_return, TypeOK
  <2> QED BY <1>0, <1>6, <2>1 DEF wait_return, TypeOK, ActivatedAsRegistered, map, chl
<1>7. ASSUME NEW r \in reports, evmap_io_active_(r) PROVE MapInv'
  <2>1. ReportedAs(r.what) \subseteq Conds
    BY DEF ReportedAs, Conds
  <2>2. \A e \in Events : active'[e] = IF e \in EventsOn(r.fd)
                            THEN active[e] \cup (EvEvents[e] \cap ReportedAs(r.what)) ELSE active[e]
    BY <1>7 DEF evmap_io_active_
  <2>3. active' \in [Events -> SUBSET Conds]
    BY <1>7, <2>1 DEF evmap_io_active_, TypeOK
  <2>4. ActivatedAsRegistered'
    BY <1>7, <2>2 DEF evmap_io_active_, ActivatedAsRegistered, EventsOn, map
  <2>5. TypeOK'
    BY <1>7, <2>3 DEF evmap_io_active_, TypeOK, map, chl
  <2> QED BY <1>0, <1>7, <2>4, <2>5 DEF evmap_io_active_
<1> QED BY <1>1, <1>2, <1>3, <1>4, <1>5, <1>6, <1>7

LEMMA DescriptorsKeepMap ==
  ASSUME MapInv, NEW fd \in Fds,
         (\E f \in Files : open(fd, f)) \/ (\E g \in Fds : dup(fd, g)) \/ close(fd)
  PROVE  MapInv'
<1> USE DEF MapInv
<1>1. fdtab' \in [Fds -> Files \cup {None}]
  BY DEF open, dup, close, TypeOK
<1>2. ep' \in [Members -> SUBSET (Conds \cup {"ET"})]
  BY ZenonT(40) DEF open, dup, close, TypeOK
<1>3. UNCHANGED <<uses_changelist, map, chl, disp, active>>
  BY DEF open, dup, close
<1>4. TypeOK' /\ ActivatedAsRegistered'
  BY <1>1, <1>2, <1>3 DEF TypeOK, ActivatedAsRegistered, map, chl, disp
<1> QED BY <1>3, <1>4, SameMap

LEMMA NextKeepsMap == MapInv /\ [Next]_vars => MapInv'
<1> SUFFICES ASSUME MapInv, [Next]_vars PROVE MapInv'
  OBVIOUS
<1>1. CASE UNCHANGED vars
  BY <1>1, SameMap DEF vars, map, chl, disp, MapInv, TypeOK, ActivatedAsRegistered
<1> QED BY <1>1, AddKeepsMap, DelKeepsMap, ReinitKeepsMap, WaitKeepsMap, LoopKeepsMap,
           DescriptorsKeepMap DEF Next

\* The types of the map, the changelist, the kernel's set and the loop, whatever is added,
\* deleted, dispatched, opened, closed, duplicated or forked.
THEOREM MapIsTyped == Spec => []TypeOK
<1>1. MapInv => TypeOK
  BY DEF MapInv
<1> QED BY <1>1, InitMapInv, NextKeepsMap, PTL DEF Spec

------------------------------------------------------------------------------
(* The kernel's set.                                                       *)

ETif(b) == IF b THEN {"ET"} ELSE {}

\* What is wanted of a descriptor with events, and of one without.
WantedShape ==
  \A fd \in Fds :
    /\ OldEvents(fd) \in SUBSET Conds
    /\ OldEvents(fd) = {} <=> EventsOn(fd) = {}
    /\ OldEvents(fd) = {} <=> Wanted(fd) = {}
    /\ \A e \in EventsOn(fd) : Wanted(fd) = OldEvents(fd) \cup ETif(EvET[e])
    /\ OneTrigger /\ OldEvents(fd) # {} => Wanted(fd) = OldEvents(fd) \cup ETof(fd)

LEMMA WantedFacts == MapInv => WantedShape
<1> SUFFICES ASSUME MapInv, NEW fd \in Fds
             PROVE  /\ OldEvents(fd) \in SUBSET Conds
                    /\ OldEvents(fd) = {} <=> EventsOn(fd) = {}
                    /\ OldEvents(fd) = {} <=> Wanted(fd) = {}
                    /\ \A e \in EventsOn(fd) : Wanted(fd) = OldEvents(fd) \cup ETif(EvET[e])
                    /\ OneTrigger /\ OldEvents(fd) # {} => Wanted(fd) = OldEvents(fd) \cup ETof(fd)
  BY DEF WantedShape
<1>1. OldEvents(fd) = {} <=> EventsOn(fd) = {}
  BY NoCountsNoEvents DEF MapInv
<1>2. Wanted(fd) = OldEvents(fd) \cup ETif(\E e \in EventsOn(fd) : EvET[e])
  BY WantedFromCounts DEF MapInv, ETif
<1>3. \A e, f \in EventsOn(fd) : EvET[e] = EvET[f]
  BY DEF MapInv, NotMixed, EventsOn
<1>4. \A e \in EventsOn(fd) : EvET[e] = (\E f \in EventsOn(fd) : EvET[f])
  <2>1. \A e \in EventsOn(fd) : EvET[e] \in BOOLEAN
    BY ConstantsAssumption DEF MapInv, TypeOK, EventsOn
  <2> QED BY <1>3, <2>1
<1>5. OneTrigger => \A e \in EventsOn(fd) : EvET[e] = Trig(fd)
  <2>1. \A e \in EventsOn(fd) : EvET[e] \in BOOLEAN /\ e \in Events /\ EvFd[e] = fd
    BY ConstantsAssumption DEF MapInv, TypeOK, EventsOn
  <2> QED BY <2>1 DEF OneTrigger, Trig
<1>6. \A e \in EventsOn(fd) : Wanted(fd) = OldEvents(fd) \cup ETif(EvET[e])
  BY <1>2, <1>4
<1>7. OneTrigger /\ OldEvents(fd) # {} => Wanted(fd) = OldEvents(fd) \cup ETof(fd)
  BY <1>1, <1>5, <1>6 DEF ETof, ETif
<1>8. OldEvents(fd) = {} <=> Wanted(fd) = {}
  BY <1>1, <1>2 DEF ETif
<1>9. OldEvents(fd) \in SUBSET Conds
  BY DEF OldEvents
<1> QED BY <1>1, <1>6, <1>7, <1>8, <1>9

LEMMA WantedFactsPrime == MapInv' => WantedShape'
BY WantedFacts, PTL

\* A step that leaves a descriptor, its events and its entry alone.
LEMMA SameFd ==
  ASSUME NEW fd \in Fds, FdInv(fd), uses_changelist' = uses_changelist, fdtab'[fd] = fdtab[fd],
         \A f \in Files : ep'[<<f, fd>>] = ep[<<f, fd>>], fdtab[fd] \in Files \cup {None},
         OldEvents(fd)' = OldEvents(fd), Wanted(fd)' = Wanted(fd), Done(fd)' <=> Done(fd),
         ~Done(fd) => changes'[idxplus1'[fd]] = changes[idxplus1[fd]]
  PROVE  FdInv(fd)'
<1>1. Item(ep, fd)' = Item(ep, fd)
  BY DEF Item
<1>2. Watchable(fd)' <=> Watchable(fd)
  BY DEF Watchable, Pollable
<1>3. ASSUME NEW c, Leads(fd, c) PROVE Leads(fd, c)'
  BY <1>1, <1>2, <1>3 DEF Leads
<1> QED BY <1>1, <1>2, <1>3 DEF FdInv

\* What an addition does to the registrations.
LEMMA AddEffect ==
  ASSUME MapInv, MapInv', NEW e \in Events, evmap_io_add_(e), NEW fd \in Fds, fd = EvFd[e],
         NEW S, S = {k \in EvEvents[e] : nev[fd][k] = 0}
  PROVE  /\ \A g \in Fds \ {fd} : OldEvents(g)' = OldEvents(g) /\ Wanted(g)' = Wanted(g)
         /\ OldEvents(fd)' = OldEvents(fd) \cup S /\ OldEvents(fd)' # {}
         /\ Wanted(fd)' = OldEvents(fd)' \cup ETif(EvET[e])
         /\ S = {} => Wanted(fd)' = Wanted(fd)
<1>1. EvEvents[e] \in SUBSET Conds /\ EvEvents[e] # {}
  BY ConstantsAssumption
<1>2. \A g \in Fds \ {fd} : nev'[g] = nev[g] /\ EventsOn(g)' = EventsOn(g)
  BY DEF evmap_io_add_, MapInv, TypeOK, EventsOn
<1>3. \A k \in Conds : nev[fd][k] \in Nat
                       /\ nev'[fd][k] = IF k \in EvEvents[e] THEN nev[fd][k] + 1 ELSE nev[fd][k]
  BY ConstantsAssumption DEF evmap_io_add_, MapInv, TypeOK
<1>4. OldEvents(fd)' = OldEvents(fd) \cup S /\ OldEvents(fd)' # {}
  BY <1>1, <1>3 DEF OldEvents
<1>5. e \in EventsOn(fd)'
  BY DEF evmap_io_add_, EventsOn
<1>6. Wanted(fd)' = OldEvents(fd)' \cup ETif(EvET[e])
  BY <1>5, WantedFactsPrime DEF WantedShape
<1>7. S = {} => Wanted(fd)' = Wanted(fd)
  <2> SUFFICES ASSUME S = {} PROVE Wanted(fd)' = Wanted(fd)
    OBVIOUS
  <2>1. OldEvents(fd) # {} /\ OldEvents(fd)' = OldEvents(fd)
    BY <1>4
  <2>2. PICK f \in EventsOn(fd) : TRUE
    BY <2>1, WantedFacts DEF WantedShape
  <2>3. Wanted(fd) = OldEvents(fd) \cup ETif(EvET[f])
    BY <2>2, WantedFacts DEF WantedShape
  <2>4. EvET[f] = EvET[e]
    BY <2>2 DEF evmap_io_add_, NoMix
  <2> QED BY <2>1, <2>3, <2>4, <1>6
<1>8. \A g \in Fds \ {fd} : OldEvents(g)' = OldEvents(g) /\ Wanted(g)' = Wanted(g)
  BY <1>2 DEF OldEvents, Wanted
<1> QED BY <1>4, <1>6, <1>7, <1>8

\* What a deletion does to the registrations.
LEMMA DelEffect ==
  ASSUME MapInv, MapInv', NEW e \in Events, evmap_io_del_(e), NEW fd \in Fds, fd = EvFd[e],
         NEW S, S = {k \in EvEvents[e] : nev[fd][k] = 1}
  PROVE  /\ \A g \in Fds \ {fd} : OldEvents(g)' = OldEvents(g) /\ Wanted(g)' = Wanted(g)
         /\ OldEvents(fd)' = OldEvents(fd) \ S /\ S \subseteq OldEvents(fd) /\ OldEvents(fd) # {}
         /\ Wanted(fd) = OldEvents(fd) \cup ETif(EvET[e])
         /\ OldEvents(fd)' # {} => Wanted(fd)' = OldEvents(fd)' \cup ETif(EvET[e])
         /\ OldEvents(fd)' = {} => Wanted(fd)' = {}
         /\ S = {} => Wanted(fd)' = Wanted(fd)
<1>1. EvEvents[e] \in SUBSET Conds /\ EvEvents[e] # {}
  BY ConstantsAssumption
<1>2. \A g \in Fds \ {fd} : nev'[g] = nev[g] /\ EventsOn(g)' = EventsOn(g)
  BY DEF evmap_io_del_, MapInv, TypeOK, EventsOn
<1>3. \A k \in Conds : nev[fd][k] \in Nat
                       /\ nev'[fd][k] = IF k \in EvEvents[e] THEN nev[fd][k] - 1 ELSE nev[fd][k]
  BY ConstantsAssumption DEF evmap_io_del_, MapInv, TypeOK
<1>4. e \in EventsOn(fd) /\ e \in inserted
  BY DEF evmap_io_del_, EventsOn
<1>5. \A k \in EvEvents[e] : nev[fd][k] > 0
  BY <1>1, <1>4, CountsTell DEF MapInv
<1>6. OldEvents(fd)' = OldEvents(fd) \ S /\ S \subseteq OldEvents(fd) /\ OldEvents(fd) # {}
  BY <1>1, <1>3, <1>5 DEF OldEvents
<1>7. Wanted(fd) = OldEvents(fd) \cup ETif(EvET[e])
  BY <1>4, WantedFacts DEF WantedShape
<1>8. OldEvents(fd)' # {} => Wanted(fd)' = OldEvents(fd)' \cup ETif(EvET[e])
  <2> SUFFICES ASSUME OldEvents(fd)' # {} PROVE Wanted(fd)' = OldEvents(fd)' \cup ETif(EvET[e])
    OBVIOUS
  <2>1. PICK f \in EventsOn(fd)' : Wanted(fd)' = OldEvents(fd)' \cup ETif(EvET[f])
    BY WantedFactsPrime DEF WantedShape
  <2>2. f \in inserted /\ EvFd[f] = fd
    BY <2>1 DEF EventsOn, evmap_io_del_
  <2>3. EvET[f] = EvET[e]
    BY <1>4, <2>2 DEF MapInv, NotMixed
  <2> QED BY <2>1, <2>3
<1>9. OldEvents(fd)' = {} => Wanted(fd)' = {}
  BY WantedFactsPrime DEF WantedShape
<1>10. \A g \in Fds \ {fd} : OldEvents(g)' = OldEvents(g) /\ Wanted(g)' = Wanted(g)
  BY <1>2 DEF OldEvents, Wanted
<1>11. S = {} => Wanted(fd)' = Wanted(fd)
  BY <1>6, <1>7, <1>8
<1> QED BY <1>6, <1>7, <1>8, <1>9, <1>10, <1>11

\* The operations of a change that adds or deletes S.
LEMMA ChangeOps ==
  ASSUME NEW fd \in Fds, NEW old \in SUBSET Conds, NEW S \in SUBSET Conds, S # {}, NEW e \in Events
  PROVE  /\ \A op \in {"add", "del"} : Change(fd, old, S, op, EvET[e]) \in ChangeRec
                                       /\ Change(fd, old, S, op, EvET[e]).fd = fd
         /\ epoll_op_table(Change(fd, old, S, "add", EvET[e])) \in {"ADD", "MOD"}
         /\ Evs(Change(fd, old, S, "add", EvET[e])) = old \cup S \cup ETif(EvET[e])
         /\ epoll_op_table(Change(fd, old, S, "del", EvET[e])) = IF old \ S = {} THEN "DEL" ELSE "MOD"
         /\ Evs(Change(fd, old, S, "del", EvET[e])) = (old \ S) \cup ETif(EvET[e])
<1> DEFINE a == Change(fd, old, S, "add", EvET[e])
           d == Change(fd, old, S, "del", EvET[e])
<1>0. EvET[e] \in BOOLEAN
  BY ConstantsAssumption
<1>1. \A op \in {"add", "del"} : Change(fd, old, S, op, EvET[e]) \in ChangeRec
                                 /\ Change(fd, old, S, op, EvET[e]).fd = fd
  BY <1>0 DEF Change, ChangeRec, NoChange
<1>2. a.old = old /\ \A k \in Conds : /\ a.chg[k].op = IF k \in S THEN "add" ELSE "none"
                                      /\ a.chg[k].et = (k \in S /\ EvET[e])
  BY <1>0 DEF Change, NoChange
<1>3. d.old = old /\ \A k \in Conds : /\ d.chg[k].op = IF k \in S THEN "del" ELSE "none"
                                      /\ d.chg[k].et = (k \in S /\ EvET[e])
  BY <1>0 DEF Change, NoChange
<1> HIDE DEF a, d
<1>4. Keep(a) = old \cup S /\ Keep(d) = old \ S
  BY <1>2, <1>3 DEF Keep
<1>5. (\E k \in Conds : a.chg[k].et) <=> EvET[e]
  BY <1>2
<1>6. (\E k \in Conds : d.chg[k].et) <=> EvET[e]
  BY <1>3
<1>7. epoll_op_table(a) \in {"ADD", "MOD"}
  BY <1>2 DEF epoll_op_table
<1>8. epoll_op_table(d) = IF old \ S = {} THEN "DEL" ELSE "MOD"
  <2>1. \E k \in Conds : d.chg[k].op # "none"
    BY <1>3
  <2>2. \A k \in Conds : d.chg[k].op # "add"
    BY <1>3
  <2> QED BY <1>4, <2>1, <2>2 DEF epoll_op_table
<1>9. Evs(a) = old \cup S \cup ETif(EvET[e]) /\ Evs(d) = (old \ S) \cup ETif(EvET[e])
  BY <1>4, <1>5, <1>6 DEF Evs, ETif
<1> QED BY <1>1, <1>7, <1>8, <1>9 DEF a, d

\* ADD and MOD of a descriptor that cannot be watched fail.
LEMMA ApplyFails ==
  ASSUME TypeOK, NEW K, NEW c \in ChangeRec, ~Watchable(c.fd), epoll_op_table(c) \in {"ADD", "MOD"}
  PROVE  ~epoll_apply_one_change(K, c).ok
<1>1. Errno(K, epoll_op_table(c), c.fd) \in {"EBADF", "EPERM"}
  BY DEF Errno, Watchable, Pollable
<1> QED BY <1>1 DEF epoll_apply_one_change

\* What the backend is told of one descriptor leaves the others alone.
LEMMA BackendElsewhere ==
  ASSUME MapInv, NEW e \in Events, NEW old \in SUBSET Conds, NEW S \in SUBSET Conds,
         BackendAdd(e, old, S) \/ BackendDel(e, old, S)
  PROVE  \A g \in Fds : g # EvFd[e] =>
           /\ \A f \in Files : ep'[<<f, g>>] = ep[<<f, g>>]
           /\ idxplus1'[g] = idxplus1[g]
           /\ idxplus1[g] # 0 => changes'[idxplus1[g]] = changes[idxplus1[g]]
<1> USE DEF MapInv
<1>1. EvFd[e] \in Fds /\ EvET[e] \in BOOLEAN /\ ep \in [Members -> Sets]
  BY ConstantsAssumption DEF TypeOK, Sets
<1>2. CASE UNCHANGED <<ep, chl>>
  BY <1>2 DEF chl
<1>3. CASE UNCHANGED ep /\ (event_changelist_add_(EvFd[e], old, S, EvET[e])
                            \/ event_changelist_del_(EvFd[e], old, S, EvET[e]))
  <2>1. PICK c \in ChangeRec : c.fd = EvFd[e] /\ PutChange(EvFd[e], c)
    <3>1. CASE event_changelist_add_(EvFd[e], old, S, EvET[e])
      BY <1>1, <3>1, ListedChange, Zenon
    <3>2. CASE event_changelist_del_(EvFd[e], old, S, EvET[e])
      BY <1>1, <3>2, ListedChange, Zenon
    <3> QED BY <1>3, <3>1, <3>2
  <2> QED BY <1>1, <1>3, <2>1, PutKeepsConsistent
<1>4. CASE UNCHANGED chl /\ \E op \in {"add", "del"} :
             ep' = epoll_nochangelist(op, EvFd[e], old, S, EvET[e]).ep
  <2>1. PICK op \in {"add", "del"} : ep' = epoll_nochangelist(op, EvFd[e], old, S, EvET[e]).ep
    BY <1>4
  <2>2. Change(EvFd[e], old, S, op, EvET[e]) \in ChangeRec
        /\ Change(EvFd[e], old, S, op, EvET[e]).fd = EvFd[e]
    BY <1>1 DEF Change, ChangeRec, NoChange
  <2>3. \A m \in Members : m # <<fdtab[EvFd[e]], EvFd[e]>> => ep'[m] = ep[m]
    BY <1>1, <2>1, <2>2, ApplyElsewhere DEF epoll_nochangelist
  <2>4. ASSUME NEW g \in Fds, g # EvFd[e], NEW f \in Files PROVE ep'[<<f, g>>] = ep[<<f, g>>]
    BY <2>3, <2>4 DEF Members
  <2> QED BY <1>4, <2>4 DEF chl
<1> QED BY <1>2, <1>3, <1>4 DEF BackendAdd, BackendDel

\* An addition or a deletion and the descriptors it is not about.
LEMMA OthersKept ==
  ASSUME IInv, NEW e \in Events, NEW old \in SUBSET Conds, NEW S \in SUBSET Conds,
         BackendAdd(e, old, S) \/ BackendDel(e, old, S),
         UNCHANGED <<uses_changelist, fdtab, disp>>,
         NEW g \in Fds, g # EvFd[e], OldEvents(g)' = OldEvents(g), Wanted(g)' = Wanted(g)
  PROVE  FdInv(g)'
<1>1. /\ \A f \in Files : ep'[<<f, g>>] = ep[<<f, g>>]
      /\ idxplus1'[g] = idxplus1[g]
      /\ idxplus1[g] # 0 => changes'[idxplus1[g]] = changes[idxplus1[g]]
  BY BackendElsewhere DEF IInv
<1>2. Done(g)' <=> Done(g)
  BY <1>1 DEF Done, disp
<1>3. ~Done(g) => changes'[idxplus1'[g]] = changes[idxplus1[g]]
  BY <1>1 DEF Done
<1>4. fdtab[g] \in Files \cup {None}
  BY DEF IInv, MapInv, TypeOK
<1>5. FdInv(g)
  BY DEF IInv, KernelInv
<1> QED BY <1>1, <1>2, <1>3, <1>4, <1>5, SameFd

\* Without the changelist a call that is passed on leaves the mode's part.
LEMMA BackendKeepsMode ==
  ASSUME IInv, NEW e \in Events, NEW old, NEW S,
         BackendAdd(e, old, S) \/ BackendDel(e, old, S), UNCHANGED <<uses_changelist, fdtab>>
  PROVE  ModeInv'
<1>1. ~uses_changelist => changes' = changes
  BY DEF BackendAdd, BackendDel, chl
<1> QED BY <1>1 DEF IInv, KernelInv, ModeInv

\* The entry of a descriptor that has one, or of one for which the kernel is up to date.
LEMMA EntryLeads ==
  ASSUME IInv, NEW fd \in Fds, uses_changelist, phase # "apply", NEW c, c = GetChange(fd, OldEvents(fd))
  PROVE  c \in ChangeRec /\ Leads(fd, c)
<1>1. c \in ChangeRec
  BY GotChange, WantedFacts DEF IInv, MapInv, WantedShape
<1>2. CASE idxplus1[fd] # 0
  <2>1. ~Done(fd) /\ c = changes[idxplus1[fd]]
    BY <1>2 DEF Done, GetChange
  <2> QED BY <1>1, <2>1 DEF IInv, KernelInv, FdInv
<1>3. CASE idxplus1[fd] = 0
  <2>1. Done(fd)
    BY <1>3 DEF Done
  <2>2. c.old = OldEvents(fd) /\ c.chg = [k \in Conds |-> NoChange]
    BY <1>3 DEF GetChange, Change
  <2>3. \A k \in Conds : c.chg[k].op = "none" /\ c.chg[k].et = FALSE
    BY <2>2 DEF NoChange
  <2>4. Keep(c) = OldEvents(fd)
    BY <2>2, <2>3 DEF Keep, OldEvents
  <2>5. Item(ep, fd) # {} => Watchable(fd)
    BY DEF IInv, MapInv, TypeOK, KernelInv, FdInv, Item, Watchable, Pollable
  <2>6. Watchable(fd) => Item(ep, fd) = Wanted(fd)
    BY <2>1 DEF IInv, KernelInv, FdInv
  <2>7. OneTrigger
    BY DEF IInv, KernelInv, ModeInv
  <2>8. /\ OldEvents(fd) = {} <=> Wanted(fd) = {}
        /\ OldEvents(fd) # {} => Wanted(fd) = OldEvents(fd) \cup ETof(fd)
    BY <2>7, WantedFacts DEF IInv, WantedShape
  <2> QED BY <1>1, <2>2, <2>3, <2>4, <2>5, <2>6, <2>8 DEF Leads
<1> QED BY <1>2, <1>3

LEMMA AddKeepsKernel ==
  ASSUME IInv, MapInv', NEW e \in Events, evmap_io_add_(e)
  PROVE  KernelInv'
<1>0. PICK fd \in Fds : fd = EvFd[e]
  BY ConstantsAssumption
<1> DEFINE S == {k \in EvEvents[e] : nev[fd][k] = 0}
<1>1. BackendAdd(e, OldEvents(fd), S) /\ UNCHANGED <<uses_changelist, fdtab, disp>>
      /\ fdtab[fd] # None /\ phase # "apply"
  BY <1>0 DEF evmap_io_add_, LockFree
<1>2. EvET[e] \in BOOLEAN /\ S \in SUBSET Conds /\ OldEvents(fd) \in SUBSET Conds
      /\ ep \in [Members -> Sets]
  BY ConstantsAssumption DEF OldEvents, IInv, MapInv, TypeOK, Sets
<1>3. /\ \A g \in Fds \ {fd} : OldEvents(g)' = OldEvents(g) /\ Wanted(g)' = Wanted(g)
      /\ OldEvents(fd)' = OldEvents(fd) \cup S /\ OldEvents(fd)' # {}
      /\ Wanted(fd)' = OldEvents(fd)' \cup ETif(EvET[e])
      /\ S = {} => Wanted(fd)' = Wanted(fd)
  BY <1>0, AddEffect, ZenonT(40) DEF IInv
<1> HIDE DEF S
<1>4. ModeInv'
  BY <1>1, BackendKeepsMode
<1>5. \A g \in Fds : g # fd => FdInv(g)'
  BY <1>0, <1>1, <1>2, <1>3, OthersKept
<1>6. FdInv(fd) /\ fdtab[fd] \in Files \cup {None}
  BY DEF IInv, KernelInv, MapInv, TypeOK
<1>7. FdInv(fd)'
  <2>1. CASE S = {}
    <3>1. UNCHANGED <<ep, chl>>
      BY <1>1, <2>1 DEF BackendAdd
    <3>2. Done(fd)' <=> Done(fd)
      BY <1>1, <3>1 DEF Done, disp, chl
    <3> QED BY <1>1, <1>3, <1>6, <2>1, <3>1, <3>2, SameFd DEF chl
  <2>2. CASE S # {} /\ ~uses_changelist
    <3> DEFINE c == Change(fd, OldEvents(fd), S, "add", EvET[e])
    <3>1. c \in ChangeRec /\ c.fd = fd /\ epoll_op_table(c) \in {"ADD", "MOD"}
          /\ Evs(c) = OldEvents(fd) \cup S \cup ETif(EvET[e])
      BY <1>2, <2>2, ChangeOps
    <3>2. epoll_apply_one_change(ep, c).ok /\ ep' = epoll_apply_one_change(ep, c).ep
      BY <1>0, <1>1, <2>2 DEF BackendAdd, epoll_nochangelist
    <3> HIDE DEF c
    <3>3. Watchable(fd)
      BY <3>1, <3>2, ApplyFails DEF IInv, MapInv
    <3>4. ep'[<<fdtab[fd], fd>>] = Evs(c)
      BY <1>2, <3>1, <3>2, <3>3, ApplyHere DEF IInv, MapInv
    <3>5. Item(ep, fd)' = Wanted(fd)'
      BY <1>1, <1>3, <3>1, <3>4 DEF Item
    <3>6. \A m \in Members : m # <<fdtab[fd], fd>> => ep'[m] = ep[m]
      BY <1>2, <3>1, <3>2, ApplyElsewhere DEF IInv, MapInv
    <3>7. \A f \in Files : ep'[<<f, fd>>] # {} => fdtab'[fd] = f /\ f \notin Unpollable
      <4> SUFFICES ASSUME NEW f \in Files, ep'[<<f, fd>>] # {}
                   PROVE  fdtab[fd] = f /\ f \notin Unpollable
        BY <1>1
      <4>1. CASE f = fdtab[fd]
        BY <3>3, <4>1 DEF Watchable, Pollable
      <4>2. CASE f # fdtab[fd]
        BY <1>6, <3>6, <4>2 DEF FdInv, Members
      <4> QED BY <4>1, <4>2
    <3> QED BY <1>1, <2>2, <3>5, <3>7 DEF FdInv
  <2>3. CASE S # {} /\ uses_changelist
    <3> DEFINE c == GetChange(fd, OldEvents(fd))
    <3>1. ep' = ep /\ event_changelist_add_(EvFd[e], OldEvents(fd), S, EvET[e])
      BY <1>1, <2>3 DEF BackendAdd
    <3>2. PICK n \in ChangeRec : n.fd = fd /\ n.old = c.old /\ n.chg = AddChg(c, S, EvET[e])
                                 /\ PutChange(fd, n)
      BY <1>0, <1>2, <3>1, ListedChange, Zenon DEF IInv, MapInv
    <3>3. idxplus1'[fd] # 0 /\ changes'[idxplus1'[fd]] = n
      BY <3>2, PutKeepsConsistent DEF IInv, MapInv
    <3>4. c \in ChangeRec /\ Leads(fd, c)
      BY <1>1, <2>3, EntryLeads
    <3> HIDE DEF c
    <3>5. ~Done(fd)'
      BY <1>1, <3>3 DEF Done, disp
    <3>6. \A k \in Conds : n.chg[k] = IF k \in S THEN [op |-> "add", et |-> EvET[e]] ELSE c.chg[k]
      BY <3>2 DEF AddChg
    <3>7. Keep(n) = OldEvents(fd)'
      <4>1. Keep(n) = Keep(c) \cup S
        BY <1>2, <3>2, <3>6 DEF Keep
      <4> QED BY <1>3, <3>4, <4>1 DEF Leads
    <3>8. EvET[e] <=> Trig(fd)
      BY <1>0, <1>2, <2>3 DEF IInv, KernelInv, ModeInv, OneTrigger, Trig
    <3>9. \A k \in Conds : n.chg[k].et <=> (n.chg[k].op # "none" /\ Trig(fd))
      BY <3>4, <3>6, <3>8 DEF Leads
    <3>10. Item(ep, fd)' = Item(ep, fd) /\ (Watchable(fd)' <=> Watchable(fd))
      BY <1>1, <3>1 DEF Item, Watchable, Pollable
    <3>11. Watchable(fd) /\ Item(ep, fd) = {} => \A k \in n.old : n.chg[k].op # "none"
      <4>1. c.old \in SUBSET Conds
        BY <3>4 DEF ChangeRec
      <4> QED BY <3>2, <3>4, <3>6, <4>1 DEF Leads
    <3>12. Leads(fd, n)'
      BY <3>2, <3>4, <3>7, <3>9, <3>10, <3>11 DEF Leads
    <3> QED BY <1>1, <1>6, <2>3, <3>1, <3>3, <3>5, <3>12 DEF FdInv
  <2> QED BY <2>1, <2>2, <2>3
<1> QED BY <1>4, <1>5, <1>7 DEF KernelInv

LEMMA DelKeepsKernel ==
  ASSUME IInv, MapInv', NEW e \in Events, evmap_io_del_(e)
  PROVE  KernelInv'
<1>0. PICK fd \in Fds : fd = EvFd[e]
  BY ConstantsAssumption
<1>a. PICK S : S = {k \in EvEvents[e] : nev[fd][k] = 1}
  OBVIOUS
<1>1. BackendDel(e, OldEvents(fd), S) /\ UNCHANGED <<uses_changelist, fdtab, disp>> /\ phase # "apply"
  BY <1>0, <1>a DEF evmap_io_del_, LockFree
<1>2. EvET[e] \in BOOLEAN /\ S \in SUBSET Conds /\ OldEvents(fd) \in SUBSET Conds
      /\ ep \in [Members -> Sets]
  BY <1>a, ConstantsAssumption DEF OldEvents, IInv, MapInv, TypeOK, Sets
<1>3. /\ \A g \in Fds \ {fd} : OldEvents(g)' = OldEvents(g) /\ Wanted(g)' = Wanted(g)
      /\ OldEvents(fd)' = OldEvents(fd) \ S /\ S \subseteq OldEvents(fd) /\ OldEvents(fd) # {}
      /\ Wanted(fd) = OldEvents(fd) \cup ETif(EvET[e])
      /\ OldEvents(fd)' # {} => Wanted(fd)' = OldEvents(fd)' \cup ETif(EvET[e])
      /\ OldEvents(fd)' = {} => Wanted(fd)' = {}
      /\ S = {} => Wanted(fd)' = Wanted(fd)
  BY <1>0, <1>a, DelEffect, SMTT(30) DEF IInv
<1>4. ModeInv'
  BY <1>1, BackendKeepsMode
<1>5. \A g \in Fds : g # fd => FdInv(g)'
  BY <1>0, <1>1, <1>2, <1>3, OthersKept
<1>6. FdInv(fd) /\ fdtab[fd] \in Files /\ fdtab[fd] # None
  <2>1. fdtab[fd] \in Files \cup {None} /\ FdInv(fd)
    BY DEF IInv, KernelInv, MapInv, TypeOK
  <2> QED BY <1>3, <2>1 DEF FdInv
<1>7. FdInv(fd)'
  <2>1. CASE S = {}
    <3>1. UNCHANGED <<ep, chl>>
      BY <1>1, <2>1 DEF BackendDel
    <3>2. Done(fd)' <=> Done(fd)
      BY <1>1, <3>1 DEF Done, disp, chl
    <3> QED BY <1>1, <1>3, <1>6, <2>1, <3>1, <3>2, SameFd DEF chl
  <2>2. CASE S # {} /\ ~uses_changelist
    <3> DEFINE c == Change(fd, OldEvents(fd), S, "del", EvET[e])
    <3>1. c \in ChangeRec /\ c.fd = fd
          /\ epoll_op_table(c) = (IF OldEvents(fd) \ S = {} THEN "DEL" ELSE "MOD")
          /\ Evs(c) = (OldEvents(fd) \ S) \cup ETif(EvET[e])
      BY <1>2, <2>2, ChangeOps
    <3>2. ep' = epoll_apply_one_change(ep, c).ep
      BY <1>0, <1>1, <2>2 DEF BackendDel, epoll_nochangelist
    <3> HIDE DEF c
    <3>3. Watchable(fd)
      <4>1. Item(ep, fd) # {}
        BY <1>3, <1>6, <2>2 DEF FdInv
      <4> QED BY <1>6, <4>1 DEF FdInv, Item, Watchable, Pollable
    <3>4. ep'[<<fdtab[fd], fd>>] = IF OldEvents(fd) \ S = {} THEN {} ELSE Evs(c)
      BY <1>2, <3>1, <3>2, <3>3, ApplyHere DEF IInv, MapInv
    <3>5. Item(ep, fd)' = Wanted(fd)'
      BY <1>1, <1>3, <1>6, <3>1, <3>4 DEF Item
    <3>6. \A m \in Members : m # <<fdtab[fd], fd>> => ep'[m] = ep[m]
      BY <1>2, <3>1, <3>2, ApplyElsewhere DEF IInv, MapInv
    <3>7. \A f \in Files : ep'[<<f, fd>>] # {} => fdtab'[fd] = f /\ f \notin Unpollable
      <4> SUFFICES ASSUME NEW f \in Files, ep'[<<f, fd>>] # {}
                   PROVE  fdtab[fd] = f /\ f \notin Unpollable
        BY <1>1
      <4>1. CASE f = fdtab[fd]
        BY <3>3, <4>1 DEF Watchable, Pollable
      <4>2. CASE f # fdtab[fd]
        BY <1>6, <3>6, <4>2 DEF FdInv, Members
      <4> QED BY <4>1, <4>2
    <3> QED BY <1>1, <1>6, <2>2, <3>5, <3>7 DEF FdInv
  <2>3. CASE S # {} /\ uses_changelist
    <3> DEFINE c == GetChange(fd, OldEvents(fd))
    <3>1. ep' = ep /\ event_changelist_del_(EvFd[e], OldEvents(fd), S, EvET[e])
      BY <1>1, <2>3 DEF BackendDel
    <3>2. PICK n \in ChangeRec : n.fd = fd /\ n.old = c.old /\ n.chg = DelChg(c, S, EvET[e])
                                 /\ PutChange(fd, n)
      BY <1>0, <1>2, <3>1, ListedChange, Zenon DEF IInv, MapInv
    <3>3. idxplus1'[fd] # 0 /\ changes'[idxplus1'[fd]] = n
      BY <3>2, PutKeepsConsistent DEF IInv, MapInv
    <3>4. c \in ChangeRec /\ Leads(fd, c)
      BY <1>1, <2>3, EntryLeads
    <3> HIDE DEF c
    <3>5. ~Done(fd)'
      BY <1>1, <3>3 DEF Done, disp
    <3>6. \A k \in Conds :
            n.chg[k] = IF k \in S THEN IF k \notin c.old THEN NoChange ELSE [op |-> "del", et |-> EvET[e]]
                       ELSE c.chg[k]
      BY <3>2 DEF DelChg
    <3>7. Keep(n) = OldEvents(fd)'
      <4>1. Keep(n) = Keep(c) \ S
        BY <1>2, <3>2, <3>6 DEF Keep, NoChange
      <4> QED BY <1>3, <3>4, <4>1 DEF Leads
    <3>8. EvET[e] <=> Trig(fd)
      BY <1>0, <1>2, <2>3 DEF IInv, KernelInv, ModeInv, OneTrigger, Trig
    <3>9. \A k \in Conds : n.chg[k].et <=> (n.chg[k].op # "none" /\ Trig(fd))
      BY <3>4, <3>6, <3>8 DEF Leads, NoChange
    <3>10. Item(ep, fd)' = Item(ep, fd) /\ (Watchable(fd)' <=> Watchable(fd))
      BY <1>1, <3>1 DEF Item, Watchable, Pollable
    <3>11. Watchable(fd) /\ Item(ep, fd) = {} => \A k \in n.old : n.chg[k].op # "none"
      <4>1. c.old \in SUBSET Conds
        BY <3>4 DEF ChangeRec
      <4> QED BY <3>2, <3>4, <3>6, <4>1 DEF Leads
    <3>12. Leads(fd, n)'
      BY <3>2, <3>4, <3>7, <3>9, <3>10, <3>11 DEF Leads
    <3> QED BY <1>1, <1>6, <2>3, <3>1, <3>3, <3>5, <3>12 DEF FdInv
  <2> QED BY <2>1, <2>2, <2>3
<1> QED BY <1>4, <1>5, <1>7 DEF KernelInv

\* A step that touches neither the map nor the kernel, and makes no change wait.
LEMMA IdleKeepsKernel ==
  ASSUME IInv, UNCHANGED <<uses_changelist, fdtab, ep, map>>,
         changes = <<>> => changes' = <<>>, \A fd \in Fds : Done(fd)' <=> Done(fd),
         \A fd \in Fds : ~Done(fd) => changes'[idxplus1'[fd]] = changes[idxplus1[fd]]
  PROVE  KernelInv'
<1>1. ModeInv'
  BY DEF IInv, KernelInv, ModeInv
<1>2. ASSUME NEW fd \in Fds PROVE FdInv(fd)'
  <2>1. OldEvents(fd)' = OldEvents(fd) /\ Wanted(fd)' = Wanted(fd)
    BY DEF OldEvents, Wanted, EventsOn, map
  <2>2. FdInv(fd) /\ fdtab[fd] \in Files \cup {None}
    BY DEF IInv, KernelInv, MapInv, TypeOK
  <2> QED BY <2>1, <2>2, SameFd
<1> QED BY <1>1, <1>2 DEF KernelInv

\* The steps of the loop that only move it, and its wait: by then everything is applied.
LEMMA LoopKeepsKernel ==
  ASSUME IInv, MapInv',
         \/ \E e \in Events : run_callback(e)
         \/ dispatch_start \/ epoll_wait \/ dispatch_locked \/ dispatch_return
         \/ wait_return({}) \/ (\E r \in Reports : wait_return({r}))
         \/ \E r \in reports : evmap_io_active_(r)
         \/ UNCHANGED vars
  PROVE  KernelInv'
<1>0. idxplus1 \in [Fds -> Nat] /\ applied \in Nat /\ Len(changes) \in Nat
  BY DEF IInv, MapInv, TypeOK, ChangesTyped
<1>1. ASSUME UNCHANGED <<uses_changelist, fdtab, ep, map, chl>>,
             UNCHANGED <<phase, applied>> \/ (phase # "apply" /\ phase' # "apply")
      PROVE  KernelInv'
  <2>1. \A fd \in Fds : Done(fd)' <=> Done(fd)
    BY <1>1 DEF Done, chl
  <2> QED BY <1>1, <2>1, IdleKeepsKernel DEF chl
<1>2. CASE dispatch_start
  <2>1. \A fd \in Fds : Done(fd)' <=> Done(fd)
    BY <1>0, <1>2 DEF dispatch_start, Done, chl
  <2> QED BY <1>2, <2>1, IdleKeepsKernel DEF dispatch_start, chl
<1>3. CASE epoll_wait
  <2>1. \A fd \in Fds : idxplus1[fd] # 0 => idxplus1[fd] \in 1 .. Len(changes)
    BY DEF IInv, MapInv, ChangelistConsistent, ChangesTyped
  <2>2. \A fd \in Fds : Done(fd)
    BY <1>0, <1>3, <2>1 DEF epoll_wait, Done
  <2>3. changes' = <<>>
    BY <1>3 DEF epoll_wait
  <2>4. \A fd \in Fds : Done(fd)'
    BY <2>3 DEF MapInv, ChangelistConsistent, Done
  <2> QED BY <1>3, <2>2, <2>3, <2>4, IdleKeepsKernel DEF epoll_wait
<1> QED BY <1>1, <1>2, <1>3 DEF run_callback, dispatch_locked, dispatch_return, wait_return,
                                evmap_io_active_, disp, vars

\* One turn of epoll_apply_changes brings its descriptor up to date.
LEMMA ApplyKeepsKernel ==
  ASSUME IInv, MapInv', epoll_apply_changes
  PROVE  KernelInv'
<1> DEFINE c == changes[applied + 1]
<1>1. /\ UNCHANGED <<uses_changelist, fdtab, map, chl, phase>> /\ phase = "apply"
      /\ applied' = applied + 1 /\ applied \in Nat /\ ep' = epoll_apply_one_change(ep, c).ep
  BY DEF epoll_apply_changes, IInv, MapInv, TypeOK
<1>2. applied + 1 \in DOMAIN changes /\ DOMAIN changes = 1 .. Len(changes)
  BY DEF epoll_apply_changes, IInv, MapInv, TypeOK, ChangesTyped
<1>3. c \in ChangeRec /\ c.fd \in Fds /\ idxplus1[c.fd] = applied + 1 /\ ep \in [Members -> Sets]
  <2>1. c \in ChangeRec
    BY <1>2 DEF IInv, MapInv, ChangesTyped
  <2>2. idxplus1[c.fd] = applied + 1
    BY <1>2 DEF IInv, MapInv, ChangelistConsistent
  <2>3. ep \in [Members -> Sets]
    BY DEF IInv, MapInv, TypeOK, Sets
  <2> QED BY <2>1, <2>2, <2>3 DEF ChangeRec
<1>4. PICK fd \in Fds : fd = c.fd /\ changes[idxplus1[fd]] = c
  BY <1>3
<1> HIDE DEF c
<1>5. uses_changelist
  <2>1. changes # <<>>
    BY <1>2
  <2> QED BY <2>1 DEF IInv, KernelInv, ModeInv
<1>6. ~Done(fd) /\ Done(fd)'
  BY <1>1, <1>3, <1>4 DEF Done, chl
<1>7. Leads(fd, c) /\ FdInv(fd) /\ OneTrigger
  BY <1>4, <1>5, <1>6 DEF IInv, KernelInv, ModeInv, FdInv
<1>8. \A g \in Fds : OldEvents(g)' = OldEvents(g) /\ Wanted(g)' = Wanted(g)
  BY <1>1 DEF OldEvents, Wanted, EventsOn, map
<1>9. ModeInv'
  BY <1>1 DEF IInv, KernelInv, ModeInv, chl
<1>10. /\ \A m \in Members : m # <<fdtab[fd], fd>> => ep'[m] = ep[m]
       /\ ~Watchable(fd) => ep' = ep
  BY <1>1, <1>3, <1>4, ApplyElsewhere DEF IInv, MapInv
<1>11. ASSUME NEW g \in Fds, g # fd PROVE FdInv(g)'
  <2>1. \A f \in Files : ep'[<<f, g>>] = ep[<<f, g>>]
    BY <1>10, <1>11 DEF Members
  <2>2. idxplus1[g] # idxplus1[fd]
    <3>1. idxplus1[g] # 0 => changes[idxplus1[g]].fd = g
      BY DEF IInv, MapInv, ChangelistConsistent
    <3> QED BY <1>1, <1>3, <1>4, <1>11, <3>1
  <2>3. idxplus1[g] \in Nat
    BY DEF IInv, MapInv, TypeOK
  <2>4. Done(g)' <=> Done(g)
    BY <1>1, <1>3, <1>4, <2>2, <2>3 DEF Done, chl
  <2>5. FdInv(g) /\ fdtab[g] \in Files \cup {None}
    BY DEF IInv, KernelInv, MapInv, TypeOK
  <2> QED BY <1>1, <1>8, <2>1, <2>4, <2>5, SameFd DEF chl
<1>12. Watchable(fd)' <=> Watchable(fd)
  BY <1>1 DEF Watchable, Pollable
<1>13. Watchable(fd) => Item(ep, fd)' = Wanted(fd)
  <2> SUFFICES ASSUME Watchable(fd) PROVE ep'[<<fdtab[fd], fd>>] = Wanted(fd)
    BY <1>1 DEF Item, Watchable
  <2>1. LET op == epoll_op_table(c)
            m == <<fdtab[fd], fd>> IN
        /\ op = "NONE" => ep'[m] = ep[m]
        /\ op \in {"ADD", "MOD"} => ep'[m] = Evs(c)
        /\ op = "DEL" => ep'[m] = {}
    BY <1>1, <1>3, <1>4, ApplyHere DEF IInv, MapInv
  <2>2. /\ OldEvents(fd) = {} <=> Wanted(fd) = {}
        /\ OldEvents(fd) # {} => Wanted(fd) = OldEvents(fd) \cup ETof(fd)
    BY <1>7, WantedFacts DEF IInv, WantedShape
  <2>3. Keep(c) = OldEvents(fd) /\ c.old \in SUBSET Conds
    BY <1>3, <1>7 DEF Leads, ChangeRec
  <2>4. epoll_op_table(c) \in {"NONE", "ADD", "MOD", "DEL"}
    BY DEF epoll_op_table
  <2>5. CASE epoll_op_table(c) = "NONE"
    <3>1. \A k \in Conds : c.chg[k].op = "none"
      BY <2>5 DEF epoll_op_table
    <3>2. Keep(c) = c.old
      BY <2>3, <3>1 DEF Keep
    <3>3. ep[<<fdtab[fd], fd>>] = Item(ep, fd)
      BY DEF Item, Watchable
    <3> QED BY <1>7, <2>1, <2>2, <2>3, <2>5, <3>1, <3>2, <3>3 DEF Leads
  <2>6. CASE epoll_op_table(c) \in {"ADD", "MOD"}
    <3>1. \E k \in Conds : c.chg[k].op # "none"
      BY <2>6 DEF epoll_op_table
    <3>2. Keep(c) # {}
      BY <2>6 DEF epoll_op_table, Keep
    <3>3. (\E k \in Conds : c.chg[k].et) <=> Trig(fd)
      BY <1>7, <3>1 DEF Leads
    <3>4. Evs(c) = Keep(c) \cup ETof(fd)
      BY <3>3 DEF Evs, ETof
    <3> QED BY <2>1, <2>2, <2>3, <2>6, <3>2, <3>4
  <2>7. CASE epoll_op_table(c) = "DEL"
    <3>1. Keep(c) = {}
      BY <2>7 DEF epoll_op_table
    <3> QED BY <2>1, <2>2, <2>3, <2>7, <3>1
  <2> QED BY <2>4, <2>5, <2>6, <2>7
<1>14. FdInv(fd)'
  <2>1. \A f \in Files : ep'[<<f, fd>>] # {} => fdtab'[fd] = f /\ f \notin Unpollable
    <3> SUFFICES ASSUME NEW f \in Files, ep'[<<f, fd>>] # {}
                 PROVE  fdtab[fd] = f /\ f \notin Unpollable
      BY <1>1
    <3>1. CASE f = fdtab[fd] /\ Watchable(fd)
      BY <3>1 DEF Watchable, Pollable
    <3>2. CASE f # fdtab[fd] \/ ~Watchable(fd)
      <4>1. ep'[<<f, fd>>] = ep[<<f, fd>>]
        BY <1>10, <3>2 DEF Members
      <4> QED BY <1>7, <4>1 DEF FdInv
    <3> QED BY <3>1, <3>2
  <2>2. fdtab'[fd] = None => OldEvents(fd)' = {}
    BY <1>1, <1>7, <1>8 DEF FdInv
  <2> QED BY <1>1, <1>5, <1>6, <1>8, <1>12, <1>13, <2>1, <2>2 DEF FdInv
<1> QED BY <1>4, <1>9, <1>11, <1>14 DEF KernelInv

LEMMA ReinitKeepsKernel ==
  ASSUME IInv, MapInv', evmap_reinit_
  PROVE  KernelInv'
<1>1. UNCHANGED <<uses_changelist, fdtab, map, phase, applied>> /\ phase = "run"
  BY DEF evmap_reinit_
<1>2. \A fd \in Fds : OldEvents(fd)' = OldEvents(fd) /\ Wanted(fd)' = Wanted(fd)
  BY <1>1 DEF OldEvents, Wanted, EventsOn, map
<1>3. ModeInv'
  <2>1. ~uses_changelist => UNCHANGED chl
    BY DEF evmap_reinit_
  <2> QED BY <1>1, <2>1 DEF IInv, KernelInv, ModeInv, chl
<1>4. ASSUME NEW fd \in Fds PROVE FdInv(fd)'
  <2>0. FdInv(fd) /\ fdtab[fd] \in Files \cup {None}
    BY DEF IInv, KernelInv, MapInv, TypeOK
  <2>1. /\ ReinitChange(fd) \in ChangeRec /\ ReinitChange(fd).fd = fd /\ ReinitChange(fd).old = {}
        /\ \A k \in Conds : /\ ReinitChange(fd).chg[k].op = IF k \in OldEvents(fd) THEN "add" ELSE "none"
                            /\ ReinitChange(fd).chg[k].et <=>
                                 (k \in OldEvents(fd) /\ \E e \in EventsOn(fd) : EvET[e])
    BY ReinitChangeTyped DEF ReinitChange, Change, NoChange
  <2>2. Keep(ReinitChange(fd)) = OldEvents(fd) /\ OldEvents(fd) \in SUBSET Conds
    BY <2>1 DEF Keep, OldEvents
  <2>3. CASE uses_changelist
    <3>1. ep' = [m \in Members |-> {}]
      BY <2>3 DEF evmap_reinit_
    <3>2. \A f \in Files : ep'[<<f, fd>>] = {}
      BY <3>1 DEF Members
    <3>3. Item(ep, fd)' = {}
      BY <1>1, <2>0, <3>2 DEF Item
    <3>4. idxplus1'[fd] # 0 /\ changes'[idxplus1'[fd]] = ReinitChange(fd)
      BY <2>3, ReinitChangelist
    <3>5. ~Done(fd)'
      BY <1>1, <3>4 DEF Done
    <3>6. OldEvents(fd) # {} => ((\E e \in EventsOn(fd) : EvET[e]) <=> Trig(fd))
      <4>1. \A e \in EventsOn(fd) : e \in Events /\ EvFd[e] = fd
        BY DEF IInv, MapInv, TypeOK, EventsOn
      <4>2. OneTrigger
        BY <2>3 DEF IInv, KernelInv, ModeInv
      <4>3. OldEvents(fd) # {} => EventsOn(fd) # {}
        BY WantedFacts DEF IInv, WantedShape
      <4> QED BY <4>1, <4>2, <4>3 DEF OneTrigger, Trig
    <3>7. Leads(fd, ReinitChange(fd))'
      <4>1. \A k \in Conds : ReinitChange(fd).chg[k].et <=> (ReinitChange(fd).chg[k].op # "none" /\ Trig(fd))
        BY <2>1, <3>6
      <4>2. PICK c : c = ReinitChange(fd)
        OBVIOUS
      <4>3. ReinitChange(fd)' = ReinitChange(fd)
        BY <1>1, <1>2 DEF ReinitChange, EventsOn, map
      <4>4. Leads(fd, c)'
        BY <1>2, <2>1, <2>2, <3>3, <4>1, <4>2 DEF Leads
      <4> QED BY <4>2, <4>3, <4>4
    <3>8. ReinitChange(fd)' = ReinitChange(fd)
      BY <1>1, <1>2 DEF ReinitChange, EventsOn, map
    <3> QED BY <1>1, <1>2, <2>0, <2>3, <3>2, <3>4, <3>5, <3>7, <3>8 DEF FdInv
  <2>4. CASE ~uses_changelist
    <3> DEFINE K == [m \in Members |-> {}]
               r == epoll_apply_one_change(K, ReinitChange(fd))
    <3>1. \A m \in Members : ep'[m] = epoll_apply_one_change(K, ReinitChange(m[2])).ep[m]
      BY <2>4, ReinitDirect DEF IInv, MapInv
    <3>2. \A f \in Files : ep'[<<f, fd>>] = r.ep[<<f, fd>>]
      BY <3>1 DEF Members
    <3>3. K \in [Members -> Sets]
      BY DEF Sets
    <3>4. /\ \A m \in Members : m # <<fdtab[fd], fd>> => r.ep[m] = K[m]
          /\ ~Watchable(fd) => r.ep = K
      <4> HIDE DEF K
      <4>1. ReinitChange(fd) \in ChangeRec /\ ReinitChange(fd).fd = fd
        BY <2>1
      <4> QED BY <3>3, <4>1, ApplyElsewhere DEF IInv, MapInv
    <3>5. \A f \in Files : f # fdtab[fd] \/ ~Watchable(fd) => ep'[<<f, fd>>] = {}
      BY <3>2, <3>4 DEF Members
    <3>6. \A f \in Files : ep'[<<f, fd>>] # {} => fdtab'[fd] = f /\ f \notin Unpollable
      BY <1>1, <3>5 DEF Watchable, Pollable
    <3>7. Item(ep, fd)' = Wanted(fd)
      <4>1. CASE ~Watchable(fd)
        <5>1. Item(ep, fd)' = {}
          BY <1>1, <2>0, <3>5, <4>1 DEF Item
        <5>2. Item(ep, fd) = {}
          BY <2>0, <4>1 DEF FdInv, Item, Watchable, Pollable
        <5> QED BY <2>0, <2>4, <5>1, <5>2 DEF FdInv
      <4>2. CASE Watchable(fd)
        <5>1. fdtab[fd] \in Files /\ <<fdtab[fd], fd>> \in Members /\ fdtab[fd] # None
          BY <2>0, <4>2 DEF Watchable, Members
        <5>2. Item(ep, fd)' = r.ep[<<fdtab[fd], fd>>]
          BY <1>1, <3>2, <5>1 DEF Item
        <5>3. LET op == epoll_op_table(ReinitChange(fd)) IN
              /\ op = "NONE" => r.ep[<<fdtab[fd], fd>>] = {}
              /\ op = "ADD" => r.ep[<<fdtab[fd], fd>>] = Evs(ReinitChange(fd))
          BY <2>1, <3>3, <4>2, <5>1, ApplyHere DEF IInv, MapInv
        <5>4. epoll_op_table(ReinitChange(fd)) = IF OldEvents(fd) = {} THEN "NONE" ELSE "ADD"
          BY <2>1, <2>2 DEF epoll_op_table
        <5>5. OldEvents(fd) # {} =>
                Evs(ReinitChange(fd)) = OldEvents(fd) \cup ETif(\E e \in EventsOn(fd) : EvET[e])
          BY <2>1, <2>2 DEF Evs, ETif
        <5>6. Wanted(fd) = OldEvents(fd) \cup ETif(\E e \in EventsOn(fd) : EvET[e])
          BY WantedFromCounts DEF IInv, MapInv, ETif
        <5>7. OldEvents(fd) = {} => Wanted(fd) = {}
          BY WantedFacts DEF IInv, WantedShape
        <5> HIDE DEF r
        <5> QED BY <5>2, <5>3, <5>4, <5>5, <5>6, <5>7
      <4> QED BY <4>1, <4>2
    <3> QED BY <1>1, <1>2, <2>0, <2>4, <3>6, <3>7 DEF FdInv
  <2> QED BY <2>3, <2>4
<1> QED BY <1>3, <1>4 DEF KernelInv

\* A descriptor that is opened or duplicated finds nothing of an earlier one, and what waits
\* for it in the changelist deletes what the earlier one had.
LEMMA OpenKeepsKernel ==
  ASSUME IInv, MapInv', NEW fd \in Fds, fdtab[fd] = None, NEW f \in Files,
         fdtab' = [fdtab EXCEPT ![fd] = f],
         uses_changelist => \A g \in Fds : fdtab[g] # f,
         UNCHANGED <<uses_changelist, ep, map, chl, disp>>
  PROVE  KernelInv' /\ \A g \in Fds : Item(ep, g)' = Item(ep, g)
<1>0. \A g \in Fds : fdtab[g] \in Files \cup {None} /\ FdInv(g)
  BY DEF IInv, KernelInv, MapInv, TypeOK
<1>1. fdtab'[fd] = f /\ \A g \in Fds \ {fd} : fdtab'[g] = fdtab[g]
  BY DEF IInv, MapInv, TypeOK
<1>2. ModeInv'
  BY <1>1 DEF IInv, KernelInv, ModeInv, chl
<1>3. \A g \in Fds : /\ OldEvents(g)' = OldEvents(g) /\ Wanted(g)' = Wanted(g)
                     /\ Done(g)' <=> Done(g)
  BY DEF OldEvents, Wanted, EventsOn, map, Done, chl, disp
<1>4. \A g \in Fds \ {fd} : FdInv(g)'
  BY <1>0, <1>1, <1>3, SameFd DEF chl
<1>5. f # None /\ \A h \in Files : ep[<<h, fd>>] = {}
  BY <1>0, ConstantsAssumption DEF FdInv
<1>6. Item(ep, fd) = {} /\ Item(ep, fd)' = {}
  BY <1>1, <1>5 DEF Item
<1>7. OldEvents(fd) = {} /\ Wanted(fd) = {}
  BY <1>0, WantedFacts DEF IInv, FdInv, WantedShape
<1>8. ASSUME NEW c \in ChangeRec, Leads(fd, c) PROVE Leads(fd, c)'
  <2>1. Keep(c) = {}
    BY <1>7, <1>8 DEF Leads
  <2>2. c.old \subseteq Conds /\ \A k \in Conds : k \in c.old => c.chg[k].op # "none"
    BY <2>1 DEF Keep, ChangeRec
  <2>3. Item(ep, fd)' = {} /\ OldEvents(fd)' = OldEvents(fd)
    BY <1>3, <1>6
  <2> QED BY <1>8, <2>2, <2>3 DEF Leads
<1>9. FdInv(fd)'
  <2>1. ~Done(fd) => changes[idxplus1[fd]] \in ChangeRec
    BY DEF Done, IInv, MapInv, ChangelistConsistent, ChangesTyped
  <2> QED BY <1>0, <1>1, <1>3, <1>5, <1>6, <1>7, <1>8, <2>1 DEF FdInv, chl
<1>10. \A g \in Fds : Item(ep, g)' = Item(ep, g)
  BY <1>1, <1>6 DEF Item
<1> QED BY <1>2, <1>4, <1>9, <1>10 DEF KernelInv

LEMMA CloseKeepsKernel ==
  ASSUME IInv, MapInv', NEW fd \in Fds, close(fd)
  PROVE  /\ KernelInv' /\ Wanted(fd) = {} /\ Item(ep, fd)' = {}
         /\ \A g \in Fds \ {fd} : Item(ep, g)' = Item(ep, g)
<1>0. \A g \in Fds : fdtab[g] \in Files \cup {None} /\ FdInv(g)
  BY DEF IInv, KernelInv, MapInv, TypeOK
<1>1. /\ fdtab'[fd] = None /\ fdtab[fd] # None /\ \A g \in Fds \ {fd} : fdtab'[g] = fdtab[g]
      /\ UNCHANGED <<uses_changelist, map, chl, disp>>
  BY DEF close, IInv, MapInv, TypeOK
<1>2. ModeInv'
  BY <1>1 DEF IInv, KernelInv, ModeInv, chl
<1>3. \A g \in Fds : /\ OldEvents(g)' = OldEvents(g) /\ Wanted(g)' = Wanted(g)
                     /\ Done(g)' <=> Done(g)
  BY <1>1 DEF OldEvents, Wanted, EventsOn, map, Done, chl, disp
<1>4. OldEvents(fd) = {} /\ Wanted(fd) = {}
  BY WantedFacts DEF close, IInv, WantedShape
<1>5. \A g \in Fds \ {fd} : \A f \in Files : ep'[<<f, g>>] = ep[<<f, g>>]
  <2>1. CASE \E g \in Fds \ {fd} : fdtab[g] = fdtab[fd]
    BY <2>1 DEF close
  <2>2. CASE \A g \in Fds \ {fd} : fdtab[g] # fdtab[fd]
    <3>1. ep' = [m \in Members |-> IF m[1] = fdtab[fd] THEN {} ELSE ep[m]]
      BY <2>2 DEF close
    <3>2. \A g \in Fds \ {fd}, f \in Files : ep'[<<f, g>>] = IF f = fdtab[fd] THEN {} ELSE ep[<<f, g>>]
      BY <3>1 DEF Members
    <3>3. \A g \in Fds \ {fd} : ep[<<fdtab[fd], g>>] = {}
      BY <1>0, <1>1, <2>2 DEF FdInv
    <3> QED BY <3>2, <3>3
  <2> QED BY <2>1, <2>2
<1>6. \A f \in Files : ep'[<<f, fd>>] = {}
  <2>1. CASE \E g \in Fds \ {fd} : fdtab[g] = fdtab[fd]
    <3>1. ~uses_changelist
      BY <1>1, <2>1 DEF IInv, KernelInv, ModeInv
    <3>2. ep[<<fdtab[fd], fd>>] = {}
      BY <1>0, <1>1, <1>4, <3>1 DEF FdInv, Item
    <3> QED BY <1>0, <2>1, <3>2 DEF close, FdInv
  <2>2. CASE \A g \in Fds \ {fd} : fdtab[g] # fdtab[fd]
    <3>1. ep' = [m \in Members |-> IF m[1] = fdtab[fd] THEN {} ELSE ep[m]]
      BY <2>2 DEF close
    <3>2. \A f \in Files : ep'[<<f, fd>>] = IF f = fdtab[fd] THEN {} ELSE ep[<<f, fd>>]
      BY <3>1 DEF Members
    <3> QED BY <1>0, <3>2 DEF FdInv
  <2> QED BY <2>1, <2>2
<1>7. \A g \in Fds \ {fd} : FdInv(g)'
  BY <1>0, <1>1, <1>3, <1>5, SameFd DEF chl
<1>8. Item(ep, fd)' = {} /\ ~Watchable(fd)'
  BY <1>1 DEF Item, Watchable
<1>9. ASSUME NEW c, Leads(fd, c) PROVE Leads(fd, c)'
  BY <1>3, <1>8, <1>9 DEF Leads
<1>10. FdInv(fd)'
  BY <1>0, <1>1, <1>3, <1>4, <1>6, <1>8, <1>9 DEF FdInv, chl
<1>11. \A g \in Fds \ {fd} : Item(ep, g)' = Item(ep, g)
  BY <1>0, <1>1, <1>5 DEF Item
<1> QED BY <1>2, <1>4, <1>7, <1>8, <1>10, <1>11 DEF KernelInv

\* The application's open and dup.
LEMMA OpenOrDup ==
  ASSUME IInv, MapInv', NEW fd \in Fds,
         (\E f \in Files : open(fd, f)) \/ (\E g \in Fds : dup(fd, g))
  PROVE  KernelInv' /\ \A g \in Fds : Item(ep, g)' = Item(ep, g)
<1>1. ASSUME NEW f \in Files, open(fd, f)
      PROVE  KernelInv' /\ \A g \in Fds : Item(ep, g)' = Item(ep, g)
  BY <1>1, OpenKeepsKernel DEF open
<1>2. ASSUME NEW g \in Fds, dup(fd, g)
      PROVE  KernelInv' /\ \A h \in Fds : Item(ep, h)' = Item(ep, h)
  <2>1. PICK f \in Files : f = fdtab[fd]
    BY <1>2 DEF dup, IInv, MapInv, TypeOK
  <2> QED BY <1>2, <2>1, OpenKeepsKernel DEF dup
<1> QED BY <1>1, <1>2

LEMMA NextKeepsKernel ==
  ASSUME IInv, MapInv', [Next]_vars
  PROVE  KernelInv'
<1>1. ASSUME NEW fd \in Fds, (\E f \in Files : open(fd, f)) \/ (\E g \in Fds : dup(fd, g)) \/ close(fd)
      PROVE  KernelInv'
  BY <1>1, OpenOrDup, CloseKeepsKernel
<1> QED BY <1>1, AddKeepsKernel, DelKeepsKernel, LoopKeepsKernel, ApplyKeepsKernel,
           ReinitKeepsKernel DEF Next

\* What the application owes the changelist: it does not use one descriptor both
\* edge-triggered and level-triggered.
OneTriggerPerFd == TRUE \in ChangelistModes => OneTrigger

LEMMA InitKernelInv ==
  ASSUME OneTriggerPerFd, Init
  PROVE  KernelInv
<1>1. ModeInv
  BY ConstantsAssumption DEF Init, ModeInv, OneTriggerPerFd
<1>2. ASSUME NEW fd \in Fds PROVE FdInv(fd)
  <2>1. OldEvents(fd) = {} /\ Wanted(fd) = {}
    BY DEF Init, OldEvents, Wanted, EventsOn
  <2>2. Item(ep, fd) = {} /\ \A f \in Files : ep[<<f, fd>>] = {}
    BY DEF Init, Item, Members
  <2>3. Done(fd)
    BY DEF Init, Done
  <2> QED BY <2>1, <2>2, <2>3 DEF FdInv
<1> QED BY <1>1, <1>2 DEF KernelInv

LEMMA NextKeepsIInv == IInv /\ [Next]_vars => IInv'
<1> SUFFICES ASSUME IInv, [Next]_vars PROVE IInv'
  OBVIOUS
<1>1. MapInv'
  BY NextKeepsMap DEF IInv
<1>2. KernelInv'
  BY <1>1, NextKeepsKernel
<1> QED BY <1>1, <1>2 DEF IInv

LEMMA IInvAgrees == IInv => LayersAgree
<1> SUFFICES ASSUME IInv PROVE KernelWatchesRegistered
  BY DEF IInv, MapInv, LayersAgree
<1> SUFFICES ASSUME phase = "wait", NEW fd \in Fds, idxplus1[fd] = 0
             PROVE  /\ fdtab[fd] # None /\ Pollable(fd) => Item(ep, fd) = Wanted(fd)
                    /\ \A f \in Files : f # fdtab[fd] => ep[<<f, fd>>] = {}
  BY DEF KernelWatchesRegistered
<1>1. Done(fd)
  BY DEF Done
<1>2. FdInv(fd)
  BY DEF IInv, KernelInv
<1> QED BY <1>1, <1>2 DEF FdInv, Watchable

LEMMA SpecKeepsIInv == ASSUME OneTriggerPerFd PROVE Spec => []IInv
<1>1. Init => IInv
  BY InitMapInv, InitKernelInv DEF IInv
<1> QED BY <1>1, NextKeepsIInv, PTL DEF Spec

\* The counters and lists of evmap.c, the entries of the changelist, the kernel's epoll set and
\* the activations agree for any events, descriptors and files, through additions, deletions,
\* batches, failures of epoll_ctl, forks, and the closing, reuse and duplication of descriptors.
THEOREM LayersAlwaysAgree == ASSUME OneTriggerPerFd PROVE Spec => []LayersAgree
BY SpecKeepsIInv, IInvAgrees, PTL

------------------------------------------------------------------------------
(* The implementation of Interest.                                         *)

\* Files that epoll refuses: without the changelist their events are refused too.
Watched == TRUE \in ChangelistModes => Unpollable = {}

\* What EPERM would keep out of a batch is not there.
LEMMA EnterIsExact ==
  ASSUME IInv, epoll_wait, Watched, NEW fd \in Fds
  PROVE  Item(ep, fd) = Wanted(fd)
<1>1. FdInv(fd) /\ ModeInv
  BY DEF IInv, KernelInv
<1>2. CASE ~uses_changelist
  BY <1>1, <1>2 DEF FdInv
<1>3. CASE uses_changelist
  <2>1. Done(fd)
    <3>1. idxplus1[fd] # 0 => idxplus1[fd] \in 1 .. Len(changes)
      BY DEF IInv, MapInv, ChangelistConsistent, ChangesTyped
    <3> QED BY <3>1 DEF epoll_wait, Done
  <2>2. uses_changelist = TRUE
    BY <1>3 DEF IInv, MapInv, TypeOK
  <2>3. Unpollable = {}
    BY <1>1, <2>2 DEF ModeInv, Watched
  <2>4. CASE fdtab[fd] = None
    <3>1. Wanted(fd) = {}
      BY <1>1, <2>4, WantedFacts DEF IInv, FdInv, WantedShape
    <3> QED BY <2>4, <3>1 DEF Item
  <2>5. CASE fdtab[fd] # None
    BY <1>1, <1>3, <2>1, <2>3, <2>5 DEF FdInv, Watchable, Pollable
  <2> QED BY <2>4, <2>5
<1> QED BY <1>2, <1>3

Wants == [fd \in Fds |-> Wanted(fd)]
Watches == [fd \in Fds |-> Item(ep, fd)]

\* An addition or a deletion registers; it is passed on at once or kept.
LEMMA RegisterStep ==
  ASSUME IInv, IInv', NEW e \in Events, evmap_io_add_(e) \/ evmap_io_del_(e)
  PROVE  Kernel!Next
<1>0. PICK fd \in Fds : fd = EvFd[e]
  BY ConstantsAssumption
<1>1. \A g \in Fds \ {fd} : Wanted(g)' = Wanted(g)
  <2>1. CASE evmap_io_add_(e)
    BY <1>0, <2>1, AddEffect DEF IInv
  <2>2. CASE evmap_io_del_(e)
    BY <1>0, <2>2, DelEffect DEF IInv
  <2> QED BY <2>1, <2>2
<1>2. UNCHANGED <<uses_changelist, fdtab, phase>>
  BY DEF evmap_io_add_, evmap_io_del_, disp
<1>3. \A g \in Fds : FdInv(g) /\ FdInv(g)'
  BY DEF IInv, KernelInv
<1>4. Wants' = [Wants EXCEPT ![fd] = Wanted(fd)']
  BY <1>1 DEF Wants
<1>5. Watches' \in {Watches, [Watches EXCEPT ![fd] = Wanted(fd)']}
  <2>1. CASE uses_changelist
    <3>1. ep' = ep
      BY <2>1 DEF evmap_io_add_, evmap_io_del_, BackendAdd, BackendDel
    <3> QED BY <1>2, <3>1 DEF Watches, Item
  <2>2. CASE ~uses_changelist
    <3>1. \A g \in Fds : Item(ep, g)' = Wanted(g)' /\ Item(ep, g) = Wanted(g)
      BY <1>2, <1>3, <2>2 DEF FdInv
    <3>2. \A g \in Fds : Item(ep, g)' = IF g = fd THEN Wanted(fd)' ELSE Item(ep, g)
      BY <1>1, <3>1
    <3>3. Watches' = [Watches EXCEPT ![fd] = Wanted(fd)']
      BY <3>2 DEF Watches
    <3> QED BY <3>3
  <2> QED BY <2>1, <2>2
<1>6. Wanted(fd)' \in SUBSET (Conds \cup {"ET"})
  <2>1. EvEvents \in [Events -> SUBSET Conds] /\ inserted' \in SUBSET Events
    BY ConstantsAssumption DEF IInv, MapInv, TypeOK
  <2> QED BY <2>1 DEF Wanted, EventsOn
<1>7. Kernel!Register(fd, Wanted(fd)')
  BY <1>2, <1>4, <1>5 DEF Kernel!Register, Wants, Watches
<1> QED BY <1>6, <1>7 DEF Kernel!Next

\* One change of a batch brings its descriptor up to date, or cannot.
LEMMA UpdateStep ==
  ASSUME IInv, IInv', epoll_apply_changes
  PROVE  Kernel!Next \/ (Wants' = Wants /\ Watches' = Watches /\ UNCHANGED phase)
<1> DEFINE c == changes[applied + 1]
<1>1. /\ UNCHANGED <<uses_changelist, fdtab, map, chl, phase>> /\ phase = "apply"
      /\ applied' = applied + 1 /\ applied \in Nat /\ ep' = epoll_apply_one_change(ep, c).ep
  BY DEF epoll_apply_changes, IInv, MapInv, TypeOK
<1>2. applied + 1 \in DOMAIN changes
  BY DEF epoll_apply_changes, IInv, MapInv, TypeOK, ChangesTyped
<1>3. c \in ChangeRec /\ idxplus1[c.fd] = applied + 1
  <2>1. c \in ChangeRec
    BY <1>2 DEF IInv, MapInv, ChangesTyped
  <2>2. idxplus1[c.fd] = applied + 1
    BY <1>2 DEF IInv, MapInv, ChangelistConsistent
  <2> QED BY <2>1, <2>2
<1>4. PICK fd \in Fds : fd = c.fd
  BY <1>3 DEF ChangeRec
<1> HIDE DEF c
<1>5. ep \in [Members -> Sets]
  BY DEF IInv, MapInv, TypeOK, Sets
<1>6. /\ \A m \in Members : m # <<fdtab[fd], fd>> => ep'[m] = ep[m]
      /\ ~Watchable(fd) => ep' = ep
  BY <1>1, <1>3, <1>4, <1>5, ApplyElsewhere DEF IInv, MapInv
<1>7. \A g \in Fds : Wanted(g)' = Wanted(g)
  BY <1>1 DEF Wanted, EventsOn, map
<1>8. Wants' = Wants
  BY <1>7 DEF Wants
<1>9. \A g \in Fds : fdtab[g] \in Files \cup {None}
  BY DEF IInv, MapInv, TypeOK
<1>10. CASE ~Watchable(fd)
  <2>1. Watches' = Watches
    BY <1>1, <1>6, <1>10 DEF Watches, Item
  <2> QED BY <1>1, <1>8, <2>1
<1>11. CASE Watchable(fd)
  <2>1. \A g \in Fds \ {fd} : Item(ep, g)' = Item(ep, g)
    BY <1>1, <1>6, <1>9 DEF Item, Members
  <2>2. Watchable(fd)' /\ Done(fd)'
    BY <1>1, <1>3, <1>4, <1>11 DEF Watchable, Pollable, Done, chl
  <2>3. Item(ep, fd)' = Wanted(fd)
    BY <1>7, <2>2 DEF IInv, KernelInv, FdInv
  <2>4. Watches' = [Watches EXCEPT ![fd] = Wanted(fd)]
    BY <2>1, <2>3 DEF Watches
  <2>5. Kernel!Update(fd)
    BY <1>1, <1>8, <2>4 DEF Kernel!Update, Wants, Watches
  <2> QED BY <2>5 DEF Kernel!Next
<1> QED BY <1>10, <1>11

\* A child process starts from nothing or is told everything at once.
LEMMA RestartStep ==
  ASSUME IInv, IInv', evmap_reinit_
  PROVE  Kernel!Next
<1>1. UNCHANGED <<uses_changelist, fdtab, map, phase>> /\ phase = "run"
  BY DEF evmap_reinit_
<1>2. \A g \in Fds : Wanted(g)' = Wanted(g) /\ fdtab[g] \in Files \cup {None} /\ FdInv(g)'
  BY <1>1 DEF Wanted, EventsOn, map, IInv, MapInv, TypeOK, KernelInv
<1>3. Wants' = Wants
  BY <1>2 DEF Wants
<1>4. Watches' \in {[fd \in Fds |-> {}], Wants}
  <2>1. CASE uses_changelist
    <3>1. ep' = [m \in Members |-> {}]
      BY <2>1 DEF evmap_reinit_
    <3>2. \A g \in Fds : Item(ep, g)' = {}
      BY <1>1, <1>2, <3>1 DEF Item, Members
    <3> QED BY <3>2 DEF Watches
  <2>2. CASE ~uses_changelist
    <3>1. \A g \in Fds : Item(ep, g)' = Wanted(g)
      BY <1>1, <1>2, <2>2 DEF FdInv
    <3> QED BY <3>1 DEF Watches, Wants
  <2> QED BY <2>1, <2>2
<1>5. Kernel!Restart
  BY <1>1, <1>3, <1>4 DEF Kernel!Restart, Wants, Watches
<1> QED BY <1>5 DEF Kernel!Next

\* Closing a descriptor, and the other steps that Interest does not see.
LEMMA CloseStep ==
  ASSUME IInv, IInv', NEW fd \in Fds, close(fd)
  PROVE  Kernel!Next
<1>1. /\ Wanted(fd) = {} /\ Item(ep, fd)' = {}
      /\ \A g \in Fds \ {fd} : Item(ep, g)' = Item(ep, g)
  BY CloseKeepsKernel DEF IInv
<1>2. UNCHANGED <<map, phase>>
  BY DEF close, disp
<1>3. Wants' = Wants /\ Wants[fd] = {}
  BY <1>1, <1>2 DEF Wants, Wanted, EventsOn, map
<1>4. Watches' = [Watches EXCEPT ![fd] = {}]
  BY <1>1 DEF Watches
<1>5. Kernel!Close(fd)
  BY <1>2, <1>3, <1>4 DEF Kernel!Close, Wants, Watches
<1> QED BY <1>5 DEF Kernel!Next

LEMMA LoopStep ==
  ASSUME IInv, IInv', Watched,
         \/ \E e \in Events : run_callback(e)
         \/ dispatch_start \/ epoll_wait \/ dispatch_locked \/ dispatch_return
         \/ wait_return({}) \/ (\E r \in Reports : wait_return({r}))
         \/ \E r \in reports : evmap_io_active_(r)
         \/ UNCHANGED vars
  PROVE  Kernel!Next \/ (Wants' = Wants /\ Watches' = Watches /\ (phase = "wait")' = (phase = "wait"))
<1>1. UNCHANGED <<fdtab, ep, map>>
  BY DEF run_callback, dispatch_start, epoll_wait, dispatch_locked, dispatch_return, wait_return,
         evmap_io_active_, disp, vars
<1>2. Wants' = Wants /\ Watches' = Watches
  BY <1>1 DEF Wants, Watches, Wanted, EventsOn, Item, map
<1>3. CASE epoll_wait
  <2>1. \A fd \in Fds : Item(ep, fd) = Wanted(fd)
    BY <1>3, EnterIsExact
  <2>2. Watches = Wants
    BY <2>1 DEF Watches, Wants
  <2>3. Kernel!Enter
    BY <1>2, <1>3, <2>2 DEF epoll_wait, Kernel!Enter, Wants, Watches
  <2> QED BY <2>3 DEF Kernel!Next
<1>4. ASSUME NEW R, wait_return(R) PROVE Kernel!Next
  <2>1. Kernel!Leave
    BY <1>2, <1>4 DEF wait_return, Kernel!Leave, Wants, Watches
  <2> QED BY <2>1 DEF Kernel!Next
<1>5. CASE \/ \E e \in Events : run_callback(e)
           \/ dispatch_start \/ dispatch_locked \/ dispatch_return
           \/ \E r \in reports : evmap_io_active_(r)
           \/ UNCHANGED vars
  <2>1. (phase' = "wait") = (phase = "wait")
    BY <1>5 DEF run_callback, dispatch_start, dispatch_locked, dispatch_return, evmap_io_active_,
                disp, vars
  <2> QED BY <1>2, <2>1
<1> QED BY <1>3, <1>4, <1>5

\* Changes are batched, retried as other operations, overtaken by the reuse of descriptors and
\* done again after a fork, but for any events, descriptors and files the map, the changelist
\* and the backend do no more and no less than Interest: whenever the loop enters its wait the
\* kernel watches exactly what is registered.
THEOREM ImplementsInterest ==
  ASSUME OneTriggerPerFd, Watched
  PROVE  Spec => KernelSpec
<1>1. Init => Kernel!Init
  BY DEF Init, Kernel!Init, Wanted, EventsOn, Item
<1>2. IInv /\ IInv' /\ [Next]_vars => [Kernel!Next]_<<Wants, Watches, phase = "wait">>
  <2> SUFFICES ASSUME IInv, IInv', [Next]_vars
               PROVE  Kernel!Next \/ (Wants' = Wants /\ Watches' = Watches
                                      /\ (phase = "wait")' = (phase = "wait"))
    BY Zenon
  <2>1. ASSUME NEW fd \in Fds, (\E f \in Files : open(fd, f)) \/ (\E g \in Fds : dup(fd, g))
        PROVE  Wants' = Wants /\ Watches' = Watches /\ phase' = phase
    <3>1. \A g \in Fds : Item(ep, g)' = Item(ep, g)
      BY <2>1, OpenOrDup DEF IInv
    <3> QED BY <2>1, <3>1 DEF open, dup, Wants, Watches, Wanted, EventsOn, map, disp
  <2>2. ASSUME epoll_apply_changes
        PROVE  Kernel!Next \/ (Wants' = Wants /\ Watches' = Watches
                               /\ (phase = "wait")' = (phase = "wait"))
    BY <2>2, UpdateStep
  <2> QED BY <2>1, <2>2, RegisterStep, RestartStep, CloseStep, LoopStep DEF Next
<1>3. Spec => []IInv
  BY SpecKeepsIInv
<1> QED BY <1>1, <1>2, <1>3, PTL DEF Spec, KernelSpec, Kernel!Spec, Wants, Watches

=============================================================================
