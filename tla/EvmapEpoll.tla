----------------------------- MODULE EvmapEpoll -----------------------------
(***************************************************************************)
(* The fd map and the changelist (evmap.c), the epoll backend (epoll.c and *)
(* its operation table) and the kernel's epoll set, for descriptors that   *)
(* the application opens, duplicates, closes and reuses.                   *)
(*                                                                         *)
(* Calls into the map happen under th_base_lock: in a callback of the loop *)
(* thread ("run") or in another thread while the lock is free ("wait",     *)
(* "ready").  Descriptors can be opened and closed at any time, but an     *)
(* application deletes the events of a descriptor before it closes it.     *)
(***************************************************************************)
EXTENDS Naturals, Sequences, FiniteSets

CONSTANTS
  Events,      \* the I/O events
  EvFd,        \* ev_fd
  EvEvents,    \* ev_events: which of Conds
  EvET,        \* whether ev_events has EV_ET
  Fds, Files,  \* descriptors and open file descriptions
  Unpollable,  \* files for which epoll_ctl gives EPERM
  None,        \* a closed descriptor
  ChangelistModes, \* whether EVENT_BASE_FLAG_EPOLL_USE_CHANGELIST may be set, may be clear
  Dup,         \* whether the application duplicates descriptors
  MaxPerFd,    \* 0xffff: how many events one fd may have per condition
  InitialNevent, MaxNevent  \* INITIAL_NEVENT, MAX_NEVENT

Conds == {"READ", "WRITE", "CLOSED"}
Whats == {"IN", "OUT", "RDHUP", "ERR", "HUP"}

ASSUME ConstantsAssumption ==
  /\ IsFiniteSet(Events) /\ IsFiniteSet(Fds) /\ None \notin Files /\ Unpollable \subseteq Files
  /\ EvFd \in [Events -> Fds] /\ EvET \in [Events -> BOOLEAN]
  /\ EvEvents \in [Events -> (SUBSET Conds) \ {{}}]
  /\ ChangelistModes \subseteq BOOLEAN /\ Dup \in BOOLEAN /\ MaxPerFd \in Nat \ {0}
  /\ InitialNevent \in Nat \ {0} /\ MaxNevent \in Nat

VARIABLES
  uses_changelist, \* the backend is epollops_changelist; fixed by event_base_new_with_config
  fdtab,     \* the process's descriptor table
  ep,        \* the epoll set: what is watched for <<file, fd>>, {} if it is no member
  inserted,  \* the events on the lists of the map
  nev,       \* nread, nwrite and nclose of each fd
  changes, idxplus1,  \* the changelist, and where an fd's entry in it is
  phase,     \* where the loop thread is
  applied,   \* i of the loop in epoll_apply_changes
  nevents,   \* size of the array given to epoll_wait
  reports,   \* what epoll_wait returned and is not yet looked at: {[fd, what]}
  active     \* what the active events have been activated with

map == <<inserted, nev>>
chl == <<changes, idxplus1>>
disp == <<phase, applied, nevents, reports>>
vars == <<uses_changelist, fdtab, ep, map, chl, disp, active>>

LockFree == phase \in {"run", "wait", "ready"}
EventsOn(fd) == {e \in inserted : EvFd[e] = fd}
Members == Files \X Fds
Item(K, fd) == IF fdtab[fd] = None THEN {} ELSE K[<<fdtab[fd], fd>>]

------------------------------------------------------------------------------
(* The kernel.                                                             *)

\* what epoll_ctl(op, fd) answers when the epoll set is K
Errno(K, op, fd) ==
  CASE fdtab[fd] = None -> "EBADF"
    [] fdtab[fd] \in Unpollable -> "EPERM"
    [] OTHER -> IF op = "ADD" THEN IF Item(K, fd) # {} THEN "EEXIST" ELSE "OK"
                ELSE IF Item(K, fd) = {} THEN "ENOENT" ELSE "OK"

\* the epoll set after a successful epoll_ctl
Ctl(K, op, fd, evs) ==
  [K EXCEPT ![<<fdtab[fd], fd>>] = IF op = "DEL" THEN {} ELSE evs]

------------------------------------------------------------------------------
(* epoll.c                                                                 *)

NoChange == [op |-> "none", et |-> FALSE]

\* epoll_op_table: what is left of old after the changes, and the operation
Keep(ch) ==
  {k \in Conds : ch.chg[k].op = "add" \/ (ch.chg[k].op # "del" /\ k \in ch.old)}

epoll_op_table(ch) ==
  IF \A k \in Conds : ch.chg[k].op = "none" THEN "NONE"
  ELSE IF \E k \in Conds : ch.chg[k].op = "add" THEN IF ch.old # {} THEN "MOD" ELSE "ADD"
  ELSE IF Keep(ch) # {} THEN "MOD" ELSE "DEL"

\* Mutant: MOD is not retried.
apply_without_retry(K, ch) ==
  LET op == epoll_op_table(ch)
      evs == Keep(ch) \cup (IF \E k \in Conds : ch.chg[k].et THEN {"ET"} ELSE {})
  IN IF op = "NONE" THEN [ok |-> TRUE, ep |-> K]
     ELSE IF Errno(K, op, ch.fd) = "OK" THEN [ok |-> TRUE, ep |-> Ctl(K, op, ch.fd, evs)]
     ELSE [ok |-> op = "DEL" /\ Errno(K, op, ch.fd) \in {"ENOENT", "EBADF", "EPERM"}, ep |-> K]

epoll_apply_one_change(K, ch) ==
  LET op == epoll_op_table(ch)
      err == Errno(K, op, ch.fd)
      evs == Keep(ch) \cup (IF \E k \in Conds : ch.chg[k].et THEN {"ET"} ELSE {})
  IN CASE op = "NONE" -> [ok |-> TRUE, ep |-> K]
       [] op # "NONE" /\ err = "OK" -> [ok |-> TRUE, ep |-> Ctl(K, op, ch.fd, evs)]
       [] op = "MOD" /\ err = "ENOENT" -> [ok |-> TRUE, ep |-> Ctl(K, "ADD", ch.fd, evs)]
       [] op = "ADD" /\ err = "EEXIST" -> [ok |-> TRUE, ep |-> Ctl(K, "MOD", ch.fd, evs)]
       [] op = "DEL" /\ err \in {"ENOENT", "EBADF", "EPERM"} -> [ok |-> TRUE, ep |-> K]
       [] OTHER -> [ok |-> FALSE, ep |-> K]

Change(fd, old, S, op, et) ==
  [fd |-> fd, old |-> old,
   chg |-> [k \in Conds |-> IF k \in S THEN [op |-> op, et |-> et] ELSE NoChange]]

\* epoll_nochangelist_add and epoll_nochangelist_del
epoll_nochangelist(op, fd, old, S, et) == epoll_apply_one_change(ep, Change(fd, old, S, op, et))

------------------------------------------------------------------------------
(* The changelist.                                                         *)

\* event_changelist_get_or_construct
ChangeIndex(fd) == IF idxplus1[fd] = 0 THEN Len(changes) + 1 ELSE idxplus1[fd]
GetChange(fd, old) ==
  IF idxplus1[fd] = 0 THEN Change(fd, old, {}, "none", FALSE) ELSE changes[idxplus1[fd]]
PutChange(fd, ch) ==
  /\ changes' = IF idxplus1[fd] = 0 THEN Append(changes, ch)
                ELSE [changes EXCEPT ![idxplus1[fd]] = ch]
  /\ idxplus1' = [idxplus1 EXCEPT ![fd] = ChangeIndex(fd)]

event_changelist_add_(fd, old, S, et) ==
  LET ch == GetChange(fd, old) IN
  PutChange(fd, [ch EXCEPT !.chg = [k \in Conds |->
    IF k \in S THEN [op |-> "add", et |-> et] ELSE @[k]]])

\* Mutant: a deletion cancels a pending addition whatever was there before.
changelist_del_cancels(fd, old, S, et) ==
  LET ch == GetChange(fd, old) IN
  PutChange(fd, [ch EXCEPT !.chg = [k \in Conds |->
    IF k \in S THEN IF ch.chg[k].op = "add" \/ k \notin ch.old THEN NoChange
                    ELSE [op |-> "del", et |-> et]
    ELSE @[k]]])

event_changelist_del_(fd, old, S, et) ==
  LET ch == GetChange(fd, old) IN
  PutChange(fd, [ch EXCEPT !.chg = [k \in Conds |->
    IF k \in S THEN IF k \notin ch.old THEN NoChange ELSE [op |-> "del", et |-> et]
    ELSE @[k]]])

------------------------------------------------------------------------------
(* The fd map.  The application calls event_add and event_del.             *)

OldEvents(fd) == {k \in Conds : nev[fd][k] > 0}

\* events of one fd are all edge-triggered or all level-triggered at a time
NoMix(e) == \A f \in EventsOn(EvFd[e]) : EvET[f] = EvET[e]

\* evsel->add when S is not empty; evmap_io_add_ inserts only if it succeeds
BackendAdd(e, old, S) ==
  \/ S = {} /\ UNCHANGED <<ep, chl>>
  \/ S # {} /\ uses_changelist /\ event_changelist_add_(EvFd[e], old, S, EvET[e]) /\ UNCHANGED ep
  \/ /\ S # {} /\ ~uses_changelist /\ UNCHANGED chl
     /\ LET r == epoll_nochangelist("add", EvFd[e], old, S, EvET[e]) IN r.ok /\ ep' = r.ep

\* evmap_io_del_ goes on whatever evsel->del returns
BackendDel(e, old, S) ==
  \/ S = {} /\ UNCHANGED <<ep, chl>>
  \/ S # {} /\ uses_changelist /\ event_changelist_del_(EvFd[e], old, S, EvET[e]) /\ UNCHANGED ep
  \/ /\ S # {} /\ ~uses_changelist /\ UNCHANGED chl
     /\ ep' = epoll_nochangelist("del", EvFd[e], old, S, EvET[e]).ep

\* Mutant: only the conditions that are new to the backend are counted.
add_counts_new_only(e) ==
  LET fd == EvFd[e]
      S == {k \in EvEvents[e] : nev[fd][k] = 0} IN
  /\ LockFree /\ e \notin inserted /\ fdtab[fd] # None /\ NoMix(e)
  /\ BackendAdd(e, OldEvents(fd), S)
  /\ nev' = [nev EXCEPT ![fd] = [k \in Conds |-> IF k \in S THEN @[k] + 1 ELSE @[k]]]
  /\ inserted' = inserted \cup {e}
  /\ UNCHANGED <<uses_changelist, fdtab, disp, active>>

\* evmap_io_add_; a call that returns -1 changes nothing
evmap_io_add_(e) ==
  LET fd == EvFd[e]
      S == {k \in EvEvents[e] : nev[fd][k] = 0} IN
  /\ LockFree /\ e \notin inserted /\ fdtab[fd] # None /\ NoMix(e)
  /\ \A k \in EvEvents[e] : nev[fd][k] < MaxPerFd
  /\ BackendAdd(e, OldEvents(fd), S)
  /\ nev' = [nev EXCEPT ![fd] = [k \in Conds |-> IF k \in EvEvents[e] THEN @[k] + 1 ELSE @[k]]]
  /\ inserted' = inserted \cup {e}
  /\ UNCHANGED <<uses_changelist, fdtab, disp, active>>

\* evmap_io_del_, called from event_del_nolock_, which also takes e off the active queue
evmap_io_del_(e) ==
  LET fd == EvFd[e]
      S == {k \in EvEvents[e] : nev[fd][k] = 1} IN
  /\ LockFree /\ e \in inserted
  /\ BackendDel(e, OldEvents(fd), S)
  /\ nev' = [nev EXCEPT ![fd] = [k \in Conds |-> IF k \in EvEvents[e] THEN @[k] - 1 ELSE @[k]]]
  /\ inserted' = inserted \ {e} /\ active' = [active EXCEPT ![e] = {}]
  /\ UNCHANGED <<uses_changelist, fdtab, disp>>

\* event_reinit in the child after a fork: a new epoll set, an empty changelist, and
\* evmap_io_reinit_iter_fn for every fd
evmap_reinit_ ==
  LET K == [m \in Members |-> {}]
      ET(fd) == \E e \in EventsOn(fd) : EvET[e]
      Ch(fd) == Change(fd, {}, OldEvents(fd), "add", ET(fd))
      slots == CHOOSE s \in [1 .. Cardinality(Fds) -> Fds] : {s[i] : i \in DOMAIN s} = Fds IN
  /\ phase = "run"
  /\ IF uses_changelist
     THEN /\ changes' = [i \in 1 .. Cardinality(Fds) |-> Ch(slots[i])]
          /\ idxplus1' = [fd \in Fds |-> CHOOSE i \in 1 .. Cardinality(Fds) : slots[i] = fd]
          /\ ep' = K
     ELSE /\ ep' = [m \in Members |-> epoll_apply_one_change(K, Ch(m[2])).ep[m]]
          /\ UNCHANGED chl
  /\ nevents' = InitialNevent
  /\ UNCHANGED <<uses_changelist, fdtab, map, phase, reports, active, applied>>

------------------------------------------------------------------------------
(* epoll_dispatch                                                          *)

dispatch_start ==
  /\ phase = "run" /\ phase' = "apply" /\ applied' = 0
  /\ UNCHANGED <<uses_changelist, fdtab, ep, map, chl, nevents, reports, active>>

\* one turn of the loop of epoll_apply_changes; its result is ignored
epoll_apply_changes ==
  /\ phase = "apply" /\ applied < Len(changes) /\ applied' = applied + 1
  /\ ep' = epoll_apply_one_change(ep, changes[applied + 1]).ep
  /\ UNCHANGED <<uses_changelist, fdtab, map, chl, phase, nevents, reports, active>>

\* Mutant: the entries of the fds still point into the list.
remove_all_keeps_index ==
  /\ phase = "apply" /\ applied = Len(changes) /\ changes' = <<>> /\ phase' = "wait"
  /\ UNCHANGED <<uses_changelist, fdtab, ep, map, idxplus1, applied, nevents, reports, active>>

\* event_changelist_remove_all_, the lock is released, epoll_wait begins
epoll_wait ==
  /\ phase = "apply" /\ applied = Len(changes)
  /\ idxplus1' = [fd \in Fds |-> IF \E i \in DOMAIN changes : changes[i].fd = fd
                                 THEN 0 ELSE idxplus1[fd]]
  /\ changes' = <<>> /\ phase' = "wait"
  /\ UNCHANGED <<uses_changelist, fdtab, ep, map, nevents, reports, active, applied>>

\* the conditions epoll may report for a member that is watched for evs
MayReport(evs, what) ==
  /\ what # {}
  /\ "IN" \in what => "READ" \in evs
  /\ "OUT" \in what => "WRITE" \in evs
  /\ "RDHUP" \in what => "CLOSED" \in evs

\* epoll_wait returns (at most nevents reports; none after a timeout or EINTR).  The array is
\* doubled at the end of epoll_dispatch, when it was full; that is decided by res, so here.
wait_return(R) ==
  /\ phase = "wait" /\ phase' = "ready" /\ Cardinality(R) =< nevents
  /\ \A r \in R : \E m \in Members : m[2] = r.fd /\ ep[m] # {} /\ MayReport(ep[m], r.what)
  /\ reports' = R
  /\ nevents' = IF Cardinality(R) = nevents /\ nevents < MaxNevent THEN nevents * 2 ELSE nevents
  /\ UNCHANGED <<uses_changelist, fdtab, ep, map, chl, active, applied>>

\* the lock is taken again
dispatch_locked ==
  /\ phase = "ready" /\ phase' = "report"
  /\ UNCHANGED <<uses_changelist, fdtab, ep, map, chl, nevents, reports, active, applied>>

\* what the loop of epoll_dispatch makes of a report
ReportedAs(what) ==
  IF "ERR" \in what \/ ("HUP" \in what /\ "RDHUP" \notin what) THEN {"READ", "WRITE"}
  ELSE {k \in Conds : <<k, TRUE>> \in {<<"READ", "IN" \in what>>, <<"WRITE", "OUT" \in what>>,
                                       <<"CLOSED", "RDHUP" \in what>>}}

\* Mutant: every event of the fd is activated with everything that was reported.
active_unmasked(r) ==
  /\ phase = "report" /\ r \in reports /\ reports' = reports \ {r}
  /\ active' = [e \in Events |-> IF e \in EventsOn(r.fd) THEN active[e] \cup ReportedAs(r.what)
                                 ELSE active[e]]
  /\ UNCHANGED <<uses_changelist, fdtab, ep, map, chl, phase, nevents, applied>>

\* Mutant: the epoll bits are passed on as they are.
active_unconverted(r) ==
  /\ phase = "report" /\ r \in reports /\ reports' = reports \ {r}
  /\ active' = [e \in Events |-> IF e \in EventsOn(r.fd) THEN active[e] \cup r.what ELSE active[e]]
  /\ UNCHANGED <<uses_changelist, fdtab, ep, map, chl, phase, nevents, applied>>

\* evmap_io_active_
evmap_io_active_(r) ==
  /\ phase = "report" /\ r \in reports /\ reports' = reports \ {r}
  /\ active' = [e \in Events |-> IF e \in EventsOn(r.fd)
                                 THEN active[e] \cup (EvEvents[e] \cap ReportedAs(r.what))
                                 ELSE active[e]]
  /\ UNCHANGED <<uses_changelist, fdtab, ep, map, chl, phase, nevents, applied>>

dispatch_return ==
  /\ phase = "report" /\ reports = {} /\ phase' = "run"
  /\ UNCHANGED <<uses_changelist, fdtab, ep, map, chl, nevents, reports, active, applied>>

\* the loop runs the callback of a (persistent) active event
run_callback(e) ==
  /\ phase = "run" /\ active[e] # {} /\ active' = [active EXCEPT ![e] = {}]
  /\ UNCHANGED <<uses_changelist, fdtab, ep, map, chl, disp>>

------------------------------------------------------------------------------
(* The application's descriptors.                                          *)

open(fd, f) ==
  /\ fdtab[fd] = None /\ \A g \in Fds : fdtab[g] # f
  /\ fdtab' = [fdtab EXCEPT ![fd] = f]
  /\ UNCHANGED <<uses_changelist, ep, map, chl, disp, active>>

\* not with the changelist: the documentation of the flag forbids it
dup(fd, g) ==
  /\ Dup /\ ~uses_changelist /\ fdtab[fd] # None /\ fdtab[g] = None
  /\ fdtab' = [fdtab EXCEPT ![g] = fdtab[fd]]
  /\ UNCHANGED <<uses_changelist, ep, map, chl, disp, active>>

\* the kernel drops a file from the epoll set when its last descriptor is closed
close(fd) ==
  /\ fdtab[fd] # None /\ EventsOn(fd) = {}
  /\ fdtab' = [fdtab EXCEPT ![fd] = None]
  /\ ep' = IF \E g \in Fds \ {fd} : fdtab[g] = fdtab[fd] THEN ep
           ELSE [m \in Members |-> IF m[1] = fdtab[fd] THEN {} ELSE ep[m]]
  /\ UNCHANGED <<uses_changelist, map, chl, disp, active>>

------------------------------------------------------------------------------
Init ==
  /\ uses_changelist \in ChangelistModes
  /\ fdtab = [fd \in Fds |-> None] /\ ep = [m \in Members |-> {}] /\ inserted = {}
  /\ nev = [fd \in Fds |-> [k \in Conds |-> 0]]
  /\ changes = <<>> /\ idxplus1 = [fd \in Fds |-> 0]
  /\ phase = "run" /\ applied = 0 /\ nevents = InitialNevent /\ reports = {}
  /\ active = [e \in Events |-> {}]

Reports == [fd : Fds, what : SUBSET Whats]

Next ==
  \/ \E e \in Events : evmap_io_add_(e) \/ evmap_io_del_(e) \/ run_callback(e)
  \/ evmap_reinit_ \/ dispatch_start \/ epoll_apply_changes \/ epoll_wait
  \/ dispatch_locked \/ dispatch_return
  \/ wait_return({}) \/ (\E r \in Reports : wait_return({r}))
  \/ \E r \in reports : evmap_io_active_(r)
  \/ \E fd \in Fds : \/ \E f \in Files : open(fd, f)
                     \/ \E g \in Fds : dup(fd, g)
                     \/ close(fd)

Spec == Init /\ [][Next]_vars

------------------------------------------------------------------------------
(* Properties.                                                             *)

\* Every variable has its type.
TypeOK ==
  /\ uses_changelist \in BOOLEAN
  /\ fdtab \in [Fds -> Files \cup {None}]
  /\ ep \in [Members -> SUBSET (Conds \cup {"ET"})]
  /\ inserted \subseteq Events /\ nev \in [Fds -> [Conds -> 0 .. MaxPerFd]]
  /\ idxplus1 \in [Fds -> Nat] /\ \A i \in DOMAIN changes : changes[i].fd \in Fds
  /\ phase \in {"run", "apply", "wait", "ready", "report"}
  /\ applied \in Nat /\ (phase = "apply" => applied =< Len(changes))
  /\ nevents \in Nat /\ reports \subseteq Reports /\ active \in [Events -> SUBSET Conds]

Wanted(fd) ==
  LET S == UNION {EvEvents[e] : e \in EventsOn(fd)}
  IN S \cup (IF \E e \in EventsOn(fd) : EvET[e] THEN {"ET"} ELSE {})

Pollable(fd) == fdtab[fd] \notin Unpollable

\* What evmap_io_check_integrity_fn asserts: the counters of an fd are the numbers of
\* events on its list, so the backend is told exactly at the first and the last event.
CountsMatchLists ==
  \A fd \in Fds, k \in Conds :
    nev[fd][k] = Cardinality({e \in EventsOn(fd) : k \in EvEvents[e]})

\* What event_changelist_assert_ok asserts: an fd and its entry in the changelist point
\* to each other.
ChangelistConsistent ==
  /\ \A i \in DOMAIN changes : idxplus1[changes[i].fd] = i
  /\ \A fd \in Fds : idxplus1[fd] # 0 =>
       idxplus1[fd] \in DOMAIN changes /\ changes[idxplus1[fd]].fd = fd

\* While the loop waits, the epoll set holds for each open descriptor exactly what its
\* events ask for, with the right triggering, unless a change for it is in the changelist;
\* whatever was added, deleted, closed, reopened, duplicated or forked before.
KernelWatchesRegistered ==
  phase = "wait" => \A fd \in Fds : idxplus1[fd] = 0 =>
    /\ fdtab[fd] # None /\ Pollable(fd) => Item(ep, fd) = Wanted(fd)
    /\ \A f \in Files : f # fdtab[fd] => ep[<<f, fd>>] = {}

\* An event is activated only with conditions it was registered for, and only while it
\* is inserted.
ActivatedAsRegistered ==
  \A e \in Events : active[e] \subseteq EvEvents[e] /\ (active[e] # {} => e \in inserted)

\* The four layers agree at every step of an add, a delete, a dispatch or a fork: the
\* counters with the lists (evmap.c), the entries of the fds with the changelist, the
\* kernel's set with the registrations, and the activations with what was asked for.
LayersAgree ==
  /\ CountsMatchLists
  /\ ChangelistConsistent
  /\ KernelWatchesRegistered
  /\ ActivatedAsRegistered

------------------------------------------------------------------------------
(* The map, the changelist, the backend and the kernel implement Interest. *)

Kernel == INSTANCE Interest WITH
  Conds   <- Conds \cup {"ET"},
  want    <- [fd \in Fds |-> Wanted(fd)],
  watch   <- [fd \in Fds |-> Item(ep, fd)],
  waiting <- phase = "wait"

\* Changes are batched, retried as other operations and overtaken by the reuse of
\* descriptors, but whenever the loop enters its wait the kernel watches what is registered.
KernelSpec == Kernel!Spec

=============================================================================
