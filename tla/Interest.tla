------------------------------ MODULE Interest ------------------------------
(***************************************************************************)
(* What the fd map, the changelist and the backend promise together: when  *)
(* the loop waits, the kernel watches for every descriptor what has been   *)
(* registered by then.  A change made in between may be passed on at once  *)
(* or kept until the next wait, but it is never made up, and a descriptor  *)
(* that is closed is not watched.                                          *)
(***************************************************************************)
EXTENDS Naturals

CONSTANTS Fds, Conds

VARIABLES want,     \* what is registered on each fd
          watch,    \* what the kernel watches on each fd
          waiting   \* the loop is in the backend's wait

Init ==
  /\ want = [fd \in Fds |-> {}] /\ watch = [fd \in Fds |-> {}] /\ waiting = FALSE

Register(fd, S) ==
  /\ want' = [want EXCEPT ![fd] = S]
  /\ watch' \in {watch, [watch EXCEPT ![fd] = S]} /\ UNCHANGED waiting

\* one descriptor is brought up to date
Update(fd) == watch' = [watch EXCEPT ![fd] = want[fd]] /\ UNCHANGED <<want, waiting>>

\* the kernel forgets a descriptor that was closed after its last event was deleted
Close(fd) == want[fd] = {} /\ watch' = [watch EXCEPT ![fd] = {}] /\ UNCHANGED <<want, waiting>>

\* after a fork: the backend starts from nothing, and is told everything again
Restart == watch' \in {[fd \in Fds |-> {}], want} /\ ~waiting /\ UNCHANGED <<want, waiting>>

Enter == ~waiting /\ watch = want /\ waiting' = TRUE /\ UNCHANGED <<want, watch>>
Leave == waiting /\ waiting' = FALSE /\ UNCHANGED <<want, watch>>

Next ==
  \/ \E fd \in Fds : Update(fd) \/ Close(fd) \/ \E S \in SUBSET Conds : Register(fd, S)
  \/ Restart \/ Enter \/ Leave

Spec == Init /\ [][Next]_<<want, watch, waiting>>
=============================================================================
