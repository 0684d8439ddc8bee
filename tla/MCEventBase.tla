---------------------------- MODULE MCEventBase ----------------------------
(* Small instances of EventBase.                                           *)
EXTENDS EventBase

CONSTANTS r, s, tm, x, d1, d2

\* r: persistent I/O; s: one-shot I/O on its own fd; tm: persistent timer;
\* x: loopexit event; d1, d2: deferred callbacks
MCPri == [c \in Callbacks |-> IF c \in {r, d1, Notify, tm} THEN 0 ELSE 1]
MCFd == [c \in IO \cup {Notify} |-> IF c = Notify THEN "notify" ELSE IF c = r THEN "fd1" ELSE "fd2"]
=============================================================================
