---------------------------- MODULE MCEvmapEpoll ----------------------------
(* Small instances of EvmapEpoll. *)
EXTENDS EvmapEpoll

CONSTANTS rd, wr, ot, f1, f2, a, b

\* rd and wr are on descriptor f1, ot is on f2
MCEvFd == [e \in Events |-> IF e = ot THEN f2 ELSE f1]
MCEvEvents == [e \in Events |-> IF e = rd THEN {"READ"} ELSE IF e = wr THEN {"READ", "WRITE"}
                                ELSE {"CLOSED"}]
EdgeTriggered == [e \in Events |-> TRUE]
WriterEdgeTriggered == [e \in Events |-> e = wr]
=============================================================================
