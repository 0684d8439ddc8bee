------------------------------ MODULE ByteQueue ------------------------------
(***************************************************************************)
(* What an evbuffer promises: it is a queue of bytes.  Data is added at    *)
(* either end, taken from the front, or moved or copied to another queue,  *)
(* and a call does one of these or nothing; how the bytes are laid out in  *)
(* memory, and who else sees that memory, never shows.                     *)
(***************************************************************************)
EXTENDS Naturals, Sequences, SequencesExt

CONSTANTS Buffers, Data   \* the queues, and the data that is added to them

VARIABLE content

Rest(q, n) == SubSeq(q, n + 1, Len(q))

AddLast(q, r) == \E data \in Data : r = q \o data

\* A call that runs out of memory may have added the end of the data.
AddFirst(q, r) == \E data \in Data : \E n \in 0..Len(data) - 1 : r = Rest(data, n) \o q

Drain(q, r) == \E n \in 1..Len(q) : r = Rest(q, n)

\* The queues go from old to new: src is emptied into dst, or its first n bytes are.
Move(old, new, src, dst) ==
  \/ /\ new[src] = << >> /\ new[dst] = old[src] \o old[dst]
  \/ \E n \in 1..Len(old[src]) : /\ new[src] = Rest(old[src], n)
                                 /\ new[dst] = old[dst] \o SubSeq(old[src], 1, n)

Step(old, new) ==
  LET changed == {b \in Buffers : old[b] # new[b]} IN
  \/ \E b \in changed :
       /\ changed = {b}
       /\ \/ AddLast(old[b], new[b]) \/ AddFirst(old[b], new[b]) \/ Drain(old[b], new[b])
          \/ \E src \in Buffers \ {b} : new[b] = old[b] \o old[src]
  \/ \E src, dst \in changed : src # dst /\ changed = {src, dst} /\ Move(old, new, src, dst)

Init == content = [b \in Buffers |-> << >>]
Next == Step(content, content')
Spec == Init /\ [][Next]_content
=============================================================================
