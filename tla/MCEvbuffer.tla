----------------------------- MODULE MCEvbuffer -----------------------------
(* Small instances of Evbuffer. *)
EXTENDS Evbuffer

CONSTANTS evb, evb_two

TwoInputs == {<<LF>>, <<CR, LF>>}
OneByteInputs == {<<LF>>, <<CR>>}
Symmetry == Permutations(Buffers)
=============================================================================
