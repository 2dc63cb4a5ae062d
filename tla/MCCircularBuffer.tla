------------------------- MODULE MCCircularBuffer -------------------------
(***************************************************************************)
(* Three slots, as in the repository's own unit test of circular_buffer.v, *)
(* so that the length is not a power of two.                               *)
(***************************************************************************)
EXTENDS CircularBuffer
=============================================================================
