------------------------------ MODULE MCDevIrq ------------------------------
(* DevIrq with two threads: see MCDevIrq.cfg. *)
EXTENDS DevIrq
=============================================================================
