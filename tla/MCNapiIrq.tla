----------------------------- MODULE MCNapiIrq -----------------------------
(***************************************************************************)
(* Two ports and a budget of two, so that a poll ends in each of its ways. *)
(***************************************************************************)
EXTENDS NapiIrq
=============================================================================
