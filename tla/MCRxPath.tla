------------------------------ MODULE MCRxPath ------------------------------
(***************************************************************************)
(* Two ports with rings of two slots, and a port outside the range.        *)
(***************************************************************************)
EXTENDS RxPath
=============================================================================
