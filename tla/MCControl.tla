----------------------------- MODULE MCControl -----------------------------
(* Control, with probe and remove, on a small instance: see MCControl.cfg. *)
EXTENDS Control, TLC

(* Open and stop are called in all usages; with them come the removal of   *)
(* the device, the list of sockets and the poll, which share registers,    *)
(* the list and a second binding, the range, with room for two calls that  *)
(* overlap after an open, and the gateway, which both contexts write.      *)
MCMaxCalls ==
  {"remove", "mac"} :> 3 @@ {"remove", "sockets"} :> 1
    @@ {"poll", "sockets"} :> 2 @@ {"range"} :> 3
    @@ {"gateway", "address"} :> 2

MCUsages == DOMAIN MCMaxCalls
=============================================================================
