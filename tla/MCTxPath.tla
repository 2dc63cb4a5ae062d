------------------------------ MODULE MCTxPath ------------------------------
(***************************************************************************)
(* Two slots, so that the ring fills, and enough calls of one sender for   *)
(* every index to wrap.  Datagrams on both sides of every limit of the     *)
(* length, by a raw socket and by a classic one, and one of each kind that *)
(* the device cannot send.                                                 *)
(***************************************************************************)
EXTENDS TxPath

Datagram == [packetSocket |-> FALSE, ipv4 |-> TRUE, udp |-> TRUE,
             daddr |-> "unicast", len |-> 8]

MCSkbs ==
  { [Datagram EXCEPT !.packetSocket = raw, !.len = len] :
      raw \in BOOLEAN, len \in {0, 7, 8, 1480, 1481, 65535} }
  \cup { [Datagram EXCEPT !.ipv4 = FALSE, !.packetSocket = TRUE],
         [Datagram EXCEPT !.udp = FALSE], [Datagram EXCEPT !.daddr = "mdns"] }
=============================================================================
