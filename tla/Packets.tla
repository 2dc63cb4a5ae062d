------------------------------ MODULE Packets ------------------------------
(***************************************************************************)
(* What the kernel driver sends: which socket buffers udp_core_pkt_compose *)
(* accepts, and how much of the tx buffer the copy of an accepted one      *)
(* covers.  Lengths are those of the source, in bytes.                     *)
(***************************************************************************)
EXTENDS Integers

UDP_HLEN == 8
MAX_PAYLOAD_SIZE == 1472
BUFFER_ELEM_MAX_SIZE_BYTES == 2048
PACKET_HEADER_SIZE_BYTES == 40

(* The width of size_t; the lengths are far from it on either side. *)
SizeMod == 2 ^ 30

U16_MAX == 65535
U16 == 0 .. U16_MAX

(* A socket buffer, as far as it is looked at: len is the length field of  *)
(* the UDP header, which a raw socket fills in as it likes.                *)
Skb == [packetSocket : BOOLEAN, ipv4 : BOOLEAN, udp : BOOLEAN,
        daddr : {"unicast", "dhcp", "mdns"}, len : U16]

(* Mutant: the difference is taken as a signed number. *)
PayloadSizeSigned(len) == len - UDP_HLEN

(* ntohs(udph->len) - UDP_HLEN, whose second operand is a sizeof: a field  *)
(* smaller than the header gives a number far beyond any packet.           *)
PayloadSize(len) == (len - UDP_HLEN) % SizeMod

(* udp_core_pkt_compose_classic succeeds.  DHCP and mDNS have no support   *)
(* in the device, which does not fragment either.                          *)
ComposeClassic(skb) ==
  /\ skb.ipv4 /\ skb.udp
  /\ skb.daddr \notin {"dhcp", "mdns"}
  /\ ~(PayloadSize(skb.len) > MAX_PAYLOAD_SIZE)

(* udp_core_pkt_compose_raw *)
ComposeRaw(skb) == skb.ipv4 /\ ComposeClassic(skb)

(* udp_core_pkt_compose, with NON_RAW_USAGE_ENABLED. *)
Compose(skb) ==
  IF skb.packetSocket THEN ComposeRaw(skb) ELSE ComposeClassic(skb)

(* The payload behind the header stays within the slot. *)
Fits(skb) ==
  PayloadSize(skb.len)
    \in 0 .. BUFFER_ELEM_MAX_SIZE_BYTES - PACKET_HEADER_SIZE_BYTES
=============================================================================
