------------------------- MODULE MCRxPacketHandler -------------------------
(***************************************************************************)
(* Bounded instances of RxPacketHandler.  The sequence space is cut from   *)
(* 0..255 to 0..UINT8_MAX; the capture array keeps its relation to it      *)
(* (one slot fewer than the largest sequence number), so that fragments    *)
(* past the end of the array and the END number both exist.                *)
(***************************************************************************)
EXTENDS RxPacketHandler

\* Packets from either of two senders to the host or to someone else.
AnyArrival ==
  {p \in Packets: p.src_address \in {1, 3} /\ p.dest_address \in {1, host_addr}}
=============================================================================
