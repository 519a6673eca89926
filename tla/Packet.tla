------------------------------- MODULE Packet -------------------------------
(***************************************************************************)
(* The frame of the networking layer (include/packet.h, src/packet.c).     *)
(* A packet carries two addresses, an ack_id naming the transfer it        *)
(* belongs to, a sequence number and at most payload_length_max payload    *)
(* bytes.  Its type is not transmitted: check_packet_type derives it from  *)
(* the sequence number and from whether the payload is empty, so all the   *)
(* model keeps of a payload is which payload it is, and NoPayload for a    *)
(* payload_length of 0.                                                    *)
(***************************************************************************)
EXTENDS Naturals

CONSTANTS
  UINT8_MAX,     \* largest sequence number and ack_id (255 in the code)
  Addrs,         \* node addresses
  AckIds,        \* ack_ids in use, 0 among them
  Payloads,      \* non-empty payloads
  NoPayload      \* payload_length = 0

ASSUME UInt8Assumption == UINT8_MAX \in Nat /\ UINT8_MAX > 1
ASSUME AckIdAssumption == AckIds \subseteq 0..UINT8_MAX /\ 0 \in AckIds
ASSUME AddrAssumption == 0 \in Addrs
ASSUME PayloadAssumption == NoPayload \notin Payloads

UInt8 == 0..UINT8_MAX

\* typedef struct packet
Packets ==
  [dest_address: Addrs, src_address: Addrs, ack_id: AckIds,
   sequence_number: UInt8, payload: Payloads \cup {NoPayload}]

PacketTypes == {"PACKET_BEGIN", "PACKET_DATA", "PACKET_END", "PACKET_ACK"}

packet_constructor(dest, src, ack_id, seq, payload) ==
  [dest_address |-> dest, src_address |-> src, ack_id |-> ack_id,
   sequence_number |-> seq, payload |-> payload]

ack_packet(dest, src, ack_id, seq) ==
  packet_constructor(dest, src, ack_id, seq, NoPayload)

\* BEGIN and END are empty packets at the two ends of the sequence space; an
\* acknowledgement of either has the same type as the packet it acknowledges.
check_packet_type(p) ==
  CASE p.payload # NoPayload -> "PACKET_DATA"
    [] p.payload = NoPayload /\ p.sequence_number = 0 -> "PACKET_BEGIN"
    [] p.payload = NoPayload /\ p.sequence_number = UINT8_MAX -> "PACKET_END"
    [] OTHER -> "PACKET_ACK"

check_packet_features(p, src, dest, ack_id, seq, packet_type) ==
  /\ p.src_address = src
  /\ p.dest_address = dest
  /\ p.ack_id = ack_id
  /\ p.sequence_number = seq
  /\ check_packet_type(p) = packet_type

\* What parse_packet makes of the all-zero buffer that read_last_packet leaves
\* when the radio had nothing valid to read.
ZeroPacket == packet_constructor(0, 0, 0, 0, NoPayload)
=============================================================================
