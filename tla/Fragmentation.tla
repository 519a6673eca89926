--------------------------- MODULE Fragmentation ---------------------------
(***************************************************************************)
(* Data on its way through the byte level: cut into packets                *)
(* (src/network_data_operations.c), serialised and parsed one at a time    *)
(* (src/packet.c) through the static buffers of sx_1278_send_packet and    *)
(* read_last_packet, and put together again.  A byte is a number up to     *)
(* UINT8_MAX, 255 in the code; addresses take two of them.                 *)
(***************************************************************************)
EXTENDS Naturals, Sequences, SequencesExt

CONSTANTS
  UINT8_MAX,              \* largest byte
  payload_length_max,     \* bytes a packet carries (8)
  BufferSize,             \* bytes of tx_buffer and rx_buffer (255)
  Inputs,                 \* data to be sent
  Addresses, AckIds       \* values for the other fields

ASSUME ByteAssumption == UINT8_MAX \in Nat \ {0} /\ payload_length_max \in 1..UINT8_MAX
ASSUME BufferAssumption == BufferSize \in Nat /\ BufferSize >= 7 + payload_length_max

VARIABLES
  data, framed, dest_addr, src_addr, ack_id,   \* data_to_packet_array's arguments
  p_buf,                                       \* its result
  next,                                        \* the packet on its way
  tx_buffer, rx_buffer, air,                   \* the buffers and what is between them
  parsed                                       \* packets received

inputVars == <<data, framed, dest_addr, src_addr, ack_id>>
vars == <<inputVars, p_buf, next, tx_buffer, rx_buffer, air, parsed>>

Byte == 0..UINT8_MAX
Base == UINT8_MAX + 1

ASSUME InputAssumption ==
  Inputs \subseteq Seq(Byte) /\ Addresses \subseteq 0..(Base * Base - 1) /\ AckIds \subseteq Byte

Smaller(a, b) == IF a < b THEN a ELSE b

-----------------------------------------------------------------------------
(* src/network_data_operations.c.                                          *)

packet_constructor(dest, src, id, seq, payload) ==
  [dest_address |-> dest, src_address |-> src, ack_id |-> id,
   sequence_number |-> seq, payload |-> payload]

\* (Mutant of npackets: a last, incomplete fragment is forgotten.)
FullPacketsOnly(len) == len \div payload_length_max

npackets(len) == (len + payload_length_max - 1) \div payload_length_max

\* (Mutant of SequenceNumber: no room is left for BEGIN.)
WithoutOffset(i) == i % Base

\* Fragment i, counted from 0; the number is cut to eight bits.
SequenceNumber(i) == ((IF framed THEN 1 ELSE 0) + i) % Base

data_to_packet_array ==
  LET Fragment(i) ==
        packet_constructor(dest_addr, src_addr, ack_id, SequenceNumber(i),
          SubSeq(data, i * payload_length_max + 1,
                 Smaller((i + 1) * payload_length_max, Len(data))))
      buf == [i \in 1..npackets(Len(data)) |-> Fragment(i - 1)]
      Handshake(seq) == packet_constructor(dest_addr, src_addr, ack_id, seq, <<>>)
  IN IF framed THEN <<Handshake(0)>> \o buf \o <<Handshake(UINT8_MAX)>> ELSE buf

\* What the call leaves with its caller.  For no data it asks for no memory, and what
\* malloc(0) gives may be NULL: the call fails then, and there is nothing to send.
Built == IF data = <<>> THEN {data_to_packet_array, <<>>} ELSE {data_to_packet_array}

\* The data packets' payloads one after the other.
packet_array_to_data(packets) ==
  FlattenSeq([i \in DOMAIN packets |-> packets[i].payload])

-----------------------------------------------------------------------------
(* src/packet.c.                                                           *)

u16_conv_be(x) == <<(x \div Base) % Base, x % Base>>

\* (Mutant of read_u16_be: the bytes are taken in the other order.)
read_u16_le(b) == b[1] + Base * b[2]

read_u16_be(b) == Base * b[1] + b[2]

packet_to_bytestream(p) ==
  u16_conv_be(p.dest_address) \o u16_conv_be(p.src_address)
    \o <<p.ack_id, p.sequence_number, Len(p.payload)>> \o p.payload

\* The length of what was received is not passed down: the payload is as long
\* as the seventh byte says.
parse_packet(b) ==
  packet_constructor(read_u16_be(SubSeq(b, 1, 2)), read_u16_be(SubSeq(b, 3, 4)),
    b[5], b[6], SubSeq(b, 8, 7 + b[7]))

-----------------------------------------------------------------------------
Zeroed == [i \in 1..BufferSize |-> 0]

\* Bytes s written over the start of buffer b.
Written(b, s) == [i \in DOMAIN b |-> IF i <= Len(s) THEN s[i] ELSE b[i]]

Init ==
  /\ data \in Inputs
  /\ framed \in BOOLEAN
  /\ dest_addr \in Addresses /\ src_addr \in Addresses /\ ack_id \in AckIds
  /\ p_buf \in Built
  /\ next = 1
  /\ tx_buffer = Zeroed /\ rx_buffer = Zeroed
  /\ air = <<>>
  /\ parsed = <<>>

\* sx_1278_send_packet: tx_buffer keeps what earlier packets left behind the
\* end of this one, packet_size bytes of it are sent.
Send ==
  /\ next <= Len(p_buf)
  /\ air = <<>>
  /\ LET bytes == packet_to_bytestream(p_buf[next])
     IN /\ tx_buffer' = Written(tx_buffer, bytes)
        /\ air' = SubSeq(tx_buffer', 1, Len(bytes))
  /\ UNCHANGED <<inputVars, p_buf, next, rx_buffer, parsed>>

\* read_last_packet: the frame is copied, parsed, and the buffer cleared.
Read ==
  /\ air # <<>>
  /\ parsed' = Append(parsed, parse_packet(Written(rx_buffer, air)))
  /\ rx_buffer' = Zeroed
  /\ air' = <<>>
  /\ next' = next + 1
  /\ UNCHANGED <<inputVars, p_buf, tx_buffer>>

Next == Send \/ Read

Spec == Init /\ [][Next]_vars

-----------------------------------------------------------------------------

\* Every packet is parsed as the packet that was sent, whatever longer packets
\* went through the buffers before it.
ParsedAsSent == parsed = SubSeq(p_buf, 1, next - 1)

\* Once everything has arrived, the fragments between the handshakes give the
\* data back, for every length.
DataIsReassembled ==
  next > Len(p_buf) =>
    LET n == Len(parsed)
        fragments == IF framed THEN SubSeq(parsed, 2, n - 1) ELSE parsed
    IN packet_array_to_data(fragments) = data

\* The receiver's capture takes fragment i only with sequence number i and a
\* payload, between an empty packet 0 and an empty packet UINT8_MAX: what is
\* sent is what it takes, as long as the fragments fit its capture array.
FramesAreCapturable ==
  framed /\ p_buf # <<>> /\ Len(p_buf) <= UINT8_MAX + 1 =>
    LET n == Len(p_buf)
    IN /\ p_buf[1].sequence_number = 0 /\ p_buf[1].payload = <<>>
       /\ p_buf[n].sequence_number = UINT8_MAX /\ p_buf[n].payload = <<>>
       /\ \A i \in 2..n - 1:
            /\ p_buf[i].sequence_number = i - 1
            /\ Len(p_buf[i].payload) \in 1..payload_length_max
=============================================================================
