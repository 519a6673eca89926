-------------------------- MODULE RxPacketHandler --------------------------
(***************************************************************************)
(* The receiver's packet handler (src/rx_packet_handler.c): one context,   *)
(* fed with packets by the receive loop, that filters them by address,     *)
(* drops an immediate repetition, captures the fragments of one burst and  *)
(* passes everything else to the command call-back.                        *)
(*                                                                         *)
(* The variables are the fields of rx_handler_ctx_t; ret is what the last  *)
(* call returned and upcall the call-back it made, if any.  Any packet of  *)
(* Arrivals may be handed over at any time: what the air and the receive   *)
(* loop make of that choice is the subject of module LoraLink.             *)
(***************************************************************************)
EXTENDS Packet, Sequences

CONSTANTS
  host_addr,     \* the context's own address
  Remotes,       \* addresses the application may listen to
  Arrivals,      \* packets the receive loop may hand over
  NULL           \* the null pointer

ASSUME HostAssumption == host_addr \in Addrs /\ Remotes \subseteq Addrs
ASSUME ArrivalsAssumption == Arrivals \subseteq Packets
ASSUME NullAssumption == NULL \notin Packets

PACKET_CAPTURE_MAX_COUNT == UINT8_MAX - 1

VARIABLES
  configured, remote_src_addr, capture, capture_ack_id,
  captured_packet_arr, captured_n,
  last_received_ack_id, last_received_seq_number,
  ret, upcall

captureVars == <<capture, capture_ack_id, captured_packet_arr, captured_n>>
dedupVars == <<last_received_ack_id, last_received_seq_number>>
ctx == <<configured, remote_src_addr, captureVars, dedupVars>>
vars == <<ctx, ret, upcall>>

Slots == 0..(PACKET_CAPTURE_MAX_COUNT - 1)

ReturnCodes ==
  {"PACKET_REJECTED", "COMMAND_PACKET", "CAPTURE_BEGIN", "CAPTURE_END",
   "CAPTURE_ARRAY_FULL", "DATA_PACKET_CAPTURED", "CAPTURE_ALREADY_ON",
   "UNKNOWN_PACKET", "NULL_PACKET", "CAPTURE_NOT_ON", "PACKET_REDUNDANT",
   "HANDLER_NOT_CONFIGURED", "void"}

NoUpcall == [kind |-> "none", items |-> <<>>]
CommandUpcall(p) == [kind |-> "command", items |-> <<p>>]
EndUpcall(s) == [kind |-> "end", items |-> s]

\* The first captured_n entries, as the end handler and
\* rx_handler_get_captured_array present them.
Captured == [i \in 1..captured_n |-> captured_packet_arr[i - 1]]

-----------------------------------------------------------------------------
\* A context of static storage: all zero, not configured.
Init ==
  /\ configured = FALSE
  /\ remote_src_addr = 0
  /\ capture = FALSE
  /\ capture_ack_id = 0
  /\ captured_packet_arr = [i \in Slots |-> NULL]
  /\ captured_n = 0
  /\ last_received_ack_id = 0
  /\ last_received_seq_number = 0
  /\ ret = "void"
  /\ upcall = NoUpcall

rx_handler_init(remote) ==
  /\ configured' = TRUE
  /\ remote_src_addr' = remote
  /\ capture' = FALSE
  /\ capture_ack_id' = 0
  /\ captured_packet_arr' = [i \in Slots |-> NULL]
  /\ captured_n' = 0
  /\ last_received_ack_id' = 0
  /\ last_received_seq_number' = 0
  /\ ret' = "void"
  /\ upcall' = NoUpcall

rx_handler_set_remote_addr(remote) ==
  /\ remote_src_addr' = remote
  /\ ret' = "void"
  /\ upcall' = NoUpcall
  /\ UNCHANGED <<configured, captureVars, dedupVars>>

\* (Mutants of ResetCapture: a field forgotten.)
ResetKeepsCount ==
  capture' = FALSE /\ capture_ack_id' = 0 /\ UNCHANGED <<captured_n, captured_packet_arr>>
ResetKeepsCapture == UNCHANGED captureVars

\* The captured packets stay in the array; only the index goes back to 0.
ResetCapture ==
  /\ capture' = FALSE
  /\ captured_n' = 0
  /\ capture_ack_id' = 0
  /\ UNCHANGED captured_packet_arr

rx_handler_reset ==
  /\ ResetCapture
  /\ ret' = "void"
  /\ upcall' = NoUpcall
  /\ UNCHANGED <<configured, remote_src_addr, dedupVars>>

-----------------------------------------------------------------------------
(* rx_packet_handler: first the packets it turns away, then one action per *)
(* packet type.                                                            *)

Return(code) == ret' = code /\ upcall' = NoUpcall

NotConfigured ==
  /\ ~configured
  /\ Return("HANDLER_NOT_CONFIGURED")
  /\ UNCHANGED ctx

NullPacket ==
  /\ configured
  /\ Return("NULL_PACKET")
  /\ UNCHANGED ctx

ForUs(p) == p.dest_address = host_addr /\ p.src_address = remote_src_addr

\* (Mutants of Redundant: no duplicate filter; one that compares sequence
\* numbers only.)
NeverRedundant(p) == FALSE
SameSequenceNumber(p) == p.sequence_number = last_received_seq_number

\* The only duplicate filter: the packet before this one had the same pair.
Redundant(p) ==
  /\ p.ack_id = last_received_ack_id
  /\ p.sequence_number = last_received_seq_number

WrongAddress(p) ==
  /\ configured
  /\ ~ForUs(p)
  /\ Return("PACKET_REJECTED")
  /\ UNCHANGED ctx

RedundantPacket(p) ==
  /\ configured
  /\ ForUs(p)
  /\ Redundant(p)
  /\ Return("PACKET_REDUNDANT")
  /\ UNCHANGED ctx

\* What is common to the packets that reach the switch.
Accept(p) ==
  /\ configured
  /\ ForUs(p)
  /\ ~Redundant(p)
  /\ last_received_ack_id' = p.ack_id
  /\ last_received_seq_number' = p.sequence_number
  /\ UNCHANGED <<configured, remote_src_addr>>

\* (Mutant of HandleBegin: a BEGIN restarts the running capture.)
RestartCapture(p) ==
  /\ Accept(p)
  /\ check_packet_type(p) = "PACKET_BEGIN"
  /\ capture' = TRUE
  /\ capture_ack_id' = p.ack_id
  /\ captured_n' = 0
  /\ UNCHANGED captured_packet_arr
  /\ Return("CAPTURE_BEGIN")

HandleBegin(p) ==
  /\ Accept(p)
  /\ check_packet_type(p) = "PACKET_BEGIN"
  /\ IF capture
       THEN Return("CAPTURE_ALREADY_ON") /\ UNCHANGED captureVars
       ELSE /\ capture' = TRUE
            /\ capture_ack_id' = p.ack_id
            /\ captured_n' = 0
            /\ UNCHANGED captured_packet_arr
            /\ Return("CAPTURE_BEGIN")

\* (Mutants of the three conditions under which a fragment is captured.)
AnyTransfer(p) == capture
OneTooMany == captured_n > PACKET_CAPTURE_MAX_COUNT
LaterInSequence(p) == p.sequence_number > captured_n
OffByOne(p) == p.sequence_number = captured_n

OfThisCapture(p) == capture /\ p.ack_id = capture_ack_id
ArrayFull == captured_n >= PACKET_CAPTURE_MAX_COUNT
NextInSequence(p) == p.sequence_number = captured_n + 1

CaptureData(p) ==
  /\ Accept(p)
  /\ check_packet_type(p) = "PACKET_DATA"
  /\ OfThisCapture(p)
  /\ ~ArrayFull
  /\ NextInSequence(p)
  /\ captured_packet_arr' = [captured_packet_arr EXCEPT ![captured_n] = p]
  /\ captured_n' = captured_n + 1
  /\ Return("DATA_PACKET_CAPTURED")
  /\ UNCHANGED <<capture, capture_ack_id>>

RefuseData(p) ==
  /\ Accept(p)
  /\ check_packet_type(p) = "PACKET_DATA"
  /\ OfThisCapture(p)
  /\ \/ ArrayFull /\ Return("CAPTURE_ARRAY_FULL")
     \/ ~ArrayFull /\ ~NextInSequence(p) /\ Return("PACKET_REJECTED")
  /\ UNCHANGED captureVars

\* With no capture running capture_ack_id is 0, so a packet whose own ack_id
\* is 0 is not a command but is rejected.
DataOutsideCapture(p) ==
  /\ Accept(p)
  /\ check_packet_type(p) = "PACKET_DATA"
  /\ ~OfThisCapture(p)
  /\ IF p.ack_id # capture_ack_id
       THEN ret' = "COMMAND_PACKET" /\ upcall' = CommandUpcall(p)
       ELSE Return("PACKET_REJECTED")
  /\ UNCHANGED captureVars

\* The END packet's ack_id is not compared with the capture's.
HandleEnd(p) ==
  /\ Accept(p)
  /\ check_packet_type(p) = "PACKET_END"
  /\ IF capture
       THEN /\ upcall' = EndUpcall(Captured)
            /\ ret' = "CAPTURE_END"
            /\ ResetCapture
       ELSE Return("CAPTURE_NOT_ON") /\ UNCHANGED captureVars

HandleUnknown(p) ==
  /\ Accept(p)
  /\ check_packet_type(p) = "PACKET_ACK"
  /\ Return("UNKNOWN_PACKET")
  /\ UNCHANGED captureVars

rx_packet_handler(p) ==
  \/ WrongAddress(p)
  \/ RedundantPacket(p)
  \/ HandleBegin(p)
  \/ CaptureData(p)
  \/ RefuseData(p)
  \/ DataOutsideCapture(p)
  \/ HandleEnd(p)
  \/ HandleUnknown(p)

Next ==
  \/ \E r \in Remotes: rx_handler_init(r) \/ rx_handler_set_remote_addr(r)
  \/ rx_handler_reset
  \/ NotConfigured
  \/ NullPacket
  \/ \E p \in Arrivals: rx_packet_handler(p)

Spec == Init /\ [][Next]_vars

-----------------------------------------------------------------------------
Fragments == {p \in Arrivals: check_packet_type(p) = "PACKET_DATA"}

\* Every field has the type its declaration gives it, and captured_n never
\* runs past the array it indexes.
TypeOK ==
  /\ configured \in BOOLEAN
  /\ remote_src_addr \in Addrs
  /\ capture \in BOOLEAN
  /\ capture_ack_id \in AckIds
  /\ captured_packet_arr \in [Slots -> Packets \cup {NULL}]
  /\ captured_n \in 0..PACKET_CAPTURE_MAX_COUNT
  /\ last_received_ack_id \in AckIds
  /\ last_received_seq_number \in UInt8
  /\ ret \in ReturnCodes
  /\ upcall \in [kind: {"none", "command", "end"}, items: Seq(Packets)]

\* The captured entries are the fragments 1..captured_n of the running
\* capture, in order, none missing, each addressed to this node: what is
\* left in the array from earlier captures never shows through the index.
CapturedInOrder ==
  \A i \in 0..(captured_n - 1):
    /\ captured_packet_arr[i] \in Fragments
    /\ captured_packet_arr[i].sequence_number = i + 1
    /\ captured_packet_arr[i].ack_id = capture_ack_id
    /\ captured_packet_arr[i].dest_address = host_addr

\* Between captures the context is as rx_handler_reset leaves it, so that a
\* fragment of a finished burst cannot continue it.
IdleIsReset == ~capture => captured_n = 0 /\ capture_ack_id = 0

\* What the end handler is given is a gap-free, in-order piece of a single
\* transfer that starts with its first fragment.
DeliveredInOrder ==
  upcall.kind = "end" =>
    \A i \in DOMAIN upcall.items:
      /\ upcall.items[i].sequence_number = i
      /\ upcall.items[i].ack_id = upcall.items[1].ack_id

\* The duplicate filter never stands in the way of the fragment the capture
\* is waiting for: whatever was received last, that fragment is not taken for
\* a repetition.  It needs a remote that sends no acknowledgement-typed
\* packet, see NoAcksArrive.
NoFragmentLockout ==
  capture /\ captured_n < PACKET_CAPTURE_MAX_COUNT =>
    ~(/\ last_received_ack_id = capture_ack_id
      /\ last_received_seq_number = captured_n + 1)

NoAcksArrive == \A p \in Arrivals: check_packet_type(p) # "PACKET_ACK"

\* A step of a running capture never loses, replaces or reorders what was
\* captured: it adds at most one fragment, or it ends the capture.
CaptureOnlyGrows ==
  [][capture /\ capture' =>
       /\ capture_ack_id' = capture_ack_id
       /\ captured_n' \in {captured_n, captured_n + 1}
       /\ \A i \in 0..(captured_n - 1):
            captured_packet_arr'[i] = captured_packet_arr[i]]_vars

\* The handler implements the abstract capture session.
Session == INSTANCE CaptureSession
  WITH Items <- Fragments, Ids <- AckIds,
       Capacity <- PACKET_CAPTURE_MAX_COUNT,
       open <- capture, session_id <- capture_ack_id, items <- Captured,
       upcall <- upcall

ImplementsSession == Session!Spec
=============================================================================
