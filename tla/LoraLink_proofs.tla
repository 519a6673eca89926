--------------------------- MODULE LoraLink_proofs ---------------------------
(***************************************************************************)
(* Proofs about the link for any number and length of transfers, any       *)
(* width of the sequence space and any number of attempts: first the types *)
(* and the packets of a transfer, then a link used within its rules, then  *)
(* one on which anything may fail.                                         *)
(***************************************************************************)
EXTENDS LoraLink, SequenceTheorems, TLAPS

Transfers == [framed: BOOLEAN, ack_id: AckIds, n: Nat \ {0}]

\* How many packets transfer j of w is sent in, and the i-th of them.
PacketCount(w, j) == IF w[j].framed THEN w[j].n + 2 ELSE w[j].n

SequenceNumber(w, j, i) ==
  IF w[j].framed /\ i = w[j].n + 2 THEN UINT8_MAX ELSE (i - 1) % (UINT8_MAX + 1)

PayloadOf(w, j, i) ==
  CASE w[j].framed /\ i \in {1, w[j].n + 2} -> NoPayload
    [] w[j].framed /\ i \notin {1, w[j].n + 2} -> <<j, i - 1>>
    [] OTHER -> <<j, i>>

PacketOf(w, j, i) ==
  packet_constructor(Host, Sender, w[j].ack_id, SequenceNumber(w, j, i), PayloadOf(w, j, i))

-----------------------------------------------------------------------------
(* The parameters, and the packets that are sent.                          *)

LEMMA Parameters ==
  /\ UINT8_MAX \in Nat /\ UINT8_MAX > 1
  /\ 0 \in AckIds /\ AckIds \subseteq Nat
  /\ 0 \in Addrs /\ Sender \in Addrs /\ Host \in Addrs
  /\ Sender # Host /\ Sender # 0 /\ Host # 0
  /\ Sender \notin Receivers /\ Host \in Receivers /\ Receivers \subseteq Nodes
  /\ Host \in Nodes /\ Sender \in Nodes
BY UInt8Assumption, AckIdAssumption, AddrAssumption, NodeAssumption, DistinctAssumption
   DEF Receivers, Nodes

LEMMA JobTypes ==
  ASSUME NEW w \in Workloads, NEW j \in DOMAIN w
  PROVE  /\ w \in Seq(Transfers) /\ j \in 1..Len(w)
         /\ w[j].framed \in BOOLEAN /\ w[j].ack_id \in AckIds /\ w[j].n \in Nat \ {0}
         /\ \A i \in 1..w[j].n: <<j, i>> \in Payloads
         /\ PacketCount(w, j) \in Nat \ {0}
<1>1. w \in Seq(Transfers) /\ \A i \in 1..w[j].n: <<j, i>> \in Payloads
  BY WorkloadAssumption DEF Transfers
<1>2. j \in 1..Len(w) /\ w[j] \in Transfers
  BY <1>1
<1>3. w[j].framed \in BOOLEAN /\ w[j].ack_id \in AckIds /\ w[j].n \in Nat \ {0}
  BY <1>2 DEF Transfers
<1> QED
  BY <1>1, <1>2, <1>3 DEF PacketCount

LEMMA SequenceNumberType ==
  ASSUME NEW w \in Workloads, NEW j \in DOMAIN w, NEW i \in Nat \ {0}
  PROVE  SequenceNumber(w, j, i) \in UInt8
<1>1. (i - 1) % (UINT8_MAX + 1) \in 0..UINT8_MAX
  <2>1. i - 1 \in Nat /\ UINT8_MAX + 1 \in Nat /\ UINT8_MAX + 1 > 0
    BY Parameters
  <2>2. (i - 1) % (UINT8_MAX + 1) \in 0..((UINT8_MAX + 1) - 1)
    BY <2>1
  <2> QED
    BY <2>2, Parameters
<1> QED
  BY <1>1, Parameters DEF SequenceNumber, UInt8

\* What data_to_packet_array builds is a packet for each place.
LEMMA PacketType ==
  ASSUME NEW w \in Workloads, NEW j \in DOMAIN w, NEW i \in 1..PacketCount(w, j)
  PROVE  PacketOf(w, j, i) \in Packets
<1>1. PayloadOf(w, j, i) \in Payloads \cup {NoPayload}
  <2>1. /\ w[j].framed \in BOOLEAN /\ w[j].n \in Nat \ {0}
        /\ \A k \in 1..w[j].n: <<j, k>> \in Payloads
    BY JobTypes
  <2>2. CASE w[j].framed
    <3>1. i \in 1..w[j].n + 2
      BY <2>2 DEF PacketCount
    <3>2. i \in {1, w[j].n + 2} \/ i - 1 \in 1..w[j].n
      BY <2>1, <3>1
    <3> QED
      BY <2>1, <2>2, <3>2 DEF PayloadOf
  <2>3. CASE ~w[j].framed
    BY <2>1, <2>3 DEF PayloadOf, PacketCount
  <2> QED
    BY <2>2, <2>3
<1>2. SequenceNumber(w, j, i) \in UInt8
  BY JobTypes, SequenceNumberType
<1> QED
  BY <1>1, <1>2, JobTypes, Parameters DEF PacketOf, packet_constructor, Packets

LEMMA PacketArray ==
  ASSUME jobs \in Workloads, NEW j \in DOMAIN jobs
  PROVE  /\ data_to_packet_array(j) \in Seq(Packets)
         /\ Len(data_to_packet_array(j)) = PacketCount(jobs, j)
         /\ \A i \in 1..PacketCount(jobs, j):
              data_to_packet_array(j)[i] = PacketOf(jobs, j, i)
<1> DEFINE t == jobs[j]
           seq_offset == IF t.framed THEN 1 ELSE 0
           data == [i \in 1..t.n |->
                      packet_constructor(Host, Sender, t.ack_id,
                        (seq_offset + i - 1) % (UINT8_MAX + 1), <<j, i>>)]
           begin == <<ack_packet(Host, Sender, t.ack_id, 0)>>
           end == <<ack_packet(Host, Sender, t.ack_id, UINT8_MAX)>>
<1>1. t.framed \in BOOLEAN /\ t.ack_id \in AckIds /\ t.n \in Nat \ {0}
  BY JobTypes
<1>2. \A i \in 1..t.n:
        data[i] = PacketOf(jobs, j, IF t.framed THEN i + 1 ELSE i)
  <2> TAKE i \in 1..t.n
  <2> HIDE DEF data
  <2>1. CASE t.framed
    <3>1. PayloadOf(jobs, j, i + 1) = <<j, i>>
      BY <2>1, <1>1 DEF PayloadOf
    <3>2. SequenceNumber(jobs, j, i + 1) = (seq_offset + i - 1) % (UINT8_MAX + 1)
      BY <2>1, <1>1 DEF SequenceNumber
    <3> QED
      BY <2>1, <3>1, <3>2 DEF data, PacketOf
  <2>2. CASE ~t.framed
    <3>1. PayloadOf(jobs, j, i) = <<j, i>>
      BY <2>2, <1>1 DEF PayloadOf
    <3>2. SequenceNumber(jobs, j, i) = (seq_offset + i - 1) % (UINT8_MAX + 1)
      BY <2>2, <1>1 DEF SequenceNumber
    <3> QED
      BY <2>2, <3>1, <3>2 DEF data, PacketOf
  <2> QED
    BY <2>1, <2>2
<1>3. \A i \in 1..t.n: data[i] \in Packets
  <2> TAKE i \in 1..t.n
  <2> HIDE DEF data
  <2>1. (IF t.framed THEN i + 1 ELSE i) \in 1..PacketCount(jobs, j)
    BY <1>1 DEF PacketCount
  <2> QED
    BY <1>2, <2>1, PacketType
<1> DEFINE n == t.n
<1>n. n \in Nat \ {0} /\ n = jobs[j].n
  BY <1>1
<1>4. data \in Seq(Packets) /\ Len(data) = n
  <2>1. data \in [1..n -> Packets]
    <3>1. DOMAIN data = 1..n /\ data = [i \in DOMAIN data |-> data[i]]
      OBVIOUS
    <3> HIDE DEF data, n
    <3> QED
      BY <1>3, <1>n, <3>1
  <2> HIDE DEF data, n
  <2> QED
    BY <1>n, <2>1
<1> HIDE DEF data, n
<1>5. CASE ~t.framed
  <2>1. data_to_packet_array(j) = data
    BY <1>5 DEF data_to_packet_array, data
  <2> QED
    BY <1>2, <1>4, <1>5, <1>n, <2>1 DEF PacketCount
<1>6. CASE t.framed
  <2>1. data_to_packet_array(j) = (begin \o data) \o end
    BY <1>6 DEF data_to_packet_array, data
  <2>2. begin[1] = PacketOf(jobs, j, 1)
    <3>1. PayloadOf(jobs, j, 1) = NoPayload
      BY <1>1, <1>6 DEF PayloadOf
    <3>2. SequenceNumber(jobs, j, 1) = 0
      BY <1>1, <1>6, Parameters DEF SequenceNumber
    <3> QED
      BY <3>1, <3>2 DEF PacketOf, ack_packet
  <2>3. end[1] = PacketOf(jobs, j, t.n + 2)
    <3>1. PayloadOf(jobs, j, t.n + 2) = NoPayload
      BY <1>1, <1>6 DEF PayloadOf
    <3>2. SequenceNumber(jobs, j, t.n + 2) = UINT8_MAX
      BY <1>1, <1>6 DEF SequenceNumber
    <3> QED
      BY <3>1, <3>2 DEF PacketOf, ack_packet
  <2>4. begin[1] \in Packets /\ end[1] \in Packets
    BY <2>2, <2>3, PacketType, <1>1, <1>6 DEF PacketCount
  <2> HIDE DEF begin, end
  <2>5. /\ begin \in Seq(Packets) /\ Len(begin) = 1
        /\ end \in Seq(Packets) /\ Len(end) = 1
    BY <2>4 DEF begin, end
  <2> DEFINE body == begin \o data
             all == body \o end
  <2>6. /\ body \in Seq(Packets) /\ Len(body) = 1 + n
        /\ \A i \in 1..1 + n: body[i] = IF i <= 1 THEN begin[i] ELSE data[i - 1]
    <3>1. /\ body \in Seq(Packets) /\ Len(body) = Len(begin) + Len(data)
          /\ \A i \in 1..Len(begin) + Len(data):
               body[i] = IF i <= Len(begin) THEN begin[i] ELSE data[i - Len(begin)]
      BY <1>4, <2>5, ConcatProperties
    <3> HIDE DEF body
    <3> QED
      BY <1>4, <2>5, <3>1
  <2> HIDE DEF body
  <2>7. /\ all \in Seq(Packets) /\ Len(all) = n + 2
        /\ \A i \in 1..n + 2: all[i] = IF i <= n + 1 THEN body[i] ELSE end[i - (n + 1)]
    <3>1. /\ all \in Seq(Packets) /\ Len(all) = Len(body) + Len(end)
          /\ \A i \in 1..Len(body) + Len(end):
               all[i] = IF i <= Len(body) THEN body[i] ELSE end[i - Len(body)]
      BY <2>5, <2>6, ConcatProperties
    <3> HIDE DEF all
    <3> QED
      BY <1>n, <2>5, <2>6, <3>1
  <2> HIDE DEF all
  <2>8. ASSUME NEW i \in 1..n + 2 PROVE all[i] = PacketOf(jobs, j, i)
    <3>1. CASE i = 1
      BY <1>n, <3>1, <2>2, <2>6, <2>7
    <3>2. CASE i \in 2..n + 1
      <4>1. all[i] = data[i - 1] /\ i - 1 \in 1..n
        BY <1>n, <3>2, <2>6, <2>7
      <4>2. data[i - 1] = PacketOf(jobs, j, (i - 1) + 1)
        BY <4>1, <1>2, <1>6, <1>n
      <4> QED
        BY <4>1, <4>2, <1>n
    <3>3. CASE i = n + 2
      <4>1. all[i] = end[1]
        <5>1. ~(i <= n + 1) /\ i - (n + 1) = 1
          BY <1>n, <3>3
        <5> QED
          BY <5>1, <2>7
      <4>2. i = t.n + 2
        BY <1>n, <3>3
      <4> QED
        BY <2>3, <4>1, <4>2
    <3> QED
      BY <1>n, <3>1, <3>2, <3>3
  <2>9. PacketCount(jobs, j) = n + 2
    BY <1>6, <1>n DEF PacketCount
  <2> QED
    BY <2>1, <2>7, <2>8, <2>9 DEF body, all
<1> QED
  BY <1>1, <1>5, <1>6

-----------------------------------------------------------------------------
(* Types.  Besides TypeOK the proof needs to know that the sender is never *)
(* busy without a transfer, that the host's context stays configured for   *)
(* the sender, and that only packets are captured and handed over.         *)

UpcallRecords == [kind: {"none", "command", "end"}, items: Seq(Packets)]

SenderTypes ==
  /\ faults \in FaultSets
  /\ jobs \in Workloads
  /\ job \in 0..Len(jobs)
  /\ job > 0 => idx \in 1..PacketCount(jobs, job)
  /\ attempt \in 1..timeout_n
  /\ s_pc \in {"idle", "send", "arm", "poll"}
  /\ s_pc # "idle" => job > 0
  /\ result \in [DOMAIN jobs -> Outcomes]

FifoContents == Packets \cup {Nothing, Corrupt}

RadioTypes ==
  /\ mode \in [Nodes -> {"RX_CONTINUOUS", "RX_SINGLE", "STDBY", "SLEEP"}]
  /\ fifo \in [Nodes -> FifoContents]

LoopTypes ==
  /\ pc \in [Receivers -> {"rearm", "poll", "ack", "handle", "exited"}]
  /\ rx_p \in [Receivers -> Packets]
  /\ restarts \in 0..MaxRestarts

HandlerTypes ==
  /\ Handler!TypeOK
  /\ configured = TRUE
  /\ remote_src_addr = Sender
  /\ \A i \in 0..captured_n - 1: captured_packet_arr[i] \in Packets
  /\ delivered \in Seq(UpcallRecords)

Types == SenderTypes /\ RadioTypes /\ LoopTypes /\ HandlerTypes

LEMMA SenderFacts ==
  ASSUME SenderTypes, job > 0
  PROVE  /\ job \in DOMAIN jobs /\ jobs \in Seq(Transfers)
         /\ PacketCount(jobs, job) \in Nat \ {0}
         /\ Len(p_buf) = PacketCount(jobs, job)
         /\ curr_packet = PacketOf(jobs, job, idx)
         /\ curr_packet \in Packets
<1>w. jobs \in Seq(Transfers)
  BY WorkloadAssumption DEF SenderTypes, Transfers
<1>1. Len(jobs) \in Nat /\ job \in Nat /\ idx \in 1..PacketCount(jobs, job)
  BY <1>w DEF SenderTypes
<1>2. job \in DOMAIN jobs
  BY <1>1 DEF SenderTypes
<1> QED
  BY <1>w, <1>1, <1>2, JobTypes, PacketArray, PacketType DEF SenderTypes, p_buf, curr_packet

LEMMA ZeroPacketType == ZeroPacket \in Packets
BY Parameters DEF ZeroPacket, packet_constructor, Packets, UInt8

LEMMA AcknowledgementType == \A p \in Packets: Acknowledgement(p) \in Packets
BY DEF Acknowledgement, ack_packet, packet_constructor, Packets

\* What a broadcast leaves in the radios.
LEMMA BroadcastEffect ==
  ASSUME RadioTypes, NEW n \in Nodes, NEW f \in Packets, Broadcast(n, f)
  PROVE  /\ fifo' \in [Nodes -> FifoContents]
         /\ fifo'[n] = Nothing
         /\ \A m \in Nodes \ {n}:
              \/ fifo'[m] = fifo[m]
              \/ m \in Listening(n) /\ fifo'[m] \in {f, Corrupt}
<1>1. PICK reception \in [Listening(n) -> {"heard"} \cup (faults \cap {"lost", "corrupt"})]:
        fifo' = [m \in Nodes |->
                   CASE m = n -> Nothing
                     [] m \in Listening(n) /\ reception[m] = "heard" -> f
                     [] m \in Listening(n) /\ reception[m] = "corrupt" -> Corrupt
                     [] OTHER -> fifo[m]]
  BY DEF Broadcast
<1>2. n \notin Listening(n)
  BY DEF Listening
<1>3. fifo'[n] = Nothing
  BY <1>1, <1>2
<1>4. ASSUME NEW m \in Nodes \ {n}
      PROVE  \/ fifo'[m] = fifo[m]
             \/ m \in Listening(n) /\ fifo'[m] \in {f, Corrupt}
  <2>1. fifo'[m] = CASE m \in Listening(n) /\ reception[m] = "heard" -> f
                     [] m \in Listening(n) /\ reception[m] = "corrupt" -> Corrupt
                     [] OTHER -> fifo[m]
    BY <1>1
  <2>2. CASE m \in Listening(n) /\ reception[m] = "heard"
    BY <2>1, <2>2
  <2>3. CASE m \in Listening(n) /\ reception[m] = "corrupt"
    BY <2>1, <2>3
  <2>4. CASE ~(m \in Listening(n) /\ reception[m] \in {"heard", "corrupt"})
    BY <2>1, <2>4
  <2> QED
    BY <2>2, <2>3, <2>4
<1>5. \A m \in Nodes: fifo'[m] \in FifoContents
  BY <1>3, <1>4 DEF RadioTypes, FifoContents
<1>6. fifo' = [m \in Nodes |-> fifo'[m]]
  BY <1>1
<1> QED
  BY <1>3, <1>4, <1>5, <1>6

\* Setting a node's radio.
LEMMA SetRadioTypes ==
  ASSUME RadioTypes, NEW n \in Nodes,
         NEW m \in {"RX_CONTINUOUS", "RX_SINGLE", "STDBY", "SLEEP"}, SetRadio(n, m)
  PROVE  /\ RadioTypes'
         /\ mode'[n] = m /\ fifo'[n] = Nothing
         /\ \A k \in Nodes \ {n}: mode'[k] = mode[k] /\ fifo'[k] = fifo[k]
BY DEF SetRadio, RadioTypes, FifoContents

\* What is read is a packet.
LEMMA ReadType ==
  ASSUME NEW f \in FifoContents, NEW p, read_last_packet(f, p)
  PROVE  p \in Packets
BY ZeroPacketType DEF read_last_packet, FifoContents

-----------------------------------------------------------------------------
(* The packet handler as the host calls it.                                *)

LEMMA UpcallTypes ==
  /\ Handler!NoUpcall \in UpcallRecords
  /\ \A p \in Packets: Handler!CommandUpcall(p) \in UpcallRecords
  /\ \A s \in Seq(Packets): Handler!EndUpcall(s) \in UpcallRecords
BY DEF Handler!NoUpcall, Handler!CommandUpcall, Handler!EndUpcall, UpcallRecords

LEMMA CapturedType ==
  ASSUME HandlerTypes
  PROVE  /\ captured_n \in Nat
         /\ Handler!Captured \in Seq(Packets)
         /\ Len(Handler!Captured) = captured_n
         /\ \A i \in 1..captured_n: Handler!Captured[i] = captured_packet_arr[i - 1]
<1>1. captured_n \in Nat
  BY Parameters DEF HandlerTypes, Handler!TypeOK, Handler!PACKET_CAPTURE_MAX_COUNT
<1>2. \A i \in 1..captured_n: captured_packet_arr[i - 1] \in Packets
  BY <1>1 DEF HandlerTypes
<1> QED
  BY <1>1, <1>2 DEF Handler!Captured

\* A call of the handler keeps the types of its context.
LEMMA HandlerStepTypes ==
  ASSUME HandlerTypes, NEW p \in Packets, Handler!rx_packet_handler(p)
  PROVE  /\ Handler!TypeOK'
         /\ configured' = TRUE /\ remote_src_addr' = Sender
         /\ \A i \in 0..captured_n' - 1: captured_packet_arr'[i] \in Packets
<1> USE Parameters, UpcallTypes DEF HandlerTypes, UpcallRecords
<1>p. p.ack_id \in AckIds /\ p.sequence_number \in UInt8
  BY DEF Packets
<1>m. Handler!PACKET_CAPTURE_MAX_COUNT \in Nat
  BY DEF Handler!PACKET_CAPTURE_MAX_COUNT
<1>n. captured_n \in Nat /\ captured_n <= Handler!PACKET_CAPTURE_MAX_COUNT
  BY <1>m DEF Handler!TypeOK
<1>u. Handler!UInt8 = UInt8 /\ Handler!Packets = Packets
  BY DEF Handler!UInt8, UInt8, Handler!Packets, Packets
<1>1. CASE Handler!WrongAddress(p) \/ Handler!RedundantPacket(p)
  BY <1>1, <1>u DEF Handler!WrongAddress, Handler!RedundantPacket, Handler!Return, Handler!ctx,
              Handler!captureVars, Handler!dedupVars, Handler!TypeOK, Handler!ReturnCodes
<1>2. ASSUME Handler!Accept(p), UNCHANGED Handler!captureVars,
             ret' \in Handler!ReturnCodes, upcall' \in UpcallRecords
      PROVE  /\ Handler!TypeOK'
             /\ configured' = TRUE /\ remote_src_addr' = Sender
             /\ \A i \in 0..captured_n' - 1: captured_packet_arr'[i] \in Packets
  BY <1>2, <1>p, <1>u DEF Handler!Accept, Handler!captureVars, Handler!TypeOK
<1>3. CASE Handler!HandleBegin(p)
  <2>1. CASE capture
    BY <1>2, <1>3, <2>1 DEF Handler!HandleBegin, Handler!Return, Handler!ReturnCodes
  <2>2. CASE ~capture
    <3>1. captured_n' \in 0..Handler!PACKET_CAPTURE_MAX_COUNT /\ captured_n' = 0
      BY <1>3, <1>m, <2>2 DEF Handler!HandleBegin
    <3>2. ret' \in Handler!ReturnCodes
      BY <1>3, <2>2 DEF Handler!HandleBegin, Handler!Return, Handler!ReturnCodes
    <3> QED
      BY <1>3, <1>p, <1>u, <2>2, <3>1, <3>2
         DEF Handler!HandleBegin, Handler!Accept, Handler!Return, Handler!TypeOK
  <2> QED
    BY <2>1, <2>2 DEF Handler!TypeOK
<1>4. CASE Handler!CaptureData(p)
  <2>1. /\ captured_n \in Handler!Slots
        /\ captured_n' = captured_n + 1
        /\ captured_n' \in 0..Handler!PACKET_CAPTURE_MAX_COUNT
    BY <1>4, <1>m, <1>n DEF Handler!CaptureData, Handler!ArrayFull, Handler!Slots
  <2>2. captured_packet_arr' \in [Handler!Slots -> Packets \cup {NULL}]
    BY <1>4, <1>u, <2>1 DEF Handler!CaptureData, Handler!TypeOK
  <2>3. \A i \in 0..captured_n' - 1: captured_packet_arr'[i] \in Packets
    <3> TAKE i \in 0..captured_n' - 1
    <3>1. CASE i = captured_n
      BY <1>4, <2>1, <3>1 DEF Handler!CaptureData, Handler!TypeOK
    <3>2. CASE i # captured_n
      <4>1. i \in 0..captured_n - 1 /\ i \in Handler!Slots
        BY <1>m, <1>n, <2>1, <3>2 DEF Handler!Slots
      <4>2. captured_packet_arr'[i] = captured_packet_arr[i]
        BY <1>4, <3>2, <4>1 DEF Handler!CaptureData, Handler!TypeOK
      <4> QED
        BY <4>1, <4>2
    <3> QED
      BY <3>1, <3>2
  <2>4. ret' \in Handler!ReturnCodes
    BY <1>4 DEF Handler!CaptureData, Handler!Return, Handler!ReturnCodes
  <2> QED
    BY <1>4, <1>p, <1>u, <2>1, <2>2, <2>3, <2>4
       DEF Handler!CaptureData, Handler!Accept, Handler!Return, Handler!TypeOK
<1>5. CASE Handler!RefuseData(p)
  BY <1>2, <1>5 DEF Handler!RefuseData, Handler!Return, Handler!ReturnCodes
<1>6. CASE Handler!DataOutsideCapture(p)
  <2>1. ret' \in Handler!ReturnCodes /\ upcall' \in UpcallRecords
    BY <1>6 DEF Handler!DataOutsideCapture, Handler!Return, Handler!ReturnCodes
  <2> QED
    BY <1>2, <1>6, <2>1 DEF Handler!DataOutsideCapture
<1>7. CASE Handler!HandleEnd(p)
  <2>1. ret' \in Handler!ReturnCodes /\ upcall' \in UpcallRecords
    BY <1>7, CapturedType DEF Handler!HandleEnd, Handler!Return, Handler!ReturnCodes
  <2>2. CASE capture
    <3>1. captured_n' \in 0..Handler!PACKET_CAPTURE_MAX_COUNT /\ captured_n' = 0
      BY <1>7, <1>m, <2>2 DEF Handler!HandleEnd, Handler!ResetCapture
    <3>2. /\ capture' = FALSE /\ capture_ack_id' = 0
          /\ UNCHANGED <<captured_packet_arr, configured, remote_src_addr>>
          /\ last_received_ack_id' = p.ack_id
          /\ last_received_seq_number' = p.sequence_number
      BY <1>7, <2>2 DEF Handler!HandleEnd, Handler!ResetCapture, Handler!Accept
    <3>3. Handler!TypeOK'
      BY <1>p, <1>u, <2>1, <3>1, <3>2 DEF Handler!TypeOK
    <3> QED
      BY <3>1, <3>2, <3>3
  <2>3. CASE ~capture
    BY <1>2, <1>7, <2>1, <2>3 DEF Handler!HandleEnd
  <2> QED
    BY <2>2, <2>3 DEF Handler!TypeOK
<1>8. CASE Handler!HandleUnknown(p)
  BY <1>2, <1>8 DEF Handler!HandleUnknown, Handler!Return, Handler!ReturnCodes
<1> QED
  BY <1>1, <1>3, <1>4, <1>5, <1>6, <1>7, <1>8 DEF Handler!rx_packet_handler

-----------------------------------------------------------------------------
(* The types are invariant: lemmas about what leaves each group alone, and *)
(* about the pieces the sender's steps are made of.                        *)

LEMMA SenderTypesStutter ==
  ASSUME SenderTypes, UNCHANGED senderVars
  PROVE  SenderTypes'
BY DEF SenderTypes, senderVars, jobVars, sendVars

LEMMA HandlerTypesStutter ==
  ASSUME HandlerTypes, UNCHANGED hostVars
  PROVE  HandlerTypes'
BY DEF HandlerTypes, hostVars, handlerVars, Handler!TypeOK

LEMMA LoopTypesStutter ==
  ASSUME LoopTypes, UNCHANGED <<loopVars, restarts>>
  PROVE  LoopTypes'
BY DEF LoopTypes, loopVars

\* A receive loop's step to l, with whatever packet in hand.
LEMMA LoopTypesStep ==
  ASSUME LoopTypes, NEW r \in Receivers,
         NEW l \in {"rearm", "poll", "ack", "handle", "exited"},
         pc' = [pc EXCEPT ![r] = l],
         rx_p' = rx_p \/ \E p \in Packets: rx_p' = [rx_p EXCEPT ![r] = p],
         restarts' = restarts
  PROVE  LoopTypes'
BY DEF LoopTypes

LEMMA RadioTypesStutter ==
  ASSUME RadioTypes, UNCHANGED radioVars
  PROVE  RadioTypes'
BY DEF RadioTypes, radioVars

LEMMA ReportTypes ==
  ASSUME SenderTypes, job > 0, NEW code \in Outcomes, Report(code)
  PROVE  SenderTypes'
<1>1. job \in DOMAIN jobs
  BY SenderFacts
<1> QED
  BY <1>1 DEF Report, SenderTypes

LEMMA NextPacketTypes ==
  ASSUME SenderTypes, job > 0, NextPacket
  PROVE  SenderTypes'
<1>1. CASE idx = Len(p_buf)
  BY <1>1, ReportTypes DEF NextPacket, Outcomes
<1>2. CASE idx # Len(p_buf)
  <2>1. idx + 1 \in 1..PacketCount(jobs, job)
    BY <1>2, SenderFacts DEF SenderTypes
  <2>2. 1 \in 1..timeout_n
    BY AttemptAssumption
  <2> QED
    BY <1>2, <2>1, <2>2 DEF NextPacket, SenderTypes, jobVars
<1> QED
  BY <1>1, <1>2

LEMMA NextAttemptTypes ==
  ASSUME SenderTypes, job > 0, NextAttempt
  PROVE  SenderTypes'
<1>1. CASE Exhausted
  BY <1>1, ReportTypes DEF NextAttempt, Outcomes
<1>2. CASE ~Exhausted
  <2>1. attempt + 1 \in 1..timeout_n
    BY <1>2, AttemptAssumption DEF Exhausted, SenderTypes
  <2> QED
    BY <1>2, <2>1 DEF NextAttempt, SenderTypes, jobVars
<1> QED
  BY <1>1, <1>2

LEMMA InitTypes == Init => Types
<1> SUFFICES ASSUME Init PROVE Types
  OBVIOUS
<1> USE Parameters DEF Init
<1>1. SenderTypes
  <2>1. Len(jobs) \in Nat
    BY WorkloadAssumption
  <2>2. 1 \in 1..timeout_n
    BY AttemptAssumption
  <2> QED
    BY <2>1, <2>2 DEF SenderTypes, Outcomes
<1>2. RadioTypes
  BY DEF RadioTypes, FifoContents
<1>3. LoopTypes
  BY ZeroPacketType, FaultsAssumption DEF LoopTypes
<1>4. HandlerTypes
  <2>1. Handler!TypeOK
    <3>1. captured_n \in 0..Handler!PACKET_CAPTURE_MAX_COUNT
      BY DEF Handler!PACKET_CAPTURE_MAX_COUNT
    <3>2. /\ Handler!UInt8 = UInt8 /\ Handler!Packets = Packets
          /\ 0 \in UInt8 /\ ret \in Handler!ReturnCodes
      BY DEF Handler!UInt8, UInt8, Handler!Packets, Packets, Handler!ReturnCodes
    <3>3. upcall \in UpcallRecords
      BY UpcallTypes
    <3>4. captured_packet_arr \in [Handler!Slots -> Packets \cup {NULL}]
      OBVIOUS
    <3> HIDE DEF Init
    <3>5. /\ configured \in BOOLEAN /\ remote_src_addr \in Addrs /\ capture \in BOOLEAN
          /\ capture_ack_id \in AckIds /\ last_received_ack_id \in AckIds
          /\ last_received_seq_number \in UInt8
      BY <3>2 DEF Init
    <3> QED
      BY <3>1, <3>2, <3>3, <3>4, <3>5 DEF Handler!TypeOK, UpcallRecords
  <2> QED
    BY <2>1 DEF HandlerTypes
<1> QED
  BY <1>1, <1>2, <1>3, <1>4 DEF Types

\* A restart of the host leaves a context that is configured for the sender.
LEMMA HandlerInitTypes ==
  ASSUME HandlerTypes, Handler!rx_handler_init(Sender), delivered' = delivered
  PROVE  HandlerTypes'
<1>1. captured_n' \in 0..Handler!PACKET_CAPTURE_MAX_COUNT /\ captured_n' = 0
  BY Parameters DEF Handler!rx_handler_init, Handler!PACKET_CAPTURE_MAX_COUNT
<1>2. /\ Handler!UInt8 = UInt8 /\ Handler!Packets = Packets
      /\ 0 \in UInt8 /\ ret' \in Handler!ReturnCodes
  BY Parameters
     DEF Handler!rx_handler_init, Handler!UInt8, UInt8, Handler!Packets, Packets,
         Handler!ReturnCodes
<1>3. upcall' \in UpcallRecords
  BY UpcallTypes DEF Handler!rx_handler_init
<1>4. captured_packet_arr' \in [Handler!Slots -> Packets \cup {NULL}]
  BY DEF Handler!rx_handler_init
<1>5. /\ configured' = TRUE /\ remote_src_addr' = Sender /\ capture' \in BOOLEAN
      /\ capture_ack_id' \in AckIds /\ last_received_ack_id' \in AckIds
      /\ last_received_seq_number' \in UInt8
  BY <1>2, Parameters DEF Handler!rx_handler_init
<1>6. Handler!TypeOK'
  BY <1>1, <1>2, <1>3, <1>4, <1>5, Parameters DEF Handler!TypeOK, UpcallRecords
<1> QED
  BY <1>1, <1>5, <1>6 DEF HandlerTypes

\* No step of the sender, of the loops or of the host breaks the types.
LEMMA SenderStepTypes ==
  ASSUME Types, StartJob \/ SenderStep \/ TransmitFails \/ PollFails
  PROVE  Types'
<1> USE Parameters DEF Types
<1>1. CASE StartJob
  <2>1. SenderTypes'
    <3>w. jobs \in Seq(Transfers)
      BY WorkloadAssumption DEF SenderTypes, Transfers
    <3>1. Len(jobs) \in Nat /\ job \in Nat
      BY <3>w DEF SenderTypes
    <3>2. job + 1 \in 1..Len(jobs) /\ job + 1 \in DOMAIN jobs
      BY <1>1, <3>w, <3>1 DEF StartJob
    <3>3. 1 \in 1..PacketCount(jobs, job + 1) /\ 1 \in 1..timeout_n
      BY <3>2, JobTypes, AttemptAssumption DEF SenderTypes
    <3>4. /\ job' = job + 1 /\ idx' = 1 /\ attempt' = 1 /\ s_pc' = "send"
          /\ UNCHANGED <<faults, jobs, result>>
      BY <1>1 DEF StartJob
    <3> QED
      BY <3>1, <3>2, <3>3, <3>4 DEF SenderTypes
  <2>2. UNCHANGED <<radioVars, loopVars, restarts, hostVars>>
    BY <1>1 DEF StartJob, hostVars
  <2> QED
    BY <2>1, <2>2, RadioTypesStutter, LoopTypesStutter, HandlerTypesStutter
<1>2. ASSUME s_pc # "idle", UNCHANGED <<loopVars, hostVars>>
      PROVE  job > 0 /\ LoopTypes' /\ HandlerTypes'
  <2>1. UNCHANGED restarts
    BY <1>2 DEF hostVars
  <2> QED
    BY <1>2, <2>1, LoopTypesStutter, HandlerTypesStutter DEF SenderTypes
<1>3. CASE Transmit
  <2>1. job > 0 /\ LoopTypes' /\ HandlerTypes'
    BY <1>2, <1>3 DEF Transmit
  <2>2. RadioTypes'
    <3>1. fifo' \in [Nodes -> FifoContents]
      BY <1>3, <2>1, SenderFacts, BroadcastEffect DEF Transmit
    <3> QED
      BY <1>3, <3>1 DEF Transmit, RadioTypes
  <2>3. SenderTypes'
    BY <1>3, <2>1 DEF Transmit, SenderTypes, jobVars
  <2> QED
    BY <2>1, <2>2, <2>3
<1>4. CASE Arm
  <2>1. LoopTypes' /\ HandlerTypes' /\ job > 0
    BY <1>2, <1>4 DEF Arm
  <2>2. RadioTypes'
    BY <1>4 DEF Arm, RadioTypes
  <2>3. SenderTypes'
    BY <1>4, <2>1 DEF Arm, SenderTypes, jobVars
  <2> QED
    BY <2>1, <2>2, <2>3
<1>5. CASE ReadReply
  <2>1. job > 0 /\ LoopTypes' /\ HandlerTypes'
    BY <1>2, <1>5 DEF ReadReply
  <2>2. \/ NextPacket /\ SetRadio(Sender, "SLEEP")
        \/ NextAttempt /\ SetRadio(Sender, "STDBY")
    BY <1>5 DEF ReadReply
  <2> QED
    BY <2>1, <2>2, SetRadioTypes, NextPacketTypes, NextAttemptTypes
<1>6. CASE PollTimeout \/ PollFails
  <2>1. job > 0 /\ LoopTypes' /\ HandlerTypes'
    BY <1>2, <1>6 DEF PollTimeout, PollFails
  <2>2. NextAttempt /\ SetRadio(Sender, "STDBY")
    BY <1>6 DEF PollTimeout, PollFails
  <2> QED
    BY <2>1, <2>2, SetRadioTypes, NextAttemptTypes
<1>7. CASE TransmitFails
  <2>1. job > 0 /\ LoopTypes' /\ HandlerTypes'
    BY <1>2, <1>7 DEF TransmitFails
  <2>2. fifo' \in [Nodes -> FifoContents]
    <3>1. CASE Broadcast(Sender, curr_packet)
      BY <2>1, <3>1, SenderFacts, BroadcastEffect
    <3>2. CASE fifo' = [fifo EXCEPT ![Sender] = Nothing]
      BY <3>2 DEF RadioTypes, FifoContents
    <3> QED
      BY <1>7, <3>1, <3>2 DEF TransmitFails
  <2>3. RadioTypes'
    BY <1>7, <2>2 DEF TransmitFails, RadioTypes
  <2>4. SenderTypes'
    BY <1>7, <2>1, ReportTypes DEF TransmitFails, Outcomes
  <2> QED
    BY <2>1, <2>3, <2>4
<1> QED
  BY <1>1, <1>3, <1>4, <1>5, <1>6, <1>7 DEF SenderStep

LEMMA LoopStepTypes ==
  ASSUME Types, NEW r \in Receivers, LoopStep(r) \/ PollError(r) \/ LoopExits(r)
  PROVE  Types'
<1> USE Parameters DEF Types
<1>n. r \in Nodes
  OBVIOUS
<1>1. ASSUME UNCHANGED <<senderVars, hostVars>>
      PROVE  SenderTypes' /\ HandlerTypes' /\ restarts' = restarts
  BY <1>1, SenderTypesStutter, HandlerTypesStutter DEF hostVars
<1>2. CASE Rearm(r)
  <2>1. RadioTypes'
    BY <1>2, <1>n, SetRadioTypes DEF Rearm
  <2>2. LoopTypes'
    BY <1>1, <1>2, LoopTypesStep DEF Rearm
  <2> QED
    BY <1>1, <1>2, <2>1, <2>2 DEF Rearm
<1>3. CASE Receive(r)
  <2>1. RadioTypes'
    BY <1>3, <1>n, SetRadioTypes DEF Receive
  <2>2. \E p \in Packets: rx_p' = [rx_p EXCEPT ![r] = p]
    <3>1. PICK p: read_last_packet(fifo[r], p) /\ rx_p' = [rx_p EXCEPT ![r] = p]
      BY <1>3 DEF Receive
    <3>2. fifo[r] \in FifoContents
      BY <1>n DEF RadioTypes
    <3> QED
      BY <3>1, <3>2, ReadType
  <2>3. LoopTypes'
    BY <1>1, <1>3, <2>2, LoopTypesStep DEF Receive
  <2> QED
    BY <1>1, <1>3, <2>1, <2>3 DEF Receive
<1>4. Acknowledgement(rx_p[r]) \in Packets
  BY AcknowledgementType DEF LoopTypes
<1>5. CASE SendAck(r)
  <2>1. fifo' \in [Nodes -> FifoContents]
    BY <1>4, <1>5, <1>n, BroadcastEffect DEF SendAck
  <2>2. RadioTypes'
    BY <1>5, <2>1 DEF SendAck, RadioTypes
  <2>3. LoopTypes'
    BY <1>1, <1>5, LoopTypesStep DEF SendAck
  <2> QED
    BY <1>1, <1>5, <2>2, <2>3 DEF SendAck
<1>6. CASE HandlePacket
  <2>1. rx_p[Host] \in Packets
    BY DEF LoopTypes
  <2>2. HandlerTypes'
    <3>1. /\ Handler!TypeOK'
          /\ configured' = TRUE /\ remote_src_addr' = Sender
          /\ \A i \in 0..captured_n' - 1: captured_packet_arr'[i] \in Packets
      BY <1>6, <2>1, HandlerStepTypes DEF HandlePacket
    <3>2. upcall' \in UpcallRecords
      <4>1. Handler!Packets = Packets
        BY DEF Handler!Packets, Packets, Handler!UInt8, UInt8
      <4> QED
        BY <3>1, <4>1 DEF Handler!TypeOK, UpcallRecords
    <3>3. delivered' \in Seq(UpcallRecords)
      BY <1>6, <3>2, AppendProperties DEF HandlePacket, HandlerTypes
    <3> QED
      BY <3>1, <3>3 DEF HandlerTypes
  <2>3. LoopTypes'
    BY <1>6, LoopTypesStep DEF HandlePacket
  <2>4. SenderTypes' /\ RadioTypes'
    BY <1>6, SenderTypesStutter, RadioTypesStutter DEF HandlePacket
  <2> QED
    BY <2>2, <2>3, <2>4
<1>7. CASE BystanderHandles(r) \/ PollError(r)
  <2>1. RadioTypes'
    BY <1>7, RadioTypesStutter DEF BystanderHandles, PollError
  <2>2. LoopTypes'
    BY <1>1, <1>7, LoopTypesStep DEF BystanderHandles, PollError
  <2> QED
    BY <1>1, <1>7, <2>1, <2>2 DEF BystanderHandles, PollError
<1>8. CASE LoopExits(r)
  <2>1. RadioTypes'
    <3>1. CASE UNCHANGED radioVars
      BY <3>1, RadioTypesStutter
    <3>2. CASE /\ Broadcast(r, Acknowledgement(rx_p[r])) \/ UNCHANGED fifo
               /\ mode' = [mode EXCEPT ![r] = "STDBY"]
      <4>1. fifo' \in [Nodes -> FifoContents]
        BY <1>4, <1>n, <3>2, BroadcastEffect DEF RadioTypes
      <4> QED
        BY <3>2, <4>1 DEF RadioTypes
    <3> QED
      BY <1>8, <3>1, <3>2 DEF LoopExits
  <2>2. LoopTypes'
    BY <1>1, <1>8, LoopTypesStep DEF LoopExits
  <2> QED
    BY <1>1, <1>8, <2>1, <2>2 DEF LoopExits
<1> QED
  BY <1>2, <1>3, <1>5, <1>6, <1>7, <1>8 DEF LoopStep

LEMMA RestartTypes ==
  ASSUME Types, Restart
  PROVE  Types'
<1> USE Parameters DEF Types
<1>1. SenderTypes' /\ RadioTypes'
  BY SenderTypesStutter, SetRadioTypes DEF Restart
<1>2. HandlerTypes'
  BY HandlerInitTypes DEF Restart
<1>3. LoopTypes'
  BY ZeroPacketType, FaultsAssumption DEF Restart, LoopTypes
<1> QED
  BY <1>1, <1>2, <1>3

LEMMA NextTypes == Types /\ [Next]_vars => Types'
<1> SUFFICES ASSUME Types, [Next]_vars PROVE Types'
  OBVIOUS
<1>1. CASE UNCHANGED vars
  BY <1>1, SenderTypesStutter, RadioTypesStutter, LoopTypesStutter, HandlerTypesStutter
     DEF vars, hostVars, Types
<1> QED
  BY <1>1, SenderStepTypes, LoopStepTypes, RestartTypes DEF Next

LEMMA TypesInvariant == Spec => []Types
BY InitTypes, NextTypes, PTL DEF Spec

\* Whatever fails and however many nodes listen, the sender's position lies in
\* the transfer it is sending, a radio holds a packet or nothing, and every loop
\* has a packet in hand (send_burst, start_rx_loop, rx_packet_handler).
THEOREM TypeCorrect == Spec => []TypeOK
<1>1. Types => TypeOK
  <2> SUFFICES ASSUME Types PROVE TypeOK
    OBVIOUS
  <2>1. job > 0 => idx \in 1..Len(p_buf)
    BY SenderFacts DEF Types, SenderTypes
  <2> QED
    BY <2>1 DEF Types, SenderTypes, RadioTypes, FifoContents, LoopTypes, HandlerTypes, TypeOK
<1> QED
  BY <1>1, TypesInvariant, PTL

-----------------------------------------------------------------------------
(* What the host has been handed.                                          *)

\* What the handler does with a packet it turns away or takes for a repetition.
LEMMA HandlerIgnores ==
  ASSUME NEW p, Handler!rx_packet_handler(p), ~Handler!ForUs(p) \/ Handler!Redundant(p)
  PROVE  UNCHANGED Handler!ctx /\ upcall' = Handler!NoUpcall
<1>1. Handler!WrongAddress(p) \/ Handler!RedundantPacket(p)
  BY DEF Handler!rx_packet_handler, Handler!HandleBegin, Handler!CaptureData,
         Handler!RefuseData, Handler!DataOutsideCapture, Handler!HandleEnd,
         Handler!HandleUnknown, Handler!Accept
<1> QED
  BY <1>1 DEF Handler!WrongAddress, Handler!RedundantPacket, Handler!Return

\* A packet that is turned away is not about to be handed over.
LEMMA NothingInHand ==
  ASSUME \/ pc[Host] # "handle"
         \/ ~Handler!ForUs(rx_p[Host])
         \/ Handler!Redundant(rx_p[Host])
  PROVE  InHand = <<>>
BY DEF InHand

\* The call-back the handler makes is the one that InHand announces.
LEMMA UpcallAnnounced ==
  ASSUME pc[Host] = "handle", Handler!rx_packet_handler(rx_p[Host])
  PROVE  \/ InHand = <<>> /\ upcall' = Handler!NoUpcall
         \/ InHand = <<upcall'>> /\ upcall'.kind # "none"
<1> DEFINE p == rx_p[Host]
<1>n. /\ Handler!NoUpcall.kind = "none"
      /\ Handler!CommandUpcall(p).kind = "command"
      /\ Handler!EndUpcall(Handler!Captured).kind = "end"
  BY DEF Handler!NoUpcall, Handler!CommandUpcall, Handler!EndUpcall
<1>4. CASE ~Handler!ForUs(p) \/ Handler!Redundant(p)
  BY <1>4, HandlerIgnores, NothingInHand
<1>5. ASSUME Handler!ForUs(p), ~Handler!Redundant(p)
      PROVE  InHand = CASE check_packet_type(p) = "PACKET_END" /\ capture
                             -> <<Handler!EndUpcall(Handler!Captured)>>
                        [] check_packet_type(p) = "PACKET_DATA" /\ p.ack_id # capture_ack_id
                             -> <<Handler!CommandUpcall(p)>>
                        [] OTHER -> <<>>
  BY <1>5 DEF InHand
<1>6. CASE \/ Handler!HandleBegin(p) \/ Handler!CaptureData(p) \/ Handler!RefuseData(p)
           \/ Handler!HandleUnknown(p)
  <2>1. Handler!ForUs(p) /\ ~Handler!Redundant(p) /\ upcall' = Handler!NoUpcall
    BY <1>6 DEF Handler!HandleBegin, Handler!CaptureData, Handler!RefuseData,
                Handler!HandleUnknown, Handler!Accept, Handler!Return
  <2>2. /\ check_packet_type(p) # "PACKET_END"
        /\ check_packet_type(p) = "PACKET_DATA" => p.ack_id = capture_ack_id
    BY <1>6 DEF Handler!HandleBegin, Handler!CaptureData, Handler!RefuseData,
                Handler!HandleUnknown, Handler!OfThisCapture, Handler!check_packet_type,
                check_packet_type
  <2> QED
    BY <1>5, <2>1, <2>2
<1>7. CASE Handler!DataOutsideCapture(p)
  <2>1. /\ Handler!ForUs(p) /\ ~Handler!Redundant(p)
        /\ check_packet_type(p) = "PACKET_DATA"
        /\ upcall' = IF p.ack_id # capture_ack_id THEN Handler!CommandUpcall(p)
                                                  ELSE Handler!NoUpcall
    BY <1>7 DEF Handler!DataOutsideCapture, Handler!Accept, Handler!Return,
                Handler!check_packet_type, check_packet_type
  <2> QED
    BY <1>5, <1>n, <2>1
<1>8. CASE Handler!HandleEnd(p)
  <2>1. /\ Handler!ForUs(p) /\ ~Handler!Redundant(p)
        /\ check_packet_type(p) = "PACKET_END"
        /\ upcall' = IF capture THEN Handler!EndUpcall(Handler!Captured)
                                ELSE Handler!NoUpcall
    BY <1>8 DEF Handler!HandleEnd, Handler!Accept, Handler!Return,
                Handler!check_packet_type, check_packet_type
  <2> QED
    BY <1>5, <1>n, <2>1
<1>9. \/ ~Handler!ForUs(p) \/ Handler!Redundant(p)
      \/ Handler!HandleBegin(p) \/ Handler!CaptureData(p) \/ Handler!RefuseData(p)
      \/ Handler!HandleUnknown(p) \/ Handler!DataOutsideCapture(p) \/ Handler!HandleEnd(p)
  BY DEF Handler!rx_packet_handler, Handler!WrongAddress, Handler!RedundantPacket
<1> QED
  BY <1>4, <1>6, <1>7, <1>8, <1>9

\* The host runs its handler, whatever its loop does next.
Handling ==
  /\ pc[Host] = "handle" /\ pc'[Host] # "handle"
  /\ Handler!rx_packet_handler(rx_p[Host])
  /\ delivered' = IF upcall'.kind = "none" THEN delivered ELSE Append(delivered, upcall')
  /\ UNCHANGED <<rx_p, senderVars>>

LEMMA HandlePacketHandles ==
  ASSUME Types, HandlePacket
  PROVE  Handling
BY Parameters DEF HandlePacket, Handling, Types, LoopTypes

LEMMA HandlerDelivers ==
  ASSUME Types, Handling
  PROVE  delivered' = delivered \o InHand /\ InHand' = <<>>
<1>1. InHand' = <<>>
  BY DEF Handling, InHand
<1>2. delivered \in Seq(UpcallRecords)
  BY DEF Types, HandlerTypes
<1>3. CASE InHand = <<>> /\ upcall' = Handler!NoUpcall
  BY <1>1, <1>2, <1>3, ConcatEmptySeq DEF Handling, Handler!NoUpcall
<1>4. CASE InHand = <<upcall'>> /\ upcall'.kind # "none"
  <2>1. Handler!TypeOK'
    BY HandlerStepTypes, Parameters DEF Handling, Types, LoopTypes
  <2>2. upcall' \in UpcallRecords
    BY <2>1 DEF Handler!TypeOK, UpcallRecords, Handler!Packets, Packets, Handler!UInt8, UInt8
  <2>3. delivered' = Append(delivered, upcall')
    BY <1>4 DEF Handling
  <2> QED
    BY <1>1, <1>2, <1>4, <2>2, <2>3, AppendIsConcat
<1> QED
  BY <1>3, <1>4, UpcallAnnounced DEF Handling

-----------------------------------------------------------------------------
(***************************************************************************)
(* Proofs about a link whose radios work: frames and acknowledgements are  *)
(* lost, damaged and late, but no register access fails, the host does not *)
(* restart and no third node answers in its name.  Then sender and host    *)
(* move in lock step, and the link is a reliable transfer.                 *)
(***************************************************************************)

\* What the handler asks of the transfers: no ack_id 0; a framed transfer fits
\* the capture array and one that is not is a single packet; and a command's
\* ack_id is not that of the next transfer.
HandlerRules ==
  \A w \in Workloads: \A j \in DOMAIN w:
    /\ w[j].ack_id # 0
    /\ IF w[j].framed THEN w[j].n <= UINT8_MAX - 1 ELSE w[j].n = 1
    /\ j > 1 /\ ~w[j - 1].framed => w[j - 1].ack_id # w[j].ack_id

RadiosWork == FaultSets \subseteq SUBSET {"lost", "corrupt", "early"}

-----------------------------------------------------------------------------
(* The packets of a transfer that follows the rules.                       *)

LEMMA PacketFields ==
  ASSUME HandlerRules, NEW w \in Workloads, NEW j \in DOMAIN w,
         NEW i \in 1..PacketCount(w, j)
  PROVE  LET p == PacketOf(w, j, i)
         IN /\ p \in Packets
            /\ p.dest_address = Host /\ p.src_address = Sender
            /\ p.ack_id = w[j].ack_id /\ p.ack_id # 0
            /\ p.sequence_number = IF w[j].framed /\ i = w[j].n + 2 THEN UINT8_MAX ELSE i - 1
            /\ p.payload = PayloadOf(w, j, i)
            /\ check_packet_type(p) = CASE w[j].framed /\ i = 1 -> "PACKET_BEGIN"
                                        [] w[j].framed /\ i = w[j].n + 2 -> "PACKET_END"
                                        [] OTHER -> "PACKET_DATA"
<1> DEFINE p == PacketOf(w, j, i)
<1> USE Parameters
<1>1. /\ w[j].framed \in BOOLEAN /\ w[j].n \in Nat \ {0}
      /\ \A k \in 1..w[j].n: <<j, k>> \in Payloads
      /\ PacketCount(w, j) \in Nat
  BY JobTypes
<1>2. w[j].ack_id # 0 /\ IF w[j].framed THEN w[j].n <= UINT8_MAX - 1 ELSE w[j].n = 1
  BY DEF HandlerRules
<1>3. /\ p.dest_address = Host /\ p.src_address = Sender /\ p.ack_id = w[j].ack_id
      /\ p.sequence_number = SequenceNumber(w, j, i) /\ p.payload = PayloadOf(w, j, i)
  BY DEF PacketOf, packet_constructor
<1>4. p \in Packets
  BY PacketType
<1>5. SequenceNumber(w, j, i) = IF w[j].framed /\ i = w[j].n + 2 THEN UINT8_MAX ELSE i - 1
  <2>1. CASE w[j].framed /\ i = w[j].n + 2
    BY <2>1 DEF SequenceNumber
  <2>2. CASE ~(w[j].framed /\ i = w[j].n + 2)
    <3>1. i - 1 \in Nat /\ i - 1 < UINT8_MAX + 1
      BY <1>1, <1>2, <2>2 DEF PacketCount
    <3>2. (i - 1) % (UINT8_MAX + 1) = i - 1
      BY <3>1
    <3> QED
      BY <2>2, <3>2 DEF SequenceNumber
  <2> QED
    BY <2>1, <2>2
<1>6. check_packet_type(p) = CASE w[j].framed /\ i = 1 -> "PACKET_BEGIN"
                               [] w[j].framed /\ i = w[j].n + 2 -> "PACKET_END"
                               [] OTHER -> "PACKET_DATA"
  <2>1. CASE w[j].framed /\ i = 1
    <3>1. p.payload = NoPayload /\ p.sequence_number = 0
      BY <1>1, <1>3, <1>5, <2>1 DEF PayloadOf
    <3> QED
      BY <2>1, <3>1, <1>1 DEF check_packet_type
  <2>2. CASE w[j].framed /\ i = w[j].n + 2
    <3>1. p.payload = NoPayload /\ p.sequence_number = UINT8_MAX /\ UINT8_MAX # 0 /\ i # 1
      BY <1>1, <1>3, <1>5, <2>2 DEF PayloadOf
    <3> QED
      BY <2>2, <3>1 DEF check_packet_type
  <2>3. CASE ~(w[j].framed /\ i \in {1, w[j].n + 2})
    <3>1. p.payload \in Payloads
      <4>1. CASE w[j].framed
        <5>1. i - 1 \in 1..w[j].n
          BY <1>1, <2>3, <4>1 DEF PacketCount
        <5> QED
          BY <1>1, <1>3, <2>3, <4>1, <5>1 DEF PayloadOf
      <4>2. CASE ~w[j].framed
        BY <1>1, <1>3, <4>2 DEF PayloadOf, PacketCount
      <4> QED
        BY <4>1, <4>2
    <3>2. p.payload # NoPayload
      BY <3>1, PayloadAssumption
    <3> QED
      BY <2>3, <3>2 DEF check_packet_type
  <2> QED
    BY <2>1, <2>2, <2>3
<1> QED
  BY <1>2, <1>3, <1>4, <1>5, <1>6

\* A packet of the link is for the host; what a receiver makes of noise is not.
LEMMA ForHost ==
  ASSUME HandlerTypes, HandlerRules, jobs \in Workloads,
         NEW j \in DOMAIN jobs, NEW i \in 1..PacketCount(jobs, j)
  PROVE  Handler!ForUs(PacketOf(jobs, j, i)) /\ ~Handler!ForUs(ZeroPacket)
<1>1. remote_src_addr = Sender
  BY DEF HandlerTypes
<1>2. /\ PacketOf(jobs, j, i).dest_address = Host
      /\ PacketOf(jobs, j, i).src_address = Sender
  BY PacketFields
<1>3. ZeroPacket.dest_address = 0
  BY DEF ZeroPacket, packet_constructor
<1> QED
  BY <1>1, <1>2, <1>3, Parameters DEF Handler!ForUs

-----------------------------------------------------------------------------
(* Where the host is.                                                      *)

\* The call-back for transfer j, when all of it has been taken.
UpcallOf(w, j) ==
  IF w[j].framed
    THEN Handler!EndUpcall([x \in 1..w[j].n |-> PacketOf(w, j, x + 1)])
    ELSE Handler!CommandUpcall(PacketOf(w, j, 1))

NotCapturing == ~capture /\ capture_ack_id = 0 /\ captured_n = 0

\* The capture holds the fragments in packets 2..i of transfer j.
CapturedUpTo(j, i) ==
  /\ capture /\ capture_ack_id = jobs[j].ack_id /\ captured_n = i - 1
  /\ \A x \in 0..captured_n - 1: captured_packet_arr[x] = PacketOf(jobs, j, x + 2)

\* The host is between transfers, with those before j handed over, and will not
\* take the first packet of j for a repetition.
Before(j) ==
  /\ NotCapturing
  /\ Len(delivered) = j - 1
  /\ j \in DOMAIN jobs => ~Handler!Redundant(PacketOf(jobs, j, 1))

\* The host has taken packets 1..i of transfer j, the last one last.
After(j, i) ==
  /\ Handler!Redundant(PacketOf(jobs, j, i))
  /\ IF jobs[j].framed /\ i < PacketCount(jobs, j) THEN CapturedUpTo(j, i) ELSE NotCapturing
  /\ Len(delivered) = IF i = PacketCount(jobs, j) THEN j ELSE j - 1

\* The host waits for packet i of transfer j.
Ready(j, i) == IF i = 1 THEN Before(j) ELSE After(j, i - 1)

\* The last packet of a transfer is never followed by its like.
LEMMA FirstIsFresh ==
  ASSUME HandlerRules, NEW w \in Workloads, NEW j \in DOMAIN w, j + 1 \in DOMAIN w
  PROVE  LET p == PacketOf(w, j, PacketCount(w, j))
             q == PacketOf(w, j + 1, 1)
         IN p.ack_id # q.ack_id \/ p.sequence_number # q.sequence_number
<1> DEFINE p == PacketOf(w, j, PacketCount(w, j))
           q == PacketOf(w, j + 1, 1)
<1>1. /\ w[j].n \in Nat \ {0} /\ w[j + 1].n \in Nat \ {0}
      /\ w[j].framed \in BOOLEAN /\ j \in Nat \ {0}
      /\ PacketCount(w, j) \in Nat \ {0} /\ PacketCount(w, j + 1) \in Nat \ {0}
  BY JobTypes
<1>2. /\ p.ack_id = w[j].ack_id
      /\ w[j].framed => p.sequence_number = UINT8_MAX
  <2>1. PacketCount(w, j) \in 1..PacketCount(w, j)
    BY <1>1
  <2> QED
    BY <1>1, <2>1, PacketFields DEF PacketCount
<1>3. q.ack_id = w[j + 1].ack_id /\ q.sequence_number = 0
  <2>1. 1 \in 1..PacketCount(w, j + 1) /\ 1 # w[j + 1].n + 2 /\ 1 - 1 = 0
    BY <1>1
  <2> QED
    BY <2>1, PacketFields
<1>4. ~w[j].framed => w[j].ack_id # w[j + 1].ack_id
  <2>1. j + 1 > 1 /\ (j + 1) - 1 = j
    BY <1>1
  <2> QED
    BY <2>1 DEF HandlerRules
<1> HIDE DEF p, q
<1>5. p.ack_id # q.ack_id \/ p.sequence_number # q.sequence_number
  BY <1>2, <1>3, <1>4, Parameters
<1> QED
  BY <1>5 DEF p, q

\* The packet the host waits for is no repetition.
LEMMA ReadyForNext ==
  ASSUME Types, HandlerRules, NEW j \in DOMAIN jobs, NEW i \in 1..PacketCount(jobs, j),
         Ready(j, i)
  PROVE  /\ ~Handler!Redundant(PacketOf(jobs, j, i))
         /\ Len(delivered) = j - 1
         /\ IF jobs[j].framed /\ i > 1 THEN CapturedUpTo(j, i - 1) ELSE NotCapturing
<1>w. jobs \in Workloads
  BY DEF Types, SenderTypes
<1>t. /\ jobs[j].framed \in BOOLEAN /\ jobs[j].n \in Nat \ {0} /\ PacketCount(jobs, j) \in Nat
      /\ IF jobs[j].framed THEN jobs[j].n <= UINT8_MAX - 1 ELSE jobs[j].n = 1
  BY <1>w, JobTypes DEF HandlerRules
<1>1. CASE i = 1
  BY <1>1 DEF Ready, Before
<1>2. CASE i # 1
  <2>1. /\ i - 1 \in 1..PacketCount(jobs, j) /\ i - 1 # PacketCount(jobs, j)
        /\ i - 1 < PacketCount(jobs, j) /\ i > 1
    BY <1>t, <1>2
  <2>2. jobs[j].framed
    BY <1>t, <2>1 DEF PacketCount
  <2>3. /\ Handler!Redundant(PacketOf(jobs, j, i - 1))
        /\ CapturedUpTo(j, i - 1) /\ Len(delivered) = j - 1
    BY <1>2, <2>1, <2>2 DEF Ready, After
  <2>4. PacketOf(jobs, j, i).sequence_number # PacketOf(jobs, j, i - 1).sequence_number
    <3>1. PacketOf(jobs, j, i).sequence_number
            = IF i = jobs[j].n + 2 THEN UINT8_MAX ELSE i - 1
      BY <1>w, <2>2, PacketFields
    <3>2. PacketOf(jobs, j, i - 1).sequence_number = (i - 1) - 1
      <4>1. i - 1 # jobs[j].n + 2
        BY <1>t, <2>1, <2>2 DEF PacketCount
      <4> QED
        BY <1>w, <2>1, <4>1, PacketFields
    <3> QED
      BY <1>t, <2>2, <3>1, <3>2, Parameters DEF PacketCount
  <2> QED
    BY <2>1, <2>2, <2>3, <2>4 DEF Handler!Redundant
<1> QED
  BY <1>1, <1>2

\* The kinds of packet, and what the host's context says when it waits for one.
LEMMA ReadyCases ==
  ASSUME Types, HandlerRules, NEW j \in DOMAIN jobs, NEW i \in 1..PacketCount(jobs, j),
         Ready(j, i)
  PROVE  LET p == PacketOf(jobs, j, i)
         IN \/ /\ check_packet_type(p) = "PACKET_BEGIN"
               /\ jobs[j].framed /\ i = 1 /\ i # PacketCount(jobs, j) /\ ~capture
            \/ /\ check_packet_type(p) = "PACKET_DATA"
               /\ jobs[j].framed /\ i > 1 /\ i < PacketCount(jobs, j)
               /\ p.sequence_number = i - 1 /\ i - 1 < UINT8_MAX
               /\ CapturedUpTo(j, i - 1)
            \/ /\ check_packet_type(p) = "PACKET_END"
               /\ jobs[j].framed /\ i = PacketCount(jobs, j)
               /\ CapturedUpTo(j, i - 1)
            \/ /\ check_packet_type(p) = "PACKET_DATA"
               /\ ~jobs[j].framed /\ i = 1 /\ i = PacketCount(jobs, j) /\ NotCapturing
<1>w. jobs \in Workloads
  BY DEF Types, SenderTypes
<1>t. /\ jobs[j].framed \in BOOLEAN /\ jobs[j].n \in Nat \ {0} /\ PacketCount(jobs, j) \in Nat
      /\ IF jobs[j].framed THEN jobs[j].n <= UINT8_MAX - 1 ELSE jobs[j].n = 1
  BY <1>w, JobTypes DEF HandlerRules
<1> DEFINE p == PacketOf(jobs, j, i)
<1>p. /\ p.sequence_number
           = IF jobs[j].framed /\ i = jobs[j].n + 2 THEN UINT8_MAX ELSE i - 1
      /\ check_packet_type(p) = CASE jobs[j].framed /\ i = 1 -> "PACKET_BEGIN"
                                  [] jobs[j].framed /\ i = jobs[j].n + 2 -> "PACKET_END"
                                  [] OTHER -> "PACKET_DATA"
  BY <1>w, PacketFields
<1>r. IF jobs[j].framed /\ i > 1 THEN CapturedUpTo(j, i - 1) ELSE NotCapturing
  BY ReadyForNext
<1> HIDE DEF p
<1>1. CASE ~jobs[j].framed
  <2>1. i = 1 /\ i = PacketCount(jobs, j)
    BY <1>t, <1>1 DEF PacketCount
  <2> QED
    BY <1>p, <1>r, <1>1, <2>1 DEF p
<1>2. CASE jobs[j].framed /\ i = 1
  <2>1. i # PacketCount(jobs, j) /\ i # jobs[j].n + 2
    BY <1>t, <1>2 DEF PacketCount
  <2>2. ~capture
    BY <1>r, <1>2 DEF NotCapturing
  <2> QED
    BY <1>p, <1>2, <2>1, <2>2 DEF p
<1>3. CASE jobs[j].framed /\ i # 1
  <2>1. i > 1 /\ PacketCount(jobs, j) = jobs[j].n + 2
    BY <1>t, <1>3 DEF PacketCount
  <2>2. CASE i = jobs[j].n + 2
    BY <1>p, <1>r, <1>3, <2>1, <2>2 DEF p
  <2>3. CASE i # jobs[j].n + 2
    <3>1. i < PacketCount(jobs, j) /\ i - 1 < UINT8_MAX
      BY <1>t, <1>3, <2>1, <2>3, Parameters
    <3> QED
      BY <1>p, <1>r, <1>3, <2>1, <2>3, <3>1 DEF p
  <2> QED
    BY <2>2, <2>3
<1> QED
  BY <1>t, <1>1, <1>2, <1>3

\* What the end handler would be given, with all the fragments captured.
LEMMA CapturedWhole ==
  ASSUME Types, NEW j \in DOMAIN jobs, jobs[j].framed,
         CapturedUpTo(j, PacketCount(jobs, j) - 1)
  PROVE  Handler!Captured = [x \in 1..jobs[j].n |-> PacketOf(jobs, j, x + 1)]
<1>1. jobs[j].n \in Nat /\ PacketCount(jobs, j) = jobs[j].n + 2
  BY JobTypes DEF Types, SenderTypes, PacketCount
<1>2. captured_n = jobs[j].n
  BY <1>1 DEF CapturedUpTo
<1>3. \A x \in 1..captured_n: captured_packet_arr[x - 1] = PacketOf(jobs, j, x + 1)
  <2> TAKE x \in 1..captured_n
  <2>1. x - 1 \in 0..captured_n - 1 /\ (x - 1) + 2 = x + 1
    BY <1>1, <1>2
  <2>2. captured_packet_arr[x - 1] = PacketOf(jobs, j, (x - 1) + 2)
    BY <2>1 DEF CapturedUpTo
  <2> QED
    BY <2>1, <2>2
<1> QED
  BY <1>2, <1>3 DEF Handler!Captured

\* With the packet it waits for in hand, the host is about to hand over the
\* transfer when it is the last one, and nothing otherwise.
LEMMA InHandNext ==
  ASSUME Types, HandlerRules, NEW j \in DOMAIN jobs, NEW i \in 1..PacketCount(jobs, j),
         Ready(j, i), pc[Host] = "handle", rx_p[Host] = PacketOf(jobs, j, i)
  PROVE  InHand = IF i = PacketCount(jobs, j) THEN <<UpcallOf(jobs, j)>> ELSE <<>>
<1> DEFINE p == PacketOf(jobs, j, i)
<1>w. jobs \in Workloads
  BY DEF Types, SenderTypes
<1>p. p.ack_id = jobs[j].ack_id /\ p.ack_id # 0
  BY <1>w, PacketFields
<1>c. PacketCount(jobs, j) \in Nat /\ i \in Nat
  BY <1>w, JobTypes
<1>h. InHand = CASE check_packet_type(p) = "PACKET_END" /\ capture
                      -> <<Handler!EndUpcall(Handler!Captured)>>
                 [] check_packet_type(p) = "PACKET_DATA" /\ p.ack_id # capture_ack_id
                      -> <<Handler!CommandUpcall(p)>>
                 [] OTHER -> <<>>
  <2>1. Handler!ForUs(p) /\ ~Handler!Redundant(p)
    BY <1>w, ForHost, ReadyForNext DEF Types
  <2> QED
    BY <2>1 DEF InHand
<1> HIDE DEF p
<1>1. CASE check_packet_type(p) = "PACKET_BEGIN" /\ i # PacketCount(jobs, j)
  BY <1>h, <1>1
<1>2. CASE /\ check_packet_type(p) = "PACKET_DATA" /\ i < PacketCount(jobs, j)
           /\ CapturedUpTo(j, i - 1)
  BY <1>c, <1>h, <1>p, <1>2 DEF CapturedUpTo
<1>3. CASE /\ check_packet_type(p) = "PACKET_END" /\ jobs[j].framed
           /\ i = PacketCount(jobs, j) /\ CapturedUpTo(j, i - 1)
  <2>1. Handler!Captured = [x \in 1..jobs[j].n |-> PacketOf(jobs, j, x + 1)]
    BY <1>3, CapturedWhole
  <2>2. capture
    BY <1>3 DEF CapturedUpTo
  <2>3. InHand = <<Handler!EndUpcall(Handler!Captured)>>
    BY <1>h, <1>3, <2>2
  <2> QED
    BY <1>3, <2>1, <2>3 DEF UpcallOf
<1>4. CASE /\ check_packet_type(p) = "PACKET_DATA" /\ ~jobs[j].framed
           /\ i = 1 /\ i = PacketCount(jobs, j) /\ NotCapturing
  <2>1. InHand = <<Handler!CommandUpcall(p)>>
    BY <1>h, <1>p, <1>4 DEF NotCapturing
  <2> QED
    BY <1>4, <2>1 DEF UpcallOf, p
<1> QED
  BY <1>1, <1>2, <1>3, <1>4, ReadyCases DEF p

\* What is handed over for a transfer is its content.
LEMMA UpcallOfType ==
  ASSUME HandlerRules, NEW w \in Workloads, NEW j \in DOMAIN w
  PROVE  /\ UpcallOf(w, j) \in UpcallRecords
         /\ UpcallOf(w, j).kind = IF w[j].framed THEN "end" ELSE "command"
         /\ Contents(UpcallOf(w, j)) = [i \in 1..w[j].n |-> <<j, i>>]
<1>1. w[j].framed \in BOOLEAN /\ w[j].n \in Nat \ {0} /\ PacketCount(w, j) \in Nat \ {0}
  BY JobTypes
<1>2. CASE w[j].framed
  <2> DEFINE s == [x \in 1..w[j].n |-> PacketOf(w, j, x + 1)]
  <2>1. \A x \in 1..w[j].n: /\ x + 1 \in 1..PacketCount(w, j)
                            /\ PacketOf(w, j, x + 1).payload = <<j, x>>
    <3> TAKE x \in 1..w[j].n
    <3>1. x + 1 \in 1..PacketCount(w, j) /\ x + 1 \notin {1, w[j].n + 2} /\ (x + 1) - 1 = x
      BY <1>1, <1>2 DEF PacketCount
    <3>2. PayloadOf(w, j, x + 1) = <<j, x>>
      BY <1>2, <3>1 DEF PayloadOf
    <3> QED
      BY <3>1, <3>2 DEF PacketOf, packet_constructor
  <2>2. \A x \in 1..w[j].n: PacketOf(w, j, x + 1) \in Packets
    BY <2>1, PacketType
  <2>3. s \in Seq(Packets)
    BY <1>1, <2>2
  <2>4. UpcallOf(w, j) = [kind |-> "end", items |-> s]
    BY <1>2 DEF UpcallOf, Handler!EndUpcall
  <2>5. DOMAIN s = 1..w[j].n /\ \A x \in 1..w[j].n: s[x].payload = <<j, x>>
    BY <2>1
  <2> HIDE DEF s
  <2>6. Contents(UpcallOf(w, j)) = [i \in 1..w[j].n |-> <<j, i>>]
    BY <2>4, <2>5 DEF Contents
  <2>7. UpcallOf(w, j) \in UpcallRecords
    BY <2>3, <2>4 DEF UpcallRecords
  <2> QED
    BY <1>2, <2>4, <2>6, <2>7
<1>3. CASE ~w[j].framed
  <2>1. PacketOf(w, j, 1) \in Packets /\ PacketOf(w, j, 1).payload = <<j, 1>>
    <3>1. 1 \in 1..PacketCount(w, j)
      BY <1>1
    <3>2. PacketOf(w, j, 1) \in Packets
      BY <3>1, PacketType
    <3> QED
      BY <1>3, <3>2 DEF PacketOf, packet_constructor, PayloadOf
  <2>2. UpcallOf(w, j) = [kind |-> "command", items |-> <<PacketOf(w, j, 1)>>]
    BY <1>3 DEF UpcallOf, Handler!CommandUpcall
  <2>3. w[j].n = 1
    BY <1>3 DEF HandlerRules
  <2>4. Contents(UpcallOf(w, j)) = [i \in 1..w[j].n |-> <<j, i>>]
    <3>1. Contents(UpcallOf(w, j))
            = [i \in DOMAIN <<PacketOf(w, j, 1)>> |-> <<PacketOf(w, j, 1)>>[i].payload]
      BY <2>2 DEF Contents
    <3>2. DOMAIN <<PacketOf(w, j, 1)>> = 1..1
      OBVIOUS
    <3>3. \A i \in 1..1: i = 1 /\ <<PacketOf(w, j, 1)>>[i].payload = <<j, i>>
      BY <2>1
    <3> QED
      BY <2>3, <3>1, <3>2, <3>3
  <2>5. UpcallOf(w, j) \in UpcallRecords
    BY <2>1, <2>2 DEF UpcallRecords
  <2> QED
    BY <1>3, <2>2, <2>4, <2>5
<1> QED
  BY <1>1, <1>2, <1>3

\* The host takes the packet it waits for.
LEMMA HostTakes ==
  ASSUME Types, HandlerRules, NEW j \in DOMAIN jobs, NEW i \in 1..PacketCount(jobs, j),
         Ready(j, i), Handling, rx_p[Host] = PacketOf(jobs, j, i)
  PROVE  After(j, i)'
<1> DEFINE p == PacketOf(jobs, j, i)
<1>w. jobs \in Workloads /\ jobs' = jobs
  BY DEF Types, SenderTypes, Handling, senderVars, jobVars
<1>t. /\ jobs[j].framed \in BOOLEAN /\ jobs[j].n \in Nat \ {0} /\ j \in Nat
      /\ PacketCount(jobs, j) \in Nat /\ i \in Nat
      /\ jobs[j].framed => jobs[j].n <= UINT8_MAX - 1
  BY <1>w, JobTypes DEF HandlerRules
<1>p. p.ack_id = jobs[j].ack_id
  BY <1>w, PacketFields
<1>f. Handler!ForUs(p) /\ ~Handler!Redundant(p)
  BY <1>w, ForHost, ReadyForNext DEF Types
<1>h. Handler!rx_packet_handler(p)
  BY DEF Handling
<1>a. Handler!Accept(p)
  BY <1>f, <1>h
     DEF Handler!rx_packet_handler, Handler!WrongAddress, Handler!RedundantPacket,
         Handler!HandleBegin, Handler!CaptureData, Handler!RefuseData,
         Handler!DataOutsideCapture, Handler!HandleEnd, Handler!HandleUnknown
<1>b. Handler!Redundant(PacketOf(jobs, j, i))'
  BY <1>a, <1>w DEF Handler!Accept, Handler!Redundant
<1>d. Len(delivered') = IF i = PacketCount(jobs, j) THEN j ELSE j - 1
  <2>1. delivered' = delivered \o InHand
    BY HandlerDelivers
  <2>2. InHand = IF i = PacketCount(jobs, j) THEN <<UpcallOf(jobs, j)>> ELSE <<>>
    BY InHandNext DEF Handling
  <2>3. Len(delivered) = j - 1 /\ delivered \in Seq(UpcallRecords)
    BY ReadyForNext DEF Types, HandlerTypes
  <2>4. UpcallOf(jobs, j) \in UpcallRecords
    BY <1>w, UpcallOfType
  <2>5. CASE i = PacketCount(jobs, j)
    <3>1. Len(<<UpcallOf(jobs, j)>>) = 1 /\ <<UpcallOf(jobs, j)>> \in Seq(UpcallRecords)
      BY <2>4
    <3> QED
      BY <1>t, <2>1, <2>2, <2>3, <2>5, <3>1, ConcatProperties
  <2>6. CASE i # PacketCount(jobs, j)
    BY <2>1, <2>2, <2>3, <2>6, ConcatEmptySeq
  <2> QED
    BY <2>5, <2>6
<1>k. check_packet_type(p) = Handler!check_packet_type(p)
  BY DEF check_packet_type, Handler!check_packet_type
<1> HIDE DEF p
<1>1. CASE /\ check_packet_type(p) = "PACKET_BEGIN"
           /\ jobs[j].framed /\ i = 1 /\ i # PacketCount(jobs, j) /\ ~capture
  <2>1. Handler!HandleBegin(p)
    BY <1>f, <1>h, <1>k, <1>1
       DEF Handler!rx_packet_handler, Handler!WrongAddress, Handler!RedundantPacket,
           Handler!CaptureData, Handler!RefuseData, Handler!DataOutsideCapture,
           Handler!HandleEnd, Handler!HandleUnknown
  <2>2. capture' /\ capture_ack_id' = jobs[j].ack_id /\ captured_n' = 0
    BY <1>1, <1>p, <2>1 DEF Handler!HandleBegin, p
  <2>3. CapturedUpTo(j, i)'
    BY <1>w, <1>1, <2>2 DEF CapturedUpTo
  <2>4. i < PacketCount(jobs, j)
    BY <1>t, <1>1
  <2> QED
    BY <1>b, <1>d, <1>w, <1>1, <2>3, <2>4 DEF After
<1>2. CASE /\ check_packet_type(p) = "PACKET_DATA"
           /\ jobs[j].framed /\ i > 1 /\ i < PacketCount(jobs, j)
           /\ p.sequence_number = i - 1 /\ i - 1 < UINT8_MAX
           /\ CapturedUpTo(j, i - 1)
  <2>0. /\ capture /\ capture_ack_id = jobs[j].ack_id /\ captured_n = (i - 1) - 1
        /\ \A x \in 0..captured_n - 1: captured_packet_arr[x] = PacketOf(jobs, j, x + 2)
    BY <1>2 DEF CapturedUpTo
  <2>n. /\ captured_n \in Nat /\ captured_n + 1 = i - 1 /\ captured_n + 2 = i
        /\ captured_n < UINT8_MAX - 1
    BY <1>t, <1>2, <2>0, Parameters
  <2>1. Handler!OfThisCapture(p) /\ ~Handler!ArrayFull /\ Handler!NextInSequence(p)
    BY <1>p, <1>2, <2>0, <2>n, Parameters
       DEF Handler!OfThisCapture, Handler!ArrayFull, Handler!NextInSequence,
           Handler!PACKET_CAPTURE_MAX_COUNT, p
  <2>2. Handler!CaptureData(p)
    BY <1>f, <1>h, <1>k, <1>2, <2>1
       DEF Handler!rx_packet_handler, Handler!WrongAddress, Handler!RedundantPacket,
           Handler!HandleBegin, Handler!RefuseData, Handler!DataOutsideCapture,
           Handler!HandleEnd, Handler!HandleUnknown
  <2>3. /\ captured_packet_arr' = [captured_packet_arr EXCEPT ![captured_n] = p]
        /\ captured_n' = captured_n + 1 /\ capture' = capture
        /\ capture_ack_id' = capture_ack_id
    BY <2>2 DEF Handler!CaptureData
  <2>4. \A x \in 0..captured_n' - 1: captured_packet_arr'[x] = PacketOf(jobs, j, x + 2)
    <3> TAKE x \in 0..captured_n' - 1
    <3>0. captured_packet_arr \in [Handler!Slots -> Packets \cup {NULL}]
      BY DEF Types, HandlerTypes, Handler!TypeOK, Handler!Packets, Packets, Handler!UInt8, UInt8
    <3>1. x \in Handler!Slots
      BY <2>3, <2>n, Parameters DEF Handler!Slots, Handler!PACKET_CAPTURE_MAX_COUNT
    <3>2. CASE x = captured_n
      BY <2>3, <2>n, <3>0, <3>1, <3>2 DEF p
    <3>3. CASE x # captured_n
      <4>1. x \in 0..captured_n - 1
        BY <2>3, <2>n, <3>3
      <4> QED
        BY <2>0, <2>3, <3>0, <3>1, <3>3, <4>1
    <3> QED
      BY <3>2, <3>3
  <2>5. CapturedUpTo(j, i)'
    BY <1>w, <2>0, <2>3, <2>4, <2>n DEF CapturedUpTo
  <2> QED
    BY <1>b, <1>d, <1>w, <1>2, <2>5 DEF After
<1>3. CASE /\ check_packet_type(p) = "PACKET_END"
           /\ jobs[j].framed /\ i = PacketCount(jobs, j)
           /\ CapturedUpTo(j, i - 1)
  <2>1. capture
    BY <1>3 DEF CapturedUpTo
  <2>2. Handler!HandleEnd(p)
    BY <1>f, <1>h, <1>k, <1>3
       DEF Handler!rx_packet_handler, Handler!WrongAddress, Handler!RedundantPacket,
           Handler!HandleBegin, Handler!CaptureData, Handler!RefuseData,
           Handler!DataOutsideCapture, Handler!HandleUnknown
  <2>3. NotCapturing'
    BY <2>1, <2>2 DEF Handler!HandleEnd, Handler!ResetCapture, NotCapturing
  <2>4. ~(i < PacketCount(jobs, j))
    BY <1>t, <1>3
  <2> QED
    BY <1>b, <1>d, <1>w, <1>3, <2>3, <2>4 DEF After
<1>4. CASE /\ check_packet_type(p) = "PACKET_DATA"
           /\ ~jobs[j].framed /\ i = 1 /\ i = PacketCount(jobs, j) /\ NotCapturing
  <2>1. ~Handler!OfThisCapture(p)
    BY <1>4 DEF Handler!OfThisCapture, NotCapturing
  <2>2. Handler!DataOutsideCapture(p)
    BY <1>f, <1>h, <1>k, <1>4, <2>1
       DEF Handler!rx_packet_handler, Handler!WrongAddress, Handler!RedundantPacket,
           Handler!HandleBegin, Handler!CaptureData, Handler!RefuseData,
           Handler!HandleEnd, Handler!HandleUnknown
  <2>3. NotCapturing'
    BY <1>4, <2>2 DEF Handler!DataOutsideCapture, Handler!captureVars, NotCapturing
  <2> QED
    BY <1>b, <1>d, <1>w, <1>4, <2>3 DEF After
<1> QED
  BY <1>1, <1>2, <1>3, <1>4, ReadyCases DEF p

\* Where the host is does not change by itself.
LEMMA PlaceStutter ==
  ASSUME UNCHANGED <<jobs, delivered, Handler!ctx>>
  PROVE  \A j, i: /\ Before(j)' <=> Before(j)
                  /\ After(j, i)' <=> After(j, i)
                  /\ Ready(j, i)' <=> Ready(j, i)
<1>1. \A p: Handler!Redundant(p)' <=> Handler!Redundant(p)
  BY DEF Handler!Redundant, Handler!ctx, Handler!dedupVars
<1>2. NotCapturing' <=> NotCapturing
  BY DEF NotCapturing, Handler!ctx, Handler!captureVars
<1>3. \A j, i: CapturedUpTo(j, i)' <=> CapturedUpTo(j, i)
  BY DEF CapturedUpTo, Handler!ctx, Handler!captureVars
<1>4. \A j: Before(j)' <=> Before(j)
  BY <1>1, <1>2 DEF Before
<1>5. \A j, i: After(j, i)' <=> After(j, i)
  BY <1>1, <1>2, <1>3 DEF After
<1> QED
  BY <1>4, <1>5 DEF Ready

-----------------------------------------------------------------------------
(* Sender and host together: where the host may be when the sender is at   *)
(* packet i of transfer j.                                                 *)

\* The packet before that one, if there is one.
HasPrev(j, i) == j > 1 \/ i > 1
PrevJob(j, i) == IF i > 1 THEN j ELSE j - 1
PrevIdx(j, i) == IF i > 1 THEN i - 1 ELSE PacketCount(jobs, j - 1)
PrevPacket(j, i) == PacketOf(jobs, PrevJob(j, i), PrevIdx(j, i))

\* The host has taken the packet.
UpToDate(j, i) ==
  /\ After(j, i)
  /\ pc[Host] = "handle" => rx_p[Host] \in {PacketOf(jobs, j, i), ZeroPacket}

\* The host waits for the packet, a repetition of the one before perhaps in its
\* hands.
OneBehind(j, i) ==
  /\ Ready(j, i)
  /\ HasPrev(j, i) => After(PrevJob(j, i), PrevIdx(j, i))
  /\ pc[Host] = "handle" => \/ rx_p[Host] \in {PacketOf(jobs, j, i), ZeroPacket}
                            \/ HasPrev(j, i) /\ rx_p[Host] = PrevPacket(j, i)

\* The host has acknowledged the packet before, and is about to take it.
TwoBehind(j, i) ==
  /\ HasPrev(j, i)
  /\ Ready(PrevJob(j, i), PrevIdx(j, i))
  /\ pc[Host] = "handle" /\ rx_p[Host] = PrevPacket(j, i)

Place(j, i) == UpToDate(j, i) \/ OneBehind(j, i) \/ TwoBehind(j, i)

\* The host is about to take the packet itself.
Taking(j, i) ==
  OneBehind(j, i) /\ pc[Host] = "handle" /\ rx_p[Host] = PacketOf(jobs, j, i)

\* Nothing of the packet is left on its way to the handler but the handling.
Taken(j, i) ==
  /\ fifo[Host] = Nothing /\ pc[Host] # "ack"
  /\ UpToDate(j, i) \/ Taking(j, i)

\* With a transfer taken whole, the host waits for the next one.
LEMMA AfterLast ==
  ASSUME Types, HandlerRules, NEW j \in DOMAIN jobs, After(j, PacketCount(jobs, j))
  PROVE  Before(j + 1)
<1>1. jobs \in Workloads /\ j \in Nat /\ PacketCount(jobs, j) \in Nat
  BY JobTypes DEF Types, SenderTypes
<1> QED
  BY <1>1, FirstIsFresh DEF After, Before, Handler!Redundant

LEMMA PrevInRange ==
  ASSUME Types, NEW j \in DOMAIN jobs, NEW i \in 1..PacketCount(jobs, j), HasPrev(j, i)
  PROVE  /\ PrevJob(j, i) \in DOMAIN jobs
         /\ PrevIdx(j, i) \in 1..PacketCount(jobs, PrevJob(j, i))
<1>1. jobs \in Workloads /\ jobs \in Seq(Transfers) /\ j \in 1..Len(jobs) /\ Len(jobs) \in Nat
  BY JobTypes DEF Types, SenderTypes
<1>2. PacketCount(jobs, j) \in Nat /\ i \in Nat
  BY <1>1, JobTypes
<1>3. CASE i > 1
  BY <1>2, <1>3 DEF PrevJob, PrevIdx
<1>4. CASE ~(i > 1)
  <2>1. j - 1 \in DOMAIN jobs
    BY <1>1, <1>4 DEF HasPrev
  <2>2. PacketCount(jobs, j - 1) \in Nat \ {0}
    BY <1>1, <2>1, JobTypes
  <2> QED
    BY <1>4, <2>1, <2>2 DEF PrevJob, PrevIdx
<1> QED
  BY <1>3, <1>4

\* The sender moves on: from packet i of transfer j to the next one, in the same
\* transfer or the next.
LEMMA Advance ==
  ASSUME Types, HandlerRules, NEW j \in DOMAIN jobs, NEW i \in 1..PacketCount(jobs, j),
         UpToDate(j, i) \/ Taking(j, i), NEW a, NEW b,
         \/ a = j /\ b = i + 1
         \/ a = j + 1 /\ b = 1 /\ i = PacketCount(jobs, j)
  PROVE  Place(a, b)
<1>1. j \in Nat \ {0} /\ i \in Nat \ {0}
  BY JobTypes DEF Types, SenderTypes
<1>2. HasPrev(a, b) /\ PrevJob(a, b) = j /\ PrevIdx(a, b) = i
  BY <1>1 DEF HasPrev, PrevJob, PrevIdx
<1>3. PrevPacket(a, b) = PacketOf(jobs, j, i)
  BY <1>2 DEF PrevPacket
<1>4. CASE UpToDate(j, i)
  <2>1. After(j, i)
    BY <1>4 DEF UpToDate
  <2>2. Ready(a, b)
    <3>1. CASE a = j /\ b = i + 1
      <4>1. b # 1 /\ b - 1 = i
        BY <1>1, <3>1
      <4> QED
        BY <2>1, <3>1, <4>1 DEF Ready
    <3>2. CASE a = j + 1 /\ b = 1 /\ i = PacketCount(jobs, j)
      BY <2>1, <3>2, AfterLast DEF Ready
    <3> QED
      BY <3>1, <3>2
  <2>3. OneBehind(a, b)
    BY <1>2, <1>3, <1>4, <2>1, <2>2 DEF OneBehind, UpToDate
  <2> QED
    BY <2>3 DEF Place
<1>5. CASE Taking(j, i)
  <2>1. Ready(j, i) /\ pc[Host] = "handle" /\ rx_p[Host] = PacketOf(jobs, j, i)
    BY <1>5 DEF Taking, OneBehind
  <2>2. TwoBehind(a, b)
    BY <1>2, <1>3, <2>1 DEF TwoBehind
  <2> QED
    BY <2>2 DEF Place
<1> QED
  BY <1>4, <1>5

\* A step of the sender alone, or of the host between two packets.
LEMMA PlaceUnmoved ==
  ASSUME UNCHANGED <<jobs, delivered, Handler!ctx>>,
         \/ UNCHANGED <<pc[Host], rx_p[Host]>>
         \/ pc[Host] # "handle" /\ pc'[Host] # "handle"
  PROVE  \A j, i: /\ UpToDate(j, i)' <=> UpToDate(j, i)
                  /\ Taking(j, i)' <=> Taking(j, i)
                  /\ Place(j, i)' <=> Place(j, i)
<1>1. \A j, i: /\ HasPrev(j, i)' <=> HasPrev(j, i)
               /\ PrevJob(j, i)' = PrevJob(j, i)
               /\ PrevIdx(j, i)' = PrevIdx(j, i)
               /\ PrevPacket(j, i)' = PrevPacket(j, i)
  BY DEF HasPrev, PrevJob, PrevIdx, PrevPacket
<1>2. \A j, i: After(j, i)' <=> After(j, i)
  BY PlaceStutter
<1>3. \A j, i: Ready(j, i)' <=> Ready(j, i)
  BY PlaceStutter
<1>4. \A j, i: UpToDate(j, i)' <=> UpToDate(j, i)
  BY <1>2 DEF UpToDate
<1>5. \A j, i: OneBehind(j, i)' <=> OneBehind(j, i)
  <2> TAKE j, i
  <2>1. After(PrevJob(j, i), PrevIdx(j, i))' <=> After(PrevJob(j, i), PrevIdx(j, i))
    BY <1>1, <1>2 DEF PrevJob, PrevIdx
  <2> QED
    BY <1>1, <1>3, <2>1 DEF OneBehind
<1>6. \A j, i: TwoBehind(j, i)' <=> TwoBehind(j, i)
  <2> TAKE j, i
  <2>1. Ready(PrevJob(j, i), PrevIdx(j, i))' <=> Ready(PrevJob(j, i), PrevIdx(j, i))
    BY <1>1, <1>3 DEF PrevJob, PrevIdx
  <2> QED
    BY <1>1, <2>1 DEF TwoBehind
<1>7. \A j, i: Taking(j, i)' <=> Taking(j, i)
  BY <1>5 DEF Taking
<1> QED
  BY <1>4, <1>5, <1>6, <1>7 DEF Place

\* The host has acknowledged the packet, or noise, and is about to handle it.
LEMMA PlaceAcknowledged ==
  ASSUME UNCHANGED <<jobs, delivered, Handler!ctx>>, NEW j, NEW i, Place(j, i),
         pc[Host] = "ack", pc'[Host] = "handle", rx_p' = rx_p,
         rx_p[Host] \in {PacketOf(jobs, j, i), ZeroPacket}
  PROVE  /\ Place(j, i)'
         /\ rx_p[Host] = PacketOf(jobs, j, i) => (UpToDate(j, i) \/ Taking(j, i))'
<1>1. After(j, i)' <=> After(j, i)
  BY PlaceStutter
<1>2. Ready(j, i)' <=> Ready(j, i)
  BY PlaceStutter
<1>3. After(PrevJob(j, i), PrevIdx(j, i))' <=> After(PrevJob(j, i), PrevIdx(j, i))
  <2>1. \A a, b: After(a, b)' <=> After(a, b)
    BY PlaceStutter
  <2> QED
    BY <2>1 DEF PrevJob, PrevIdx
<1>4. CASE UpToDate(j, i)
  <2>1. UpToDate(j, i)'
    BY <1>1, <1>4 DEF UpToDate
  <2> QED
    BY <2>1 DEF Place
<1>5. CASE OneBehind(j, i)
  <2>1. OneBehind(j, i)'
    BY <1>2, <1>3, <1>5 DEF OneBehind, HasPrev
  <2>2. rx_p[Host] = PacketOf(jobs, j, i) => Taking(j, i)'
    BY <2>1 DEF Taking
  <2> QED
    BY <2>1, <2>2 DEF Place
<1>6. ~TwoBehind(j, i)
  BY DEF TwoBehind
<1> QED
  BY <1>4, <1>5, <1>6 DEF Place

\* The host handles what it has in its hands.
LEMMA PlaceHandled ==
  ASSUME Types, HandlerRules, NEW j \in DOMAIN jobs, NEW i \in 1..PacketCount(jobs, j),
         Place(j, i), HandlePacket
  PROVE  /\ Place(j, i)'
         /\ UpToDate(j, i) \/ Taking(j, i) => UpToDate(j, i)'
<1>q. PICK a, b: a = PrevJob(j, i) /\ b = PrevIdx(j, i)
  OBVIOUS
<1>w. jobs \in Workloads /\ jobs' = jobs
  BY DEF Types, SenderTypes, HandlePacket, senderVars, jobVars
<1>h. pc[Host] = "handle" /\ pc'[Host] = "rearm"
  BY Parameters DEF HandlePacket, Types, LoopTypes
<1>z. ~Handler!ForUs(ZeroPacket)
  BY <1>w, ForHost DEF Types
<1>1. ASSUME Handler!Redundant(rx_p[Host]) \/ ~Handler!ForUs(rx_p[Host])
      PROVE  /\ \A x, y: /\ After(x, y)' <=> After(x, y)
                         /\ Ready(x, y)' <=> Ready(x, y)
  <2>1. UNCHANGED Handler!ctx /\ upcall' = Handler!NoUpcall
    BY <1>1, HandlerIgnores DEF HandlePacket
  <2>2. delivered' = delivered
    BY <2>1 DEF HandlePacket, Handler!NoUpcall
  <2> QED
    BY <1>w, <2>1, <2>2, PlaceStutter
<1>2. ASSUME NEW x, NEW y
      PROVE  /\ (After(x, y)' => UpToDate(x, y)')
  BY <1>h DEF UpToDate
<1>3. ASSUME Ready(j, i)', HasPrev(j, i) => After(a, b)'
      PROVE  OneBehind(j, i)'
  <2>1. PrevJob(j, i)' = a /\ PrevIdx(j, i)' = b /\ (HasPrev(j, i)' <=> HasPrev(j, i))
    BY <1>q, <1>w DEF PrevJob, PrevIdx, HasPrev
  <2>2. HasPrev(j, i)' => After(PrevJob(j, i), PrevIdx(j, i))'
    BY <1>3, <2>1
  <2> QED
    BY <1>h, <1>3, <2>2 DEF OneBehind
<1>4. CASE UpToDate(j, i)
  <2>1. Handler!Redundant(rx_p[Host]) \/ ~Handler!ForUs(rx_p[Host])
    BY <1>h, <1>z, <1>4 DEF UpToDate, After
  <2>2. After(j, i)'
    BY <1>1, <1>4, <2>1 DEF UpToDate
  <2> QED
    BY <1>2, <2>2 DEF Place
<1>5. CASE Taking(j, i)
  <2>1. After(j, i)'
    BY <1>5, HostTakes, HandlePacketHandles DEF Taking, OneBehind
  <2> QED
    BY <1>2, <2>1 DEF Place
<1>6. CASE OneBehind(j, i) /\ ~Taking(j, i) /\ ~UpToDate(j, i)
  <2>1. rx_p[Host] = ZeroPacket \/ (HasPrev(j, i) /\ rx_p[Host] = PrevPacket(j, i))
    BY <1>h, <1>6 DEF OneBehind, Taking
  <2>2. Handler!Redundant(rx_p[Host]) \/ ~Handler!ForUs(rx_p[Host])
    BY <1>z, <1>6, <2>1 DEF OneBehind, After, PrevPacket
  <2>3. Ready(j, i)' /\ (HasPrev(j, i) => After(a, b)')
    BY <1>q, <1>1, <1>6, <2>2 DEF OneBehind
  <2> QED
    BY <1>3, <1>6, <2>3 DEF Place
<1>7. CASE TwoBehind(j, i) /\ ~Taking(j, i) /\ ~UpToDate(j, i)
  <2>1. a \in DOMAIN jobs /\ b \in 1..PacketCount(jobs, a)
    BY <1>q, <1>7, PrevInRange DEF TwoBehind
  <2>2. After(a, b)'
    BY <1>q, <1>7, <2>1, HostTakes, HandlePacketHandles DEF TwoBehind, PrevPacket
  <2>3. Ready(j, i)'
    <3>1. CASE i > 1
      <4>1. i # 1 /\ a = j /\ b = i - 1
        BY <1>q, <3>1 DEF PrevJob, PrevIdx
      <4> QED
        BY <2>2, <4>1 DEF Ready
    <3>2. CASE ~(i > 1)
      <4>1. i = 1 /\ b = PacketCount(jobs, a) /\ a + 1 = j
        BY <1>q, <1>w, <3>2, JobTypes DEF PrevJob, PrevIdx
      <4>2. a \in Nat /\ PacketCount(jobs, a) \in Nat
        BY <1>w, <2>1, JobTypes
      <4>3. Before(a + 1)'
        BY <1>w, <2>1, <2>2, <4>1, <4>2, FirstIsFresh DEF After, Before, Handler!Redundant
      <4> QED
        BY <4>1, <4>3 DEF Ready
    <3> QED
      BY <3>1, <3>2
  <2> QED
    BY <1>3, <1>7, <2>2, <2>3 DEF Place
<1> QED
  BY <1>4, <1>5, <1>6, <1>7 DEF Place

-----------------------------------------------------------------------------
(* The invariant.                                                          *)

\* The host listens only while it polls, the sender only while it waits for an
\* answer, and nobody else does.
Radios ==
  /\ \A r \in Bystanders: pc[r] = "exited"
  /\ pc[Host] # "exited"
  /\ mode[Host] # "RX_SINGLE"
  /\ mode[Host] = "RX_CONTINUOUS" => pc[Host] = "poll"
  /\ fifo[Host] # Nothing => pc[Host] = "poll"
  /\ s_pc \in {"idle", "send"} =>
       fifo[Sender] = Nothing /\ mode[Sender] \in {"STDBY", "SLEEP"}

\* Whatever is on its way belongs to packet i of transfer j, or is noise; and its
\* acknowledgement is not on its way before it has been taken.
OnAir(j, i) ==
  /\ fifo[Host] \in {Nothing, Corrupt, PacketOf(jobs, j, i)}
  /\ pc[Host] = "ack" => rx_p[Host] \in {PacketOf(jobs, j, i), ZeroPacket}
  /\ fifo[Sender] \in {Nothing, Corrupt, Acknowledgement(ZeroPacket),
                       Acknowledgement(PacketOf(jobs, j, i))}
  /\ fifo[Sender] = Acknowledgement(PacketOf(jobs, j, i)) => Taken(j, i)

\* The sender has submitted transfer job only because all before it went well.
Results ==
  /\ \A j \in DOMAIN jobs: j < job => result[j] = "SX_OK"
  /\ \A j \in DOMAIN jobs: j > job => result[j] = "pending"
  /\ job > 0 => (s_pc = "idle" <=> result[job] # "pending")
  /\ job > 0 /\ result[job] = "SX_OK" => idx = PacketCount(jobs, job) /\ Taken(job, idx)

\* What the application has been given so far.
DeliveredSoFar ==
  \A k \in 1..Len(delivered): k \in DOMAIN jobs /\ delivered[k] = UpcallOf(jobs, k)

Positions ==
  IF job = 0
    THEN Before(1) /\ fifo[Host] = Nothing /\ pc[Host] \in {"rearm", "poll"}
    ELSE Place(job, idx) /\ OnAir(job, idx)

LockInv == Types /\ Radios /\ Results /\ DeliveredSoFar /\ Positions

LEMMA FewFaults ==
  ASSUME RadiosWork, Types
  PROVE  "spi" \notin faults /\ "restart" \notin faults /\ "neighbour" \notin faults
BY DEF RadiosWork, Types, SenderTypes

LEMMA AcknowledgementFields ==
  ASSUME NEW p
  PROVE  /\ Acknowledgement(p).src_address = p.dest_address
         /\ Acknowledgement(p).dest_address = p.src_address
BY DEF Acknowledgement, ack_packet, packet_constructor

LEMMA ZeroFields == ZeroPacket.src_address = 0 /\ ZeroPacket.dest_address = 0
BY DEF ZeroPacket, packet_constructor

\* The packet at the sender's position.
LEMMA CurrentFacts ==
  ASSUME Types, HandlerRules, job > 0
  PROVE  /\ jobs \in Workloads /\ job \in DOMAIN jobs /\ idx \in 1..PacketCount(jobs, job)
         /\ PacketOf(jobs, job, idx) \in Packets
         /\ curr_packet = PacketOf(jobs, job, idx)
         /\ Len(p_buf) = PacketCount(jobs, job)
         /\ curr_packet.dest_address = Host /\ curr_packet.src_address = Sender
         /\ PacketOf(jobs, job, idx) \notin {Nothing, Corrupt}
         /\ Acknowledgement(PacketOf(jobs, job, idx))
              \notin {Nothing, Corrupt, Acknowledgement(ZeroPacket)}
<1>1. /\ jobs \in Workloads /\ job \in DOMAIN jobs /\ idx \in 1..PacketCount(jobs, job)
      /\ curr_packet = PacketOf(jobs, job, idx) /\ Len(p_buf) = PacketCount(jobs, job)
  BY SenderFacts DEF Types, SenderTypes
<1>2. PacketOf(jobs, job, idx) \in Packets
  BY <1>1, PacketType
<1>3. /\ PacketOf(jobs, job, idx).dest_address = Host
      /\ PacketOf(jobs, job, idx).src_address = Sender
  BY <1>1, PacketFields
<1>4. Acknowledgement(PacketOf(jobs, job, idx)) # Acknowledgement(ZeroPacket)
  BY <1>3, AcknowledgementFields, ZeroFields, Parameters
<1>5. Acknowledgement(PacketOf(jobs, job, idx)) \in Packets
  BY <1>2, AcknowledgementType
<1> QED
  BY <1>1, <1>2, <1>3, <1>4, <1>5, FifoAssumption

LEMMA InitLock ==
  ASSUME HandlerRules, RadiosWork, Init
  PROVE  LockInv
<1>1. Types
  BY InitTypes
<1> USE Parameters DEF Init
<1>2. Radios
  <2>1. "neighbour" \notin faults
    BY DEF RadiosWork
  <2>2. \A r \in Bystanders: r # Host /\ r \in Receivers
    BY DistinctAssumption DEF Receivers
  <2> QED
    BY <2>1, <2>2 DEF Radios
<1>3. Results
  <2>1. \A j \in DOMAIN jobs: j \in Nat
    BY JobTypes
  <2> QED
    BY <2>1 DEF Results
<1>4. DeliveredSoFar
  BY DEF DeliveredSoFar
<1>5. Positions
  <2>1. ASSUME 1 \in DOMAIN jobs
        PROVE  ~Handler!Redundant(PacketOf(jobs, 1, 1))
    <3>1. 1 \in 1..PacketCount(jobs, 1)
      BY <2>1, JobTypes
    <3>2. PacketOf(jobs, 1, 1).ack_id # 0
      BY <2>1, <3>1, PacketFields
    <3> QED
      BY <3>2 DEF Handler!Redundant
  <2>2. Before(1)
    BY <2>1 DEF Before, NotCapturing
  <2> QED
    BY <2>2 DEF Positions
<1> HIDE DEF Init
<1> QED
  BY <1>1, <1>2, <1>3, <1>4, <1>5 DEF LockInv

-----------------------------------------------------------------------------
(* The sender's steps.                                                     *)

\* The next position after a packet that has been taken.
LEMMA MovesOn ==
  ASSUME Types, SenderTypes', HandlerRules, job > 0, Taken(job, idx),
         UNCHANGED <<jobs, loopVars, hostVars>>,
         fifo'[Sender] = Nothing, fifo'[Host] = Nothing,
         \/ job' = job /\ idx' = idx + 1
         \/ job' = job + 1 /\ idx' = 1 /\ idx = PacketCount(jobs, job)
  PROVE  Positions'
<1>1. PICK a, b: a = job' /\ b = idx'
  OBVIOUS
<1>2. job \in Nat /\ job' # 0
  BY CurrentFacts, JobTypes
<1>3. Place(a, b)
  <2>1. UpToDate(job, idx) \/ Taking(job, idx)
    BY DEF Taken
  <2> QED
    BY <1>1, <2>1, Advance, CurrentFacts
<1>4. Place(a, b)'
  <2>1. UNCHANGED <<jobs, delivered, Handler!ctx, pc[Host], rx_p[Host]>>
    BY DEF loopVars, hostVars, handlerVars, Handler!ctx, Handler!captureVars, Handler!dedupVars
  <2> QED
    BY <1>3, <2>1, PlaceUnmoved
<1>5. PacketOf(jobs, a, b) \in Packets
  <2>1. jobs \in Workloads /\ jobs \in Seq(Transfers)
    BY CurrentFacts, JobTypes
  <2>2. a \in DOMAIN jobs /\ b \in 1..PacketCount(jobs, a)
    <3>1. a \in 0..Len(jobs) /\ a > 0
      BY <1>1, <1>2 DEF SenderTypes
    <3>2. b \in 1..PacketCount(jobs, a)
      BY <1>1, <3>1 DEF SenderTypes
    <3> QED
      BY <2>1, <3>1, <3>2
  <2> QED
    BY <2>1, <2>2, PacketType
<1>6. OnAir(a, b)'
  <2>1. Acknowledgement(PacketOf(jobs, a, b)) # Nothing
    BY <1>5, AcknowledgementType, FifoAssumption
  <2>2. pc'[Host] # "ack"
    BY DEF Taken, loopVars
  <2> QED
    BY <2>1, <2>2 DEF OnAir
<1> QED
  BY <1>1, <1>2, <1>4, <1>6 DEF Positions

\* What the host and its application have does not depend on the sender's steps.
LEMMA DeliveredStutter ==
  ASSUME DeliveredSoFar, UNCHANGED <<jobs, hostVars>>
  PROVE  DeliveredSoFar'
BY DEF DeliveredSoFar, hostVars

LEMMA StartJobLock ==
  ASSUME LockInv, HandlerRules, StopOnFailure, StartJob
  PROVE  LockInv'
<1>1. Types'
  BY SenderStepTypes DEF LockInv
<1>j. /\ jobs \in Workloads /\ jobs \in Seq(Transfers) /\ Len(jobs) \in Nat /\ job \in Nat
      /\ \A j \in DOMAIN jobs: j \in Nat
      /\ job' = job + 1 /\ idx' = 1 /\ s_pc = "idle" /\ s_pc' = "send" /\ job + 1 \in DOMAIN jobs
      /\ UNCHANGED <<jobs, result, radioVars, loopVars, hostVars, mode, fifo, pc, rx_p>>
  <2>1. jobs \in Workloads /\ jobs \in Seq(Transfers)
    BY WorkloadAssumption DEF LockInv, Types, SenderTypes, Transfers
  <2>2. Len(jobs) \in Nat /\ job \in Nat
    BY <2>1 DEF LockInv, Types, SenderTypes
  <2> QED
    BY <2>1, <2>2 DEF StartJob, radioVars, loopVars
<1>2. Radios'
  BY <1>j DEF LockInv, Radios
<1>3. Results'
  <2>1. \A j \in DOMAIN jobs: j < job' => result[j] = "SX_OK"
    <3> TAKE j \in DOMAIN jobs
    <3>1. CASE j < job
      BY <3>1 DEF LockInv, Results
    <3>2. CASE j = job
      <4>1. j \in 1..job
        BY <1>j, <3>2
      <4> QED
        BY <4>1 DEF StartJob
    <3> QED
      BY <1>j, <3>1, <3>2
  <2>2. \A j \in DOMAIN jobs: j > job' => result[j] = "pending"
    BY <1>j DEF LockInv, Results
  <2>3. result[job + 1] = "pending"
    BY <1>j DEF LockInv, Results
  <2> QED
    BY <1>j, <2>1, <2>2, <2>3 DEF Results
<1>4. DeliveredSoFar'
  BY <1>j, DeliveredStutter DEF LockInv
<1>5. fifo[Sender] = Nothing
  BY <1>j DEF LockInv, Radios
<1>6. CASE job = 0
  <2>1. Before(1) /\ fifo[Host] = Nothing /\ pc[Host] \in {"rearm", "poll"}
    BY <1>6 DEF LockInv, Positions
  <2>2. OneBehind(1, 1)
    BY <2>1 DEF OneBehind, HasPrev, Ready
  <2>3. Place(1, 1)'
    <3>1. UNCHANGED <<jobs, delivered, Handler!ctx, pc[Host], rx_p[Host]>>
      BY <1>j DEF loopVars, hostVars, handlerVars, Handler!ctx, Handler!captureVars,
                  Handler!dedupVars
    <3> QED
      BY <2>2, <3>1, PlaceUnmoved DEF Place
  <2>4. OnAir(1, 1)'
    <3>1. 1 \in DOMAIN jobs /\ 1 \in 1..PacketCount(jobs, 1)
      BY <1>j, <1>6, JobTypes
    <3>2. Acknowledgement(PacketOf(jobs, 1, 1)) # Nothing
      BY <1>j, <3>1, PacketType, AcknowledgementType, FifoAssumption
    <3> QED
      BY <1>j, <1>5, <2>1, <3>2 DEF OnAir
  <2>5. job' = 1 /\ idx' = 1
    BY <1>j, <1>6
  <2>6. Positions'
    BY <2>3, <2>4, <2>5 DEF Positions
  <2> QED
    BY <1>1, <1>2, <1>3, <1>4, <2>6 DEF LockInv
<1>7. CASE job > 0
  <2>1. result[job] = "SX_OK"
    <3>1. job \in 1..job
      BY <1>j, <1>7
    <3> QED
      BY <3>1 DEF StartJob
  <2>2. idx = PacketCount(jobs, job) /\ Taken(job, idx)
    BY <1>7, <2>1 DEF LockInv, Results
  <2>3. fifo'[Host] = Nothing /\ fifo'[Sender] = Nothing
    BY <1>j, <1>5, <2>2 DEF Taken
  <2>4. Positions'
    BY <1>1, <1>7, <1>j, <2>2, <2>3, MovesOn DEF LockInv, Types
  <2> QED
    BY <1>1, <1>2, <1>3, <1>4, <2>4 DEF LockInv
<1> QED
  BY <1>j, <1>6, <1>7

\* A step of the sender that leaves it at the same packet.
LEMMA SenderStays ==
  ASSUME LockInv, HandlerRules, job > 0,
         UNCHANGED <<jobs, job, idx, loopVars, hostVars>>
  PROVE  /\ DeliveredSoFar'
         /\ Place(job, idx)'
         /\ Taken(job, idx) /\ fifo'[Host] = Nothing => Taken(job, idx)'
         /\ OnAir(job, idx)' => Positions'
<1>1. PICK a, b: a = job /\ b = idx
  OBVIOUS
<1>2. UNCHANGED <<jobs, delivered, Handler!ctx, pc[Host], rx_p[Host], pc>>
  BY DEF loopVars, hostVars, handlerVars, Handler!ctx, Handler!captureVars, Handler!dedupVars
<1>3. /\ Place(a, b)' <=> Place(a, b)
      /\ (UpToDate(a, b) \/ Taking(a, b)) => (UpToDate(a, b) \/ Taking(a, b))'
  BY <1>2, PlaceUnmoved
<1>4. Place(a, b)
  BY <1>1 DEF LockInv, Positions
<1>5. a = job' /\ b = idx'
  BY <1>1
<1>6. Place(job, idx)'
  BY <1>3, <1>4, <1>5
<1>7. Taken(a, b) /\ fifo'[Host] = Nothing => Taken(a, b)'
  BY <1>2, <1>3 DEF Taken
<1>8. OnAir(job, idx)' => Positions'
  BY <1>6 DEF Positions
<1> QED
  BY <1>1, <1>5, <1>6, <1>7, <1>8, DeliveredStutter DEF LockInv

\* Nothing but the sender's radio is touched.
LEMMA SenderRadio ==
  ASSUME LockInv, NEW m \in {"STDBY", "SLEEP"}, SetRadio(Sender, m)
  PROVE  /\ mode'[Sender] = m /\ fifo'[Sender] = Nothing
         /\ mode'[Host] = mode[Host] /\ fifo'[Host] = fifo[Host]
BY SetRadioTypes, Parameters DEF LockInv, Types

LEMMA ResultsPending ==
  ASSUME LockInv, s_pc # "idle"
  PROVE  job > 0 /\ job \in Nat /\ job \in DOMAIN jobs /\ result[job] = "pending"
<1>1. job > 0
  BY DEF LockInv, Types, SenderTypes
<1> QED
  BY <1>1, SenderFacts, JobTypes DEF LockInv, Results, Types, SenderTypes

LEMMA ReportResults ==
  ASSUME LockInv, s_pc # "idle", NEW code \in Outcomes \ {"pending"}, Report(code),
         code = "SX_OK" => idx = PacketCount(jobs, job) /\ Taken(job, idx)'
  PROVE  Results'
<1>1. job > 0 /\ job \in Nat /\ job \in DOMAIN jobs /\ result[job] = "pending"
  BY ResultsPending
<1>2. /\ result' = [result EXCEPT ![job] = code] /\ s_pc' = "idle"
      /\ UNCHANGED <<jobs, job, idx>>
  BY DEF Report
<1>3. result'[job] = code /\ \A j \in DOMAIN jobs: j # job => result'[j] = result[j]
  BY <1>1, <1>2 DEF LockInv, Types, SenderTypes
<1>4. \A j \in DOMAIN jobs: j \in Nat
  BY JobTypes DEF LockInv, Types, SenderTypes
<1>5. /\ \A j \in DOMAIN jobs: j < job => result'[j] = "SX_OK"
      /\ \A j \in DOMAIN jobs: j > job => result'[j] = "pending"
  BY <1>1, <1>3, <1>4 DEF LockInv, Results
<1>6. result'[job] = "SX_OK" => idx = PacketCount(jobs, job) /\ Taken(job, idx)'
  BY <1>3
<1> QED
  BY <1>1, <1>2, <1>3, <1>5, <1>6 DEF Results

LEMMA ResultsStutter ==
  ASSUME LockInv, s_pc # "idle", s_pc' # "idle", UNCHANGED <<jobs, job, result>>
  PROVE  Results'
<1>1. result[job] = "pending"
  BY ResultsPending
<1> QED
  BY <1>1 DEF LockInv, Results

\* An attempt is spent, and with the last one the transfer.
LEMMA NextAttemptLock ==
  ASSUME LockInv, HandlerRules, s_pc = "poll", NextAttempt, SetRadio(Sender, "STDBY"),
         UNCHANGED <<loopVars, hostVars>>, Types'
  PROVE  LockInv'
<1>1. /\ mode'[Sender] = "STDBY" /\ fifo'[Sender] = Nothing
      /\ mode'[Host] = mode[Host] /\ fifo'[Host] = fifo[Host]
  BY SenderRadio
<1>2. job > 0
  BY ResultsPending
<1>3. UNCHANGED <<jobs, job, idx, pc, rx_p>> /\ s_pc' \in {"idle", "send"}
  BY DEF NextAttempt, Report, jobVars, loopVars
<1>4. Radios'
  BY <1>1, <1>3 DEF LockInv, Radios
<1>5. Results'
  <2>1. CASE Exhausted
    BY <2>1, ReportResults DEF NextAttempt, Outcomes
  <2>2. CASE ~Exhausted
    BY <2>2, ResultsStutter DEF NextAttempt, jobVars
  <2> QED
    BY <2>1, <2>2
<1>6. OnAir(job, idx)'
  <2>1. OnAir(job, idx)
    BY <1>2 DEF LockInv, Positions
  <2>2. Acknowledgement(PacketOf(jobs, job, idx)) # Nothing
    BY <1>2, CurrentFacts DEF LockInv
  <2> QED
    BY <1>1, <1>3, <2>1, <2>2 DEF OnAir
<1> QED
  BY <1>2, <1>3, <1>4, <1>5, <1>6, SenderStays DEF LockInv

LEMMA TransmitLock ==
  ASSUME LockInv, HandlerRules, Transmit
  PROVE  LockInv'
<1>1. Types'
  BY SenderStepTypes DEF LockInv, SenderStep
<1>2. /\ job > 0 /\ s_pc = "send" /\ s_pc' = "arm"
      /\ UNCHANGED <<jobs, job, idx, result, loopVars, hostVars, pc, rx_p>>
  BY ResultsPending DEF Transmit, jobVars, loopVars
<1>3. curr_packet = PacketOf(jobs, job, idx) /\ curr_packet \in Packets
  BY <1>2, CurrentFacts DEF LockInv
<1>4. /\ fifo'[Sender] = Nothing
      /\ \/ fifo'[Host] = fifo[Host]
         \/ Host \in Listening(Sender) /\ fifo'[Host] \in {PacketOf(jobs, job, idx), Corrupt}
  BY <1>3, BroadcastEffect, Parameters DEF Transmit, LockInv, Types
<1>5. mode'[Host] = mode[Host]
  BY Parameters DEF Transmit, LockInv, Types, RadioTypes
<1>6. Host \in Listening(Sender) => pc[Host] = "poll"
  BY DEF Listening, LockInv, Radios
<1>7. Radios'
  BY <1>2, <1>4, <1>5, <1>6 DEF LockInv, Radios
<1>8. Results'
  BY <1>2, ResultsStutter
<1>9. OnAir(job, idx)'
  <2>1. OnAir(job, idx)
    BY <1>2 DEF LockInv, Positions
  <2>2. Acknowledgement(PacketOf(jobs, job, idx)) # Nothing
    BY <1>2, CurrentFacts DEF LockInv
  <2> QED
    BY <1>2, <1>4, <2>1, <2>2 DEF OnAir
<1> QED
  BY <1>1, <1>2, <1>7, <1>8, <1>9, SenderStays DEF LockInv

LEMMA ArmLock ==
  ASSUME LockInv, HandlerRules, Arm
  PROVE  LockInv'
<1>1. Types'
  BY SenderStepTypes DEF LockInv, SenderStep
<1>2. /\ job > 0 /\ s_pc = "arm" /\ s_pc' = "poll"
      /\ UNCHANGED <<jobs, job, idx, result, fifo, loopVars, hostVars, pc, rx_p>>
  BY ResultsPending DEF Arm, jobVars, loopVars
<1>3. mode'[Host] = mode[Host]
  BY Parameters DEF Arm, LockInv, Types, RadioTypes
<1>4. Radios'
  BY <1>2, <1>3 DEF LockInv, Radios
<1>5. Results'
  BY <1>2, ResultsStutter
<1>6. OnAir(job, idx)'
  <2>1. OnAir(job, idx)
    BY <1>2 DEF LockInv, Positions
  <2>2. Taken(job, idx) => Taken(job, idx)'
    <3>1. Taken(job, idx) => fifo'[Host] = Nothing
      BY <1>2 DEF Taken
    <3> QED
      BY <1>2, <3>1, SenderStays
  <2> QED
    BY <1>2, <2>1, <2>2 DEF OnAir
<1> QED
  BY <1>1, <1>2, <1>4, <1>5, <1>6, SenderStays DEF LockInv

\* Only the acknowledgement of the packet is taken for one.
LEMMA ReplyAccepted ==
  ASSUME LockInv, HandlerRules, RadiosWork, job > 0, NEW p,
         read_last_packet(fifo[Sender], p), p.src_address = Host
  PROVE  fifo[Sender] = Acknowledgement(PacketOf(jobs, job, idx))
<1>1. p # ZeroPacket
  BY ZeroFields, Parameters
<1>2. p = fifo[Sender] /\ fifo[Sender] \notin {Nothing, Corrupt}
  BY <1>1, FewFaults DEF read_last_packet, LockInv
<1>3. p # Acknowledgement(ZeroPacket)
  BY AcknowledgementFields, ZeroFields, Parameters
<1> QED
  BY <1>2, <1>3 DEF LockInv, Positions, OnAir

\* The sender moves on when it has read the acknowledgement of what it sent, and
\* by then the host has taken it.
LEMMA ReplyCases ==
  ASSUME LockInv, HandlerRules, RadiosWork, ReadReply
  PROVE  /\ s_pc = "poll" /\ job > 0 /\ UNCHANGED <<loopVars, hostVars, pc, rx_p>>
         /\ \/ NextAttempt /\ SetRadio(Sender, "STDBY")
            \/ NextPacket /\ SetRadio(Sender, "SLEEP") /\ Taken(job, idx)
<1>1. s_pc = "poll" /\ job > 0 /\ UNCHANGED <<loopVars, hostVars, pc, rx_p>>
  BY ResultsPending DEF ReadReply, loopVars
<1>2. PICK p: /\ read_last_packet(fifo[Sender], p)
              /\ IF check_packet_features(p, curr_packet.dest_address,
                      curr_packet.src_address, curr_packet.ack_id,
                      curr_packet.sequence_number, AckType)
                   THEN NextPacket /\ SetRadio(Sender, "SLEEP")
                   ELSE NextAttempt /\ SetRadio(Sender, "STDBY")
  BY DEF ReadReply
<1>3. curr_packet.dest_address = Host
  BY <1>1, CurrentFacts DEF LockInv
<1>4. fifo[Sender] = Acknowledgement(PacketOf(jobs, job, idx)) => Taken(job, idx)
  BY <1>1 DEF LockInv, Positions, OnAir
<1> QED
  BY <1>1, <1>2, <1>3, <1>4, ReplyAccepted DEF check_packet_features

LEMMA ReadReplyLock ==
  ASSUME LockInv, HandlerRules, RadiosWork, ReadReply
  PROVE  LockInv'
<1>1. Types'
  BY SenderStepTypes DEF LockInv, SenderStep
<1>2. s_pc = "poll" /\ job > 0 /\ UNCHANGED <<loopVars, hostVars, pc, rx_p>>
  BY ReplyCases
<1>3. CASE NextAttempt /\ SetRadio(Sender, "STDBY")
  BY <1>1, <1>2, <1>3, NextAttemptLock
<1>4. CASE /\ NextPacket /\ SetRadio(Sender, "SLEEP")
           /\ Taken(job, idx)
  <2>1. /\ mode'[Sender] = "SLEEP" /\ fifo'[Sender] = Nothing
        /\ mode'[Host] = mode[Host] /\ fifo'[Host] = fifo[Host]
    BY <1>4, SenderRadio
  <2>3. Radios' /\ DeliveredSoFar'
    <3>1. UNCHANGED jobs
      BY <1>4 DEF NextPacket, Report, jobVars
    <3> QED
      BY <1>2, <2>1, <3>1, DeliveredStutter DEF LockInv, Radios
  <2>4. fifo'[Host] = Nothing
    BY <1>4, <2>1 DEF Taken
  <2>5. CASE idx = Len(p_buf)
    <3>1. Report("SX_OK") /\ UNCHANGED <<jobs, job, idx>> /\ idx = PacketCount(jobs, job)
      BY <1>2, <1>4, <2>5, CurrentFacts DEF NextPacket, Report, LockInv
    <3>2. Taken(job, idx)'
      BY <1>2, <1>4, <2>4, <3>1, SenderStays
    <3>3. Results'
      BY <1>2, <3>1, <3>2, ReportResults DEF Outcomes
    <3>4. OnAir(job, idx)'
      <4>1. Acknowledgement(PacketOf(jobs, job, idx)) # Nothing
        BY <1>2, CurrentFacts DEF LockInv
      <4>2. pc'[Host] # "ack"
        BY <1>2, <1>4 DEF Taken
      <4> QED
        BY <2>1, <2>4, <3>1, <4>1, <4>2 DEF OnAir
    <3> QED
      BY <1>1, <1>2, <2>3, <3>1, <3>3, <3>4, SenderStays DEF LockInv
  <2>6. CASE idx # Len(p_buf)
    <3>1. idx' = idx + 1 /\ s_pc' = "send" /\ UNCHANGED <<jobs, job, result>>
      BY <1>4, <2>6 DEF NextPacket, jobVars
    <3>2. Results'
      BY <1>2, <3>1, ResultsStutter
    <3>3. Positions'
      BY <1>1, <1>2, <1>4, <2>1, <2>4, <3>1, MovesOn DEF LockInv, Types
    <3> QED
      BY <1>1, <2>3, <3>2, <3>3 DEF LockInv
  <2> QED
    BY <2>5, <2>6
<1> QED
  BY <1>2, <1>3, <1>4, ReplyCases

LEMMA PollTimeoutLock ==
  ASSUME LockInv, HandlerRules, PollTimeout
  PROVE  LockInv'
<1>1. Types'
  BY SenderStepTypes DEF LockInv, SenderStep
<1> QED
  BY <1>1, NextAttemptLock DEF PollTimeout

-----------------------------------------------------------------------------
(* The host's steps.                                                       *)

\* A step of the host's loop that does not call the handler.
LEMMA HostMoves ==
  ASSUME LockInv, HandlerRules, Types', Radios', UNCHANGED <<senderVars, hostVars>>,
         job > 0 => /\ Place(job, idx)'
                    /\ OnAir(job, idx)'
                    /\ Taken(job, idx) => Taken(job, idx)',
         job = 0 => fifo'[Host] = Nothing /\ pc'[Host] \in {"rearm", "poll"}
  PROVE  LockInv'
<1>1. UNCHANGED <<jobs, job, idx, s_pc, result, delivered, Handler!ctx>>
  BY DEF senderVars, jobVars, sendVars, hostVars, handlerVars, Handler!ctx, Handler!captureVars,
         Handler!dedupVars
<1>2. DeliveredSoFar'
  BY <1>1, DeliveredStutter DEF LockInv
<1>3. Before(1)' <=> Before(1)
  BY <1>1, PlaceStutter
<1>4. Positions'
  <2>1. CASE job = 0
    BY <1>1, <1>3, <2>1 DEF LockInv, Positions
  <2>2. CASE job # 0
    <3>1. job > 0
      BY <2>2, JobTypes, WorkloadAssumption DEF LockInv, Types, SenderTypes
    <3> QED
      BY <1>1, <2>2, <3>1 DEF Positions
  <2> QED
    BY <2>1, <2>2
<1>5. Results'
  BY <1>1 DEF LockInv, Results
<1> QED
  BY <1>2, <1>4, <1>5 DEF LockInv

LEMMA RearmLock ==
  ASSUME LockInv, HandlerRules, Rearm(Host)
  PROVE  LockInv'
<1> USE Parameters
<1>1. Types'
  BY LoopStepTypes DEF LockInv, LoopStep
<1>2. /\ pc[Host] = "rearm" /\ pc'[Host] = "poll"
      /\ \A r \in Bystanders: pc'[r] = pc[r]
      /\ UNCHANGED <<senderVars, hostVars, rx_p, jobs, job, idx, s_pc, delivered, Handler!ctx>>
  BY DistinctAssumption
     DEF Rearm, LockInv, Types, LoopTypes, Receivers, senderVars, jobVars, sendVars, hostVars,
         handlerVars, Handler!ctx, Handler!captureVars, Handler!dedupVars
<1>3. /\ fifo'[Host] = Nothing /\ mode'[Host] = "RX_CONTINUOUS"
      /\ mode'[Sender] = mode[Sender] /\ fifo'[Sender] = fifo[Sender]
  BY SetRadioTypes DEF Rearm, LockInv, Types
<1>4. Radios'
  BY <1>2, <1>3 DEF LockInv, Radios
<1>5. ASSUME job > 0
      PROVE  Place(job, idx)' /\ OnAir(job, idx)' /\ (Taken(job, idx) => Taken(job, idx)')
  <2>1. PICK a, b: a = job /\ b = idx
    OBVIOUS
  <2>2. a = job' /\ b = idx'
    BY <1>2, <2>1
  <2>3. Place(a, b) /\ OnAir(a, b)
    BY <1>5, <2>1 DEF LockInv, Positions
  <2>4. /\ Place(a, b)' <=> Place(a, b)
        /\ UpToDate(a, b) \/ Taking(a, b) => (UpToDate(a, b) \/ Taking(a, b))'
    BY <1>2, PlaceUnmoved
  <2>5. Taken(a, b) => Taken(a, b)'
    BY <1>2, <1>3, <2>4 DEF Taken
  <2>6. OnAir(a, b)'
    BY <1>2, <1>3, <2>3, <2>5 DEF OnAir
  <2> QED
    BY <2>1, <2>2, <2>3, <2>4, <2>5, <2>6
<1> QED
  BY <1>1, <1>2, <1>3, <1>4, <1>5, HostMoves

LEMMA ReceiveLock ==
  ASSUME LockInv, HandlerRules, RadiosWork, Receive(Host)
  PROVE  LockInv'
<1> USE Parameters
<1>1. Types'
  BY LoopStepTypes DEF LockInv, LoopStep
<1>2. /\ pc[Host] = "poll" /\ fifo[Host] # Nothing /\ pc'[Host] = "ack"
      /\ \A r \in Bystanders: pc'[r] = pc[r]
      /\ UNCHANGED <<senderVars, hostVars, jobs, job, idx, s_pc, delivered, Handler!ctx>>
  BY DistinctAssumption
     DEF Receive, LockInv, Types, LoopTypes, Receivers, senderVars, jobVars, sendVars, hostVars,
         handlerVars, Handler!ctx, Handler!captureVars, Handler!dedupVars
<1>3. /\ fifo'[Host] = Nothing /\ mode'[Host] = "STDBY"
      /\ mode'[Sender] = mode[Sender] /\ fifo'[Sender] = fifo[Sender]
  BY SetRadioTypes DEF Receive, LockInv, Types
<1>4. Radios'
  BY <1>2, <1>3 DEF LockInv, Radios
<1>j. job > 0
  <2>1. job # 0
    BY <1>2 DEF LockInv, Positions
  <2> QED
    BY <2>1, WorkloadAssumption DEF LockInv, Types, SenderTypes
<1>5. PICK p: read_last_packet(fifo[Host], p) /\ rx_p' = [rx_p EXCEPT ![Host] = p]
  BY DEF Receive
<1>6. rx_p'[Host] \in {PacketOf(jobs, job, idx), ZeroPacket}
  <2>1. p \in {fifo[Host], ZeroPacket} /\ (fifo[Host] = Corrupt => p = ZeroPacket)
    BY <1>2, <1>5, FewFaults DEF read_last_packet, LockInv
  <2>2. fifo[Host] \in {Corrupt, PacketOf(jobs, job, idx)}
    BY <1>2, <1>j DEF LockInv, Positions, OnAir
  <2> QED
    BY <1>5, <2>1, <2>2 DEF LockInv, Types, LoopTypes
<1>7. Place(job, idx)' /\ OnAir(job, idx)' /\ ~Taken(job, idx)
  <2>1. PICK a, b: a = job /\ b = idx
    OBVIOUS
  <2>2. a = job' /\ b = idx'
    BY <1>2, <2>1
  <2>3. Place(a, b) /\ OnAir(a, b)
    BY <1>j, <2>1 DEF LockInv, Positions
  <2>4. Place(a, b)'
    BY <1>2, <2>3, PlaceUnmoved
  <2>5. ~Taken(a, b)
    BY <1>2 DEF Taken
  <2>6. OnAir(a, b)'
    BY <1>2, <1>3, <1>6, <2>1, <2>3, <2>5 DEF OnAir
  <2> QED
    BY <2>1, <2>2, <2>4, <2>5, <2>6
<1> QED
  BY <1>1, <1>2, <1>3, <1>4, <1>7, <1>j, HostMoves

LEMMA SendAckLock ==
  ASSUME LockInv, HandlerRules, SendAck(Host)
  PROVE  LockInv'
<1> USE Parameters
<1>1. Types'
  BY LoopStepTypes DEF LockInv, LoopStep
<1>2. /\ pc[Host] = "ack" /\ pc'[Host] = "handle"
      /\ \A r \in Bystanders: pc'[r] = pc[r]
      /\ UNCHANGED <<senderVars, hostVars, rx_p, jobs, job, idx, s_pc, delivered, Handler!ctx>>
  BY DistinctAssumption
     DEF SendAck, LockInv, Types, LoopTypes, Receivers, senderVars, jobVars, sendVars, hostVars,
         handlerVars, Handler!ctx, Handler!captureVars, Handler!dedupVars
<1>j. job > 0
  <2>1. job # 0
    BY <1>2 DEF LockInv, Positions
  <2> QED
    BY <2>1, WorkloadAssumption DEF LockInv, Types, SenderTypes
<1>3. /\ mode'[Host] = "SLEEP" /\ mode'[Sender] = mode[Sender]
  BY DEF SendAck, LockInv, Types, RadioTypes
<1>4. Acknowledgement(rx_p[Host]) \in Packets
  BY AcknowledgementType DEF LockInv, Types, LoopTypes
<1>5. /\ fifo'[Host] = Nothing
      /\ \/ fifo'[Sender] = fifo[Sender]
         \/ Sender \in Listening(Host) /\ fifo'[Sender] \in {Acknowledgement(rx_p[Host]), Corrupt}
  BY <1>4, BroadcastEffect DEF SendAck, LockInv, Types
<1>6. Sender \in Listening(Host) => s_pc \notin {"idle", "send"}
  BY DEF Listening, LockInv, Radios
<1>7. Radios'
  BY <1>2, <1>3, <1>5, <1>6 DEF LockInv, Radios
<1>8. Place(job, idx)' /\ OnAir(job, idx)' /\ ~Taken(job, idx)
  <2>1. PICK a, b: a = job /\ b = idx
    OBVIOUS
  <2>2. a = job' /\ b = idx'
    BY <1>2, <2>1
  <2>3. Place(a, b) /\ OnAir(a, b)
    BY <1>j, <2>1 DEF LockInv, Positions
  <2>4. rx_p[Host] \in {PacketOf(jobs, a, b), ZeroPacket}
    BY <1>2, <2>3 DEF OnAir
  <2>5. /\ Place(a, b)'
        /\ rx_p[Host] = PacketOf(jobs, a, b) => (UpToDate(a, b) \/ Taking(a, b))'
    BY <1>2, <2>3, <2>4, PlaceAcknowledged
  <2>6. ~Taken(a, b)
    BY <1>2 DEF Taken
  <2>7. Acknowledgement(PacketOf(jobs, a, b))
          \notin {Nothing, Corrupt, Acknowledgement(ZeroPacket)}
    BY <1>j, <2>1, CurrentFacts DEF LockInv
  <2>8. /\ fifo'[Sender] \in {Nothing, Corrupt, Acknowledgement(ZeroPacket),
                              Acknowledgement(PacketOf(jobs, a, b))}
        /\ fifo'[Sender] = Acknowledgement(PacketOf(jobs, a, b)) =>
             rx_p[Host] = PacketOf(jobs, a, b)
    BY <1>5, <2>3, <2>4, <2>6, <2>7 DEF OnAir
  <2>9. fifo'[Sender] = Acknowledgement(PacketOf(jobs, a, b)) => Taken(a, b)'
    BY <1>2, <1>5, <2>5, <2>8 DEF Taken
  <2>10. OnAir(a, b)'
    BY <1>2, <1>5, <2>8, <2>9 DEF OnAir
  <2> QED
    BY <2>1, <2>2, <2>5, <2>6, <2>10
<1> QED
  BY <1>1, <1>2, <1>5, <1>7, <1>8, <1>j, HostMoves

\* The transfer the sender works on is all taken, or about to be.
Complete(j, i) == i = PacketCount(jobs, j) /\ (UpToDate(j, i) \/ Taking(j, i))

\* What the host holds when it handles a packet decides what it hands over: the
\* transfer the packet completes, if it waits for that packet.
LEMMA InHandAt ==
  ASSUME Types, HandlerRules, NEW j \in DOMAIN jobs, NEW i \in 1..PacketCount(jobs, j),
         Place(j, i)
  PROVE  LET m == IF Complete(j, i) THEN j ELSE j - 1
         IN \/ InHand = <<>> /\ Len(delivered) = m
            \/ m \in DOMAIN jobs /\ InHand = <<UpcallOf(jobs, m)>> /\ Len(delivered) = m - 1
<1> DEFINE m == IF Complete(j, i) THEN j ELSE j - 1
           Goal == \/ InHand = <<>> /\ Len(delivered) = m
                   \/ m \in DOMAIN jobs /\ InHand = <<UpcallOf(jobs, m)>> /\ Len(delivered) = m - 1
<1>w. jobs \in Workloads /\ j \in Nat
  BY JobTypes DEF Types, SenderTypes
<1>z. ~Handler!ForUs(ZeroPacket)
  BY <1>w, ForHost DEF Types
<1>1. CASE UpToDate(j, i)
  <2>1. InHand = <<>>
    BY <1>z, <1>1, NothingInHand DEF UpToDate, After
  <2> QED
    BY <1>1, <2>1 DEF UpToDate, After, Complete
<1>2. CASE Taking(j, i) /\ ~UpToDate(j, i)
  <2>1. Ready(j, i) /\ pc[Host] = "handle" /\ rx_p[Host] = PacketOf(jobs, j, i)
    BY <1>2 DEF Taking, OneBehind
  <2>2. InHand = IF i = PacketCount(jobs, j) THEN <<UpcallOf(jobs, j)>> ELSE <<>>
    BY <2>1, InHandNext
  <2>3. Len(delivered) = j - 1
    BY <2>1, ReadyForNext
  <2> QED
    BY <1>2, <2>2, <2>3 DEF Complete
<1>3. CASE OneBehind(j, i) /\ ~Taking(j, i) /\ ~UpToDate(j, i)
  <2>1. InHand = <<>>
    BY <1>z, <1>3, NothingInHand DEF OneBehind, Taking, After, PrevPacket
  <2>2. Len(delivered) = j - 1
    BY <1>3, ReadyForNext DEF OneBehind
  <2> QED
    BY <1>3, <2>1, <2>2 DEF Complete
<1>4. CASE TwoBehind(j, i) /\ ~Taking(j, i) /\ ~UpToDate(j, i)
  <2>1. PICK a, b: a = PrevJob(j, i) /\ b = PrevIdx(j, i)
    OBVIOUS
  <2>2. a \in DOMAIN jobs /\ b \in 1..PacketCount(jobs, a)
    BY <1>4, <2>1, PrevInRange DEF TwoBehind
  <2>3. Ready(a, b) /\ pc[Host] = "handle" /\ rx_p[Host] = PacketOf(jobs, a, b)
    BY <1>4, <2>1 DEF TwoBehind, PrevPacket
  <2>4. InHand = IF b = PacketCount(jobs, a) THEN <<UpcallOf(jobs, a)>> ELSE <<>>
    BY <2>2, <2>3, InHandNext
  <2>5. Len(delivered) = a - 1
    BY <2>2, <2>3, ReadyForNext
  <2>6. m = j - 1
    BY <1>4 DEF Complete
  <2>7. CASE i > 1
    <3>1. a = j /\ b = i - 1 /\ PacketCount(jobs, j) \in Nat
      BY <1>w, <2>1, <2>7, JobTypes DEF PrevJob, PrevIdx
    <3>2. b # PacketCount(jobs, a)
      BY <3>1
    <3> QED
      BY <2>4, <2>5, <2>6, <3>1, <3>2
  <2>8. CASE ~(i > 1)
    <3>1. a = j - 1 /\ b = PacketCount(jobs, a)
      BY <2>1, <2>8 DEF PrevJob, PrevIdx
    <3> QED
      BY <2>2, <2>4, <2>5, <2>6, <3>1
  <2> QED
    BY <2>7, <2>8
<1>5. Goal
  BY <1>1, <1>2, <1>3, <1>4 DEF Place
<1> QED
  BY <1>5

LEMMA DeliveredGrows ==
  ASSUME Types, HandlerRules, DeliveredSoFar, jobs' = jobs, delivered' = delivered \o InHand,
         \/ InHand = <<>>
         \/ \E k \in DOMAIN jobs: InHand = <<UpcallOf(jobs, k)>> /\ Len(delivered) = k - 1
  PROVE  DeliveredSoFar'
<1>1. delivered \in Seq(UpcallRecords)
  BY DEF Types, HandlerTypes
<1>2. CASE InHand = <<>>
  BY <1>1, <1>2, ConcatEmptySeq DEF DeliveredSoFar
<1>3. ASSUME NEW k \in DOMAIN jobs, InHand = <<UpcallOf(jobs, k)>>, Len(delivered) = k - 1
      PROVE  DeliveredSoFar'
  <2>1. k \in Nat /\ UpcallOf(jobs, k) \in UpcallRecords
    BY JobTypes, UpcallOfType DEF Types, SenderTypes
  <2>2. delivered' = Append(delivered, UpcallOf(jobs, k))
    BY <1>1, <1>3, <2>1, AppendIsConcat
  <2>3. /\ Len(delivered') = k
        /\ \A x \in 1..k - 1: delivered'[x] = delivered[x]
        /\ delivered'[k] = UpcallOf(jobs, k)
    BY <1>1, <1>3, <2>1, <2>2, AppendProperties
  <2>4. \A x \in 1..k - 1: x \in DOMAIN jobs /\ delivered[x] = UpcallOf(jobs, x)
    BY <1>3 DEF DeliveredSoFar
  <2> QED
    BY <2>1, <2>3, <2>4 DEF DeliveredSoFar
<1> QED
  BY <1>2, <1>3

LEMMA HandlePacketLock ==
  ASSUME LockInv, HandlerRules, HandlePacket
  PROVE  LockInv'
<1> USE Parameters
<1>1. Types'
  BY LoopStepTypes DEF LockInv, LoopStep
<1>2. /\ pc[Host] = "handle" /\ pc'[Host] = "rearm"
      /\ \A r \in Bystanders: pc'[r] = pc[r]
      /\ UNCHANGED <<jobs, job, idx, s_pc, result, mode, fifo, rx_p>>
  BY DistinctAssumption
     DEF HandlePacket, LockInv, Types, LoopTypes, Receivers, senderVars, jobVars, sendVars,
         radioVars
<1>3. Radios'
  BY <1>2 DEF LockInv, Radios
<1>j. job > 0 /\ job \in DOMAIN jobs /\ idx \in 1..PacketCount(jobs, job)
  <2>1. job # 0
    BY <1>2 DEF LockInv, Positions
  <2>2. job > 0
    BY <2>1, WorkloadAssumption DEF LockInv, Types, SenderTypes
  <2> QED
    BY <2>2, CurrentFacts DEF LockInv
<1>4. PICK a, b: a = job /\ b = idx
  OBVIOUS
<1>5. a = job' /\ b = idx'
  BY <1>2, <1>4
<1>6. Place(a, b) /\ OnAir(a, b)
  BY <1>j, <1>4 DEF LockInv, Positions
<1>7. Place(a, b)' /\ (UpToDate(a, b) \/ Taking(a, b) => UpToDate(a, b)')
  BY <1>j, <1>4, <1>6, PlaceHandled DEF LockInv
<1>8. Taken(a, b) => Taken(a, b)'
  BY <1>2, <1>7 DEF Taken
<1>9. OnAir(a, b)'
  BY <1>2, <1>6, <1>8 DEF OnAir
<1>10. Positions'
  BY <1>j, <1>2, <1>5, <1>7, <1>9 DEF Positions
<1>11. Results'
  <2>1. Taken(job, idx) => Taken(job, idx)'
    BY <1>4, <1>5, <1>8
  <2> QED
    BY <1>2, <2>1 DEF LockInv, Results
<1>12. DeliveredSoFar'
  <2>1. delivered' = delivered \o InHand
    BY HandlePacketHandles, HandlerDelivers DEF LockInv
  <2>2. \/ InHand = <<>>
        \/ \E k \in DOMAIN jobs: InHand = <<UpcallOf(jobs, k)>> /\ Len(delivered) = k - 1
    BY <1>j, <1>4, <1>6, InHandAt DEF LockInv
  <2> QED
    BY <1>2, <2>1, <2>2, DeliveredGrows DEF LockInv
<1> QED
  BY <1>1, <1>3, <1>10, <1>11, <1>12 DEF LockInv

-----------------------------------------------------------------------------
(* Every step.                                                             *)

\* The steps there are when the radios work.
LEMMA NextCases ==
  ASSUME RadiosWork, LockInv, Next
  PROVE  \/ StartJob \/ SenderStep
         \/ Rearm(Host) \/ Receive(Host) \/ SendAck(Host) \/ HandlePacket
<1>1. ~(TransmitFails \/ PollFails \/ Restart)
  BY FewFaults DEF LockInv, TransmitFails, PollFails, Restart
<1>2. ASSUME NEW r \in Receivers, LoopStep(r) \/ PollError(r) \/ LoopExits(r)
      PROVE  Rearm(Host) \/ Receive(Host) \/ SendAck(Host) \/ HandlePacket
  <2>1. ~PollError(r) /\ ~LoopExits(r)
    BY FewFaults DEF LockInv, PollError, LoopExits
  <2>2. r = Host
    <3>1. r \in Bystanders => pc[r] = "exited"
      BY DEF LockInv, Radios
    <3>2. CASE r \in Bystanders
      <4>1. r # Host
        BY <3>2, DistinctAssumption
      <4> QED
        BY <1>2, <2>1, <3>1, <3>2, <4>1 DEF LoopStep, Rearm, Receive, SendAck, BystanderHandles
    <3> QED
      BY <3>2 DEF Receivers
  <2> QED
    BY <1>2, <2>1, <2>2 DEF LoopStep, BystanderHandles
<1> QED
  BY <1>1, <1>2 DEF Next

LEMMA NextLock ==
  ASSUME HandlerRules, RadiosWork, StopOnFailure, LockInv, [Next]_vars
  PROVE  LockInv'
<1>1. CASE StartJob
  BY <1>1, StartJobLock
<1>2. CASE SenderStep
  BY <1>2, TransmitLock, ArmLock, ReadReplyLock, PollTimeoutLock DEF SenderStep
<1>3. CASE Rearm(Host) \/ Receive(Host) \/ SendAck(Host) \/ HandlePacket
  BY <1>3, RearmLock, ReceiveLock, SendAckLock, HandlePacketLock
<1>4. CASE UNCHANGED vars
  <2>1. Types'
    BY <1>4, NextTypes DEF LockInv
  <2>2. UNCHANGED <<senderVars, hostVars, mode, fifo, pc, rx_p, jobs, job, idx, s_pc,
                    result, delivered, Handler!ctx>>
    BY <1>4 DEF vars, radioVars, loopVars, senderVars, jobVars, sendVars, hostVars, handlerVars,
                Handler!ctx, Handler!captureVars, Handler!dedupVars
  <2>3. Radios'
    BY <2>2 DEF LockInv, Radios
  <2>4. ASSUME job > 0
        PROVE  Place(job, idx)' /\ OnAir(job, idx)' /\ (Taken(job, idx) => Taken(job, idx)')
    <3>1. PICK a, b: a = job /\ b = idx
      OBVIOUS
    <3>2. a = job' /\ b = idx'
      BY <2>2, <3>1
    <3>3. Place(a, b) /\ OnAir(a, b)
      BY <2>4, <3>1 DEF LockInv, Positions
    <3>4. /\ Place(a, b)' <=> Place(a, b)
          /\ UpToDate(a, b) \/ Taking(a, b) => (UpToDate(a, b) \/ Taking(a, b))'
      BY <2>2, PlaceUnmoved
    <3>5. Taken(a, b) => Taken(a, b)'
      BY <2>2, <3>4 DEF Taken
    <3>6. OnAir(a, b)'
      BY <2>2, <3>3, <3>5 DEF OnAir
    <3> QED
      BY <3>1, <3>2, <3>3, <3>4, <3>5, <3>6
  <2>5. job = 0 => fifo'[Host] = Nothing /\ pc'[Host] \in {"rearm", "poll"}
    BY <2>2 DEF LockInv, Positions
  <2> QED
    BY <2>1, <2>2, <2>3, <2>4, <2>5, HostMoves
<1> QED
  BY <1>1, <1>2, <1>3, <1>4, NextCases

\* How many transfers have been handed over, the one in the host's hands included.
HandedCount ==
  IF job = 0 THEN 0 ELSE IF Complete(job, idx) THEN job ELSE job - 1

LEMMA UpcallsInOrder ==
  ASSUME LockInv, HandlerRules
  PROVE  /\ HandedCount \in Nat /\ HandedCount <= job /\ Len(delivered) <= HandedCount
         /\ Upcalls \in Seq(UpcallRecords) /\ Len(Upcalls) = HandedCount
         /\ \A k \in 1..HandedCount: k \in DOMAIN jobs /\ Upcalls[k] = UpcallOf(jobs, k)
<1>w. jobs \in Workloads /\ job \in Nat /\ delivered \in Seq(UpcallRecords)
  BY WorkloadAssumption DEF LockInv, Types, SenderTypes, HandlerTypes
<1>1. CASE InHand = <<>> /\ Len(delivered) = HandedCount /\ HandedCount \in {0, job - 1, job}
  <2>1. Upcalls = delivered
    BY <1>w, <1>1, ConcatEmptySeq DEF Upcalls
  <2> QED
    BY <1>w, <1>1, <2>1 DEF LockInv, DeliveredSoFar
<1>2. CASE /\ HandedCount \in DOMAIN jobs /\ InHand = <<UpcallOf(jobs, HandedCount)>>
           /\ Len(delivered) = HandedCount - 1 /\ HandedCount \in {job - 1, job}
  <2>1. PICK m: m = HandedCount
    OBVIOUS
  <2>2. m \in Nat \ {0} /\ UpcallOf(jobs, m) \in UpcallRecords
    BY <1>w, <1>2, <2>1, JobTypes, UpcallOfType
  <2>3. Upcalls = Append(delivered, UpcallOf(jobs, m))
    BY <1>w, <1>2, <2>1, <2>2, AppendIsConcat DEF Upcalls
  <2>4. /\ Upcalls \in Seq(UpcallRecords) /\ Len(Upcalls) = m /\ Upcalls[m] = UpcallOf(jobs, m)
        /\ \A k \in 1..m - 1: Upcalls[k] = delivered[k]
    BY <1>w, <1>2, <2>1, <2>2, <2>3, AppendProperties
  <2>5. \A k \in 1..m - 1: k \in DOMAIN jobs /\ delivered[k] = UpcallOf(jobs, k)
    BY <1>2, <2>1 DEF LockInv, DeliveredSoFar
  <2>6. \A k \in 1..m: k \in DOMAIN jobs /\ Upcalls[k] = UpcallOf(jobs, k)
    BY <1>2, <2>1, <2>2, <2>4, <2>5
  <2> QED
    BY <1>w, <1>2, <2>1, <2>2, <2>4, <2>6
<1>3. CASE job = 0
  <2>1. InHand = <<>>
    <3>1. pc[Host] # "handle"
      BY <1>3 DEF LockInv, Positions
    <3> QED
      BY <3>1, NothingInHand
  <2>2. Len(delivered) = 1 - 1
    BY <1>3 DEF LockInv, Positions, Before
  <2> QED
    BY <1>1, <1>3, <2>1, <2>2 DEF HandedCount
<1>4. CASE job # 0
  <2>1. job > 0
    BY <1>w, <1>4
  <2>2. job \in DOMAIN jobs /\ idx \in 1..PacketCount(jobs, job)
    BY <2>1, CurrentFacts DEF LockInv
  <2>3. Place(job, idx)
    BY <1>4 DEF LockInv, Positions
  <2>4. HandedCount = IF Complete(job, idx) THEN job ELSE job - 1
    BY <1>4 DEF HandedCount
  <2>5. \/ InHand = <<>> /\ Len(delivered) = HandedCount
        \/ /\ HandedCount \in DOMAIN jobs /\ InHand = <<UpcallOf(jobs, HandedCount)>>
           /\ Len(delivered) = HandedCount - 1
    BY <2>2, <2>3, <2>4, InHandAt DEF LockInv
  <2> QED
    BY <1>1, <1>2, <2>4, <2>5
<1> QED
  BY <1>3, <1>4

\* What the application has been given is the content of the first transfers.
LEMMA HandedInOrder ==
  ASSUME LockInv, HandlerRules
  PROVE  Handed = [k \in 1..HandedCount |-> [i \in 1..jobs[k].n |-> <<k, i>>]]
<1>1. /\ Upcalls \in Seq(UpcallRecords) /\ Len(Upcalls) = HandedCount
      /\ \A k \in 1..HandedCount: k \in DOMAIN jobs /\ Upcalls[k] = UpcallOf(jobs, k)
  BY UpcallsInOrder
<1>2. DOMAIN Upcalls = 1..HandedCount
  BY <1>1
<1>3. \A k \in 1..HandedCount: Contents(Upcalls[k]) = [i \in 1..jobs[k].n |-> <<k, i>>]
  BY <1>1, UpcallOfType DEF LockInv, Types, SenderTypes
<1> HIDE DEF HandedCount
<1> QED
  BY <1>2, <1>3 DEF Handed

-----------------------------------------------------------------------------
(* The theorems.                                                           *)

LEMMA LockInvariant ==
  ASSUME HandlerRules, RadiosWork, StopOnFailure
  PROVE  Spec => []LockInv
<1>1. Init => LockInv
  BY InitLock
<1>2. LockInv /\ [Next]_vars => LockInv'
  BY NextLock
<1> QED
  BY <1>1, <1>2, PTL DEF Spec

\* While the sender is at a packet of a framed transfer, the host's capture has
\* every fragment before that packet and at most its own besides: the sender
\* never outruns the host, and the host never falls out of the burst, whatever
\* frames and acknowledgements are lost or late (send_packet_ensure_ack,
\* start_rx_loop, rx_packet_handler).
THEOREM LockStepCorrect ==
  ASSUME HandlerRules, RadiosWork, StopOnFailure
  PROVE  Spec => []LockStep
<1>1. LockInv => LockStep
  <2> SUFFICES ASSUME LockInv, s_pc # "idle", jobs[job].framed, pc[Host] # "handle"
               PROVE  IF capture THEN /\ capture_ack_id = jobs[job].ack_id
                                      /\ captured_n \in {idx - 1, idx - 2}
                                 ELSE idx \in {1, Len(p_buf)}
    BY DEF LockStep
  <2>1. job > 0
    BY ResultsPending
  <2>2. /\ idx \in 1..PacketCount(jobs, job) /\ PacketCount(jobs, job) \in Nat
        /\ Len(p_buf) = PacketCount(jobs, job)
    BY <2>1, CurrentFacts, JobTypes DEF LockInv
  <2>3. UpToDate(job, idx) \/ OneBehind(job, idx)
    BY <2>1 DEF LockInv, Positions, Place, TwoBehind
  <2>4. CASE UpToDate(job, idx)
    BY <2>2, <2>4 DEF UpToDate, After, CapturedUpTo, NotCapturing
  <2>5. CASE OneBehind(job, idx)
    <3>1. CASE idx = 1
      BY <2>5, <3>1 DEF OneBehind, Ready, Before, NotCapturing
    <3>2. CASE idx # 1
      <4>1. After(job, idx - 1) /\ idx - 1 < PacketCount(jobs, job)
        BY <2>2, <2>5, <3>2 DEF OneBehind, Ready
      <4>2. CapturedUpTo(job, idx - 1)
        BY <4>1 DEF After
      <4> QED
        BY <2>2, <4>2 DEF CapturedUpTo
    <3> QED
      BY <3>1, <3>2
  <2> QED
    BY <2>3, <2>4, <2>5
<1> QED
  BY <1>1, LockInvariant, PTL

\* No fragment of a framed transfer reaches the command call-back, though the
\* handler tells a fragment from a command by the ack_id alone.
THEOREM NoFragmentIsACommand ==
  ASSUME HandlerRules, RadiosWork, StopOnFailure
  PROVE  Spec => []FragmentsNeverCommands
<1>1. LockInv => FragmentsNeverCommands
  <2> SUFFICES ASSUME LockInv, NEW k \in DOMAIN delivered, delivered[k].kind = "command"
               PROVE  ~jobs[delivered[k].items[1].payload[1]].framed
    BY DEF FragmentsNeverCommands
  <2>1. k \in DOMAIN jobs /\ delivered[k] = UpcallOf(jobs, k) /\ jobs \in Workloads
    BY DEF LockInv, DeliveredSoFar, Types, SenderTypes, HandlerTypes
  <2>2. ~jobs[k].framed
    BY <2>1, UpcallOfType
  <2>3. delivered[k].items[1] = PacketOf(jobs, k, 1)
    BY <2>1, <2>2 DEF UpcallOf, Handler!CommandUpcall
  <2>4. PacketOf(jobs, k, 1).payload = <<k, 1>>
    BY <2>2 DEF PacketOf, packet_constructor, PayloadOf
  <2> QED
    BY <2>2, <2>3, <2>4
<1> QED
  BY <1>1, LockInvariant, PTL

\* The duplicate filter never locks the host out of the fragment it waits for.
THEOREM NeverLockedOut ==
  ASSUME HandlerRules, RadiosWork, StopOnFailure
  PROVE  Spec => []HostNotLockedOut
<1>1. ASSUME LockInv, NEW j \in DOMAIN jobs, NEW i \in 1..PacketCount(jobs, j), After(j, i)
      PROVE  HostNotLockedOut
  <2>1. CASE jobs[j].framed /\ i < PacketCount(jobs, j)
    <3>0. jobs \in Workloads
      BY <1>1 DEF LockInv, Types, SenderTypes
    <3>1. PacketCount(jobs, j) = jobs[j].n + 2 /\ jobs[j].n \in Nat /\ i \in Nat
      BY <2>1, <3>0, JobTypes DEF PacketCount
    <3>2. PacketOf(jobs, j, i).sequence_number = i - 1
      BY <2>1, <3>0, <3>1, PacketFields
    <3>3. last_received_seq_number = i - 1 /\ captured_n = i - 1
      BY <1>1, <2>1, <3>2 DEF After, CapturedUpTo, Handler!Redundant
    <3> QED
      BY <3>1, <3>3 DEF HostNotLockedOut, Handler!NoFragmentLockout
  <2>2. CASE ~(jobs[j].framed /\ i < PacketCount(jobs, j))
    BY <1>1, <2>2 DEF After, NotCapturing, HostNotLockedOut, Handler!NoFragmentLockout
  <2> QED
    BY <2>1, <2>2
<1>2. ASSUME LockInv, NEW j \in DOMAIN jobs, NEW i \in 1..PacketCount(jobs, j), Ready(j, i)
      PROVE  HostNotLockedOut
  <2>1. CASE i = 1
    BY <1>2, <2>1 DEF Ready, Before, NotCapturing, HostNotLockedOut, Handler!NoFragmentLockout
  <2>2. CASE i # 1
    <3>1. i - 1 \in 1..PacketCount(jobs, j)
      BY <1>2, <2>2, JobTypes DEF LockInv, Types, SenderTypes
    <3> QED
      BY <1>1, <1>2, <2>2, <3>1 DEF Ready
  <2> QED
    BY <2>1, <2>2
<1>3. LockInv => HostNotLockedOut
  <2> SUFFICES ASSUME LockInv PROVE HostNotLockedOut
    OBVIOUS
  <2>1. CASE job = 0
    BY <2>1 DEF LockInv, Positions, Before, NotCapturing, HostNotLockedOut,
                Handler!NoFragmentLockout
  <2>2. CASE job # 0
    <3>1. /\ job \in DOMAIN jobs /\ idx \in 1..PacketCount(jobs, job) /\ Types
          /\ Place(job, idx)
      <4>1. job > 0
        BY <2>2, WorkloadAssumption DEF LockInv, Types, SenderTypes
      <4> QED
        BY <2>2, <4>1, CurrentFacts DEF LockInv, Positions
    <3>2. CASE TwoBehind(job, idx)
      BY <1>2, <3>1, <3>2, PrevInRange DEF TwoBehind
    <3> QED
      BY <1>1, <1>2, <3>1, <3>2 DEF Place, UpToDate, OneBehind
  <2> QED
    BY <2>1, <2>2
<1> QED
  BY <1>3, LockInvariant, PTL

-----------------------------------------------------------------------------
(* The refinement of Transfer.                                             *)

HandedSoFar ==
  /\ HandedCount \in Nat
  /\ IF job = 0 THEN HandedCount = 0 ELSE HandedCount \in {job - 1, job}
  /\ Len(delivered) <= HandedCount
  /\ pc[Host] # "handle" => Len(delivered) = HandedCount
  /\ Handed = [k \in 1..HandedCount |-> TransferSpec!Content(k)]

LEMMA HandedTransfers ==
  ASSUME LockInv, HandlerRules
  PROVE  HandedSoFar
<1>1. /\ HandedCount \in Nat /\ Len(delivered) <= HandedCount
      /\ Upcalls \in Seq(UpcallRecords) /\ Len(Upcalls) = HandedCount
  BY UpcallsInOrder
<1>2. IF job = 0 THEN HandedCount = 0 ELSE HandedCount \in {job - 1, job}
  BY DEF HandedCount
<1>3. pc[Host] # "handle" => Len(delivered) = HandedCount
  <2> SUFFICES ASSUME pc[Host] # "handle" PROVE Len(delivered) = HandedCount
    OBVIOUS
  <2>1. delivered \in Seq(UpcallRecords)
    BY DEF LockInv, Types, HandlerTypes
  <2>2. Upcalls = delivered
    BY <2>1, NothingInHand, ConcatEmptySeq DEF Upcalls
  <2> QED
    BY <1>1, <2>2
<1>4. Handed = [k \in 1..HandedCount |-> TransferSpec!Content(k)]
  BY HandedInOrder DEF TransferSpec!Content
<1> HIDE DEF HandedCount
<1> QED
  BY <1>1, <1>2, <1>3, <1>4 DEF HandedSoFar

\* What has been handed over is a matter of the host alone.
LEMMA HandedStutter ==
  ASSUME UNCHANGED <<delivered, Handler!ctx>>,
         \/ UNCHANGED <<pc[Host], rx_p[Host]>>
         \/ pc[Host] # "handle" /\ pc'[Host] # "handle"
  PROVE  Handed' = Handed
<1>1. InHand' = InHand
  <2>1. CASE pc[Host] # "handle" /\ pc'[Host] # "handle"
    BY <2>1 DEF InHand
  <2>2. CASE UNCHANGED <<pc[Host], rx_p[Host]>>
    <3>1. \A p: /\ Handler!ForUs(p)' <=> Handler!ForUs(p)
                /\ Handler!Redundant(p)' <=> Handler!Redundant(p)
      BY DEF Handler!ForUs, Handler!Redundant, Handler!ctx, Handler!dedupVars
    <3>2. UNCHANGED <<capture, capture_ack_id, Handler!Captured>>
      BY DEF Handler!ctx, Handler!captureVars, Handler!Captured
    <3> QED
      BY <2>2, <3>1, <3>2 DEF InHand
  <2> QED
    BY <2>1, <2>2
<1> QED
  BY <1>1 DEF Handed, Upcalls

\* No two transfers have the same content.
LEMMA ContentsDiffer ==
  ASSUME jobs \in Workloads, NEW j \in DOMAIN jobs, NEW k, k # j
  PROVE  TransferSpec!Content(k) # TransferSpec!Content(j)
<1>1. 1 \in 1..jobs[j].n
  BY JobTypes
<1>2. CASE DOMAIN TransferSpec!Content(k) # DOMAIN TransferSpec!Content(j)
  BY <1>2
<1>3. CASE DOMAIN TransferSpec!Content(k) = DOMAIN TransferSpec!Content(j)
  <2>1. TransferSpec!Content(k)[1] = <<k, 1>> /\ TransferSpec!Content(j)[1] = <<j, 1>>
    BY <1>1, <1>3 DEF TransferSpec!Content
  <2> QED
    BY <2>1
<1> QED
  BY <1>2, <1>3

\* One more element of a sequence given by a function.
LEMMA OneMore ==
  ASSUME NEW n \in Nat, NEW S, NEW f \in [1..n + 1 -> S]
  PROVE  f = Append([k \in 1..n |-> f[k]], f[n + 1])
<1> DEFINE s == [k \in 1..n |-> f[k]]
           a == Append(s, f[n + 1])
<1>1. s \in Seq(S) /\ Len(s) = n /\ f[n + 1] \in S
  OBVIOUS
<1>2. \A k \in 1..n: s[k] = f[k]
  OBVIOUS
<1> HIDE DEF s
<1>3. /\ a \in Seq(S) /\ Len(a) = n + 1
      /\ \A k \in 1..n: a[k] = s[k]
      /\ a[n + 1] = f[n + 1]
  BY <1>1, AppendProperties
<1> HIDE DEF a
<1>4. a \in [1..n + 1 -> S]
  BY <1>3
<1>5. \A k \in 1..n + 1: a[k] = f[k]
  BY <1>2, <1>3
<1>6. a = f
  BY <1>4, <1>5
<1> QED
  BY <1>6 DEF a, s

LEMMA InitTransfer ==
  ASSUME Init
  PROVE  TransferSpec!Init
<1>1. pc[Host] = "rearm" /\ delivered = <<>>
  BY Parameters DEF Init
<1>2. Upcalls = <<>>
  BY <1>1, NothingInHand DEF Upcalls
<1>3. Handed = <<>>
  BY <1>2 DEF Handed
<1> QED
  BY <1>3 DEF Init, TransferSpec!Init

\* The acknowledgement of its last packet: the transfer has been handed over.
LEMMA TakenIsHanded ==
  ASSUME LockInv, HandlerRules, HandedSoFar, job > 0, Taken(job, idx),
         idx = PacketCount(jobs, job)
  PROVE  TransferSpec!HandedOver(job)
<1>1. job \in Nat \ {0} /\ job # 0
  BY CurrentFacts, JobTypes DEF LockInv
<1>2. HandedCount = job
  BY <1>1 DEF HandedCount, Complete, Taken
<1>3. Handed = [k \in 1..job |-> TransferSpec!Content(k)] /\ job \in 1..job
  BY <1>1, <1>2 DEF HandedSoFar
<1>4. job \in DOMAIN Handed /\ Handed[job] = TransferSpec!Content(job)
  BY <1>3
<1> QED
  BY <1>4 DEF TransferSpec!HandedOver

\* A verdict of the sender is the one of the abstract transfer.
LEMMA ReportTransfer ==
  ASSUME LockInv, s_pc # "idle", NEW code \in {"SX_OK", "SX_TIMEOUT"}, Report(code),
         code = "SX_OK" => TransferSpec!HandedOver(job), Handed' = Handed
  PROVE  TransferSpec!Next
<1>1. job > 0 /\ result[job] = "pending"
  BY ResultsPending
<1>2. TransferSpec!Report(code)
  BY <1>1 DEF TransferSpec!Report, Report
<1> QED
  BY <1>2 DEF TransferSpec!Next

\* Acknowledging the last packet of a transfer hands the transfer over.
LEMMA AckTransfer ==
  ASSUME LockInv, HandlerRules, HandedSoFar, HandedSoFar', SendAck(Host)
  PROVE  TransferSpec!Next \/ UNCHANGED TransferSpec!vars
<1>1. pc[Host] = "ack" /\ UNCHANGED <<jobs, job, result, delivered>>
  BY DEF SendAck, senderVars, jobVars, hostVars
<1>j. job > 0 /\ job \in DOMAIN jobs /\ jobs \in Workloads
  <2>1. job # 0
    BY <1>1 DEF LockInv, Positions
  <2>2. job > 0
    BY <2>1, WorkloadAssumption DEF LockInv, Types, SenderTypes
  <2> QED
    BY <2>2, CurrentFacts DEF LockInv
<1>k. job \in Nat \ {0}
  BY <1>j, JobTypes
<1>m. PICK m, n: m = HandedCount /\ n = HandedCount'
  OBVIOUS
<1>2. /\ m \in {job - 1, job} /\ n \in {job - 1, job}
      /\ Len(delivered) = m /\ Len(delivered) <= n
  BY <1>1, <1>k, <1>m DEF HandedSoFar
<1>3. /\ Handed = [k \in 1..m |-> TransferSpec!Content(k)]
      /\ Handed' = [k \in 1..n |-> TransferSpec!Content(k)]
  <2>1. \A k: TransferSpec!Content(k)' = TransferSpec!Content(k)
    BY <1>1 DEF TransferSpec!Content
  <2>2. Handed' = [k \in 1..n |-> TransferSpec!Content(k)']
    BY <1>m DEF HandedSoFar
  <2> QED
    BY <1>m, <2>1, <2>2 DEF HandedSoFar
<1>4. CASE m = n
  BY <1>1, <1>3, <1>4 DEF TransferSpec!vars
<1>5. CASE m # n
  <2>1. m = job - 1 /\ n = m + 1 /\ n = job /\ m \in Nat
    BY <1>k, <1>2, <1>5
  <2>2. Handed' = Append(Handed, TransferSpec!Content(job))
    <3> DEFINE f == [k \in 1..n |-> TransferSpec!Content(k)]
    <3>1. /\ f \in [1..m + 1 -> {TransferSpec!Content(k): k \in 1..n}]
          /\ f[m + 1] = TransferSpec!Content(job)
      BY <2>1
    <3>2. Handed = [k \in 1..m |-> f[k]]
      BY <1>3, <2>1
    <3>3. Handed' = f
      BY <1>3
    <3> HIDE DEF f
    <3> QED
      BY <2>1, <3>1, <3>2, <3>3, OneMore
  <2>3. \A k \in job..Len(jobs): ~TransferSpec!HandedOver(k)
    <3> TAKE k \in job..Len(jobs)
    <3>1. k \in DOMAIN jobs
      BY <1>j, <1>k, JobTypes
    <3>2. \A l \in 1..m: Handed[l] # TransferSpec!Content(k)
      <4> TAKE l \in 1..m
      <4>1. l # k
        BY <1>k, <2>1
      <4> QED
        BY <1>j, <1>3, <3>1, <4>1, ContentsDiffer
    <3> QED
      BY <1>3, <3>2 DEF TransferSpec!HandedOver
  <2>4. TransferSpec!HandOver(job) /\ job \in 1..job
    BY <1>1, <1>k, <2>2, <2>3 DEF TransferSpec!HandOver
  <2> QED
    BY <2>4 DEF TransferSpec!Next
<1> QED
  BY <1>4, <1>5

LEMMA NextTransfer ==
  ASSUME HandlerRules, RadiosWork, LockInv, HandedSoFar, HandedSoFar', [Next]_vars
  PROVE  TransferSpec!Next \/ UNCHANGED TransferSpec!vars
<1>1. ASSUME UNCHANGED <<loopVars, hostVars>> PROVE Handed' = Handed
  <2>1. UNCHANGED <<delivered, Handler!ctx, pc, rx_p>>
    BY <1>1 DEF loopVars, hostVars, handlerVars, Handler!ctx, Handler!captureVars,
                Handler!dedupVars
  <2> QED
    BY <2>1, HandedStutter
<1>2. CASE StartJob
  <2>1. /\ job < Len(jobs) /\ job' = job + 1 /\ s_pc = "idle" /\ UNCHANGED <<jobs, result>>
        /\ Handed' = Handed
    BY <1>1, <1>2 DEF StartJob
  <2>2. job > 0 => result[job] # "pending"
    BY <2>1 DEF LockInv, Results
  <2>3. TransferSpec!Submit
    BY <2>1, <2>2 DEF TransferSpec!Submit
  <2> QED
    BY <2>3 DEF TransferSpec!Next
<1>3. ASSUME s_pc = "poll", NextAttempt, Handed' = Handed
      PROVE  TransferSpec!Next \/ UNCHANGED TransferSpec!vars
  <2>1. CASE Exhausted
    <3>1. Report("SX_TIMEOUT") /\ s_pc # "idle"
      BY <1>3, <2>1 DEF NextAttempt
    <3> QED
      BY <1>3, <3>1, ReportTransfer
  <2>2. CASE ~Exhausted
    BY <1>3, <2>2 DEF NextAttempt, jobVars, TransferSpec!vars
  <2> QED
    BY <2>1, <2>2
<1>4. CASE Transmit \/ Arm
  BY <1>1, <1>4 DEF Transmit, Arm, jobVars, TransferSpec!vars
<1>5. CASE PollTimeout
  BY <1>1, <1>3, <1>5 DEF PollTimeout
<1>6. CASE ReadReply
  <2>1. /\ s_pc = "poll" /\ job > 0 /\ Handed' = Handed
        /\ NextAttempt \/ (NextPacket /\ Taken(job, idx))
    BY <1>1, <1>6, ReplyCases DEF ReadReply
  <2>2. CASE NextAttempt
    BY <1>3, <2>1, <2>2
  <2>3. CASE NextPacket /\ Taken(job, idx)
    <3>1. CASE idx = Len(p_buf)
      <4>1. idx = PacketCount(jobs, job)
        BY <2>1, <3>1, CurrentFacts DEF LockInv
      <4>2. TransferSpec!HandedOver(job)
        BY <2>1, <2>3, <4>1, TakenIsHanded
      <4>3. Report("SX_OK") /\ s_pc # "idle"
        BY <2>1, <2>3, <3>1 DEF NextPacket
      <4> QED
        BY <2>1, <4>2, <4>3, ReportTransfer
    <3>2. CASE idx # Len(p_buf)
      BY <2>1, <2>3, <3>2 DEF NextPacket, jobVars, TransferSpec!vars
    <3> QED
      BY <3>1, <3>2
  <2> QED
    BY <2>1, <2>2, <2>3
<1>7. CASE Rearm(Host) \/ Receive(Host)
  <2>1. /\ pc[Host] # "handle" /\ pc'[Host] # "handle"
        /\ UNCHANGED <<jobs, job, result, delivered, Handler!ctx>>
    BY <1>7, Parameters
       DEF Rearm, Receive, LockInv, Types, LoopTypes, senderVars, jobVars, hostVars,
           handlerVars, Handler!ctx, Handler!captureVars, Handler!dedupVars
  <2> QED
    BY <2>1, HandedStutter DEF TransferSpec!vars
<1>8. CASE SendAck(Host)
  BY <1>8, AckTransfer
<1>9. CASE HandlePacket
  <2>1. delivered' = delivered \o InHand /\ InHand' = <<>>
    BY <1>9, HandlePacketHandles, HandlerDelivers DEF LockInv
  <2>2. Upcalls' = Upcalls
    <3>1. delivered' \in Seq(UpcallRecords)
      <4>1. Types'
        BY <1>9, LoopStepTypes, Parameters DEF LockInv, LoopStep
      <4> QED
        BY <4>1 DEF Types, HandlerTypes
    <3> QED
      BY <2>1, <3>1, ConcatEmptySeq DEF Upcalls
  <2> QED
    BY <1>9, <2>2 DEF HandlePacket, senderVars, jobVars, Handed, TransferSpec!vars
<1>10. CASE UNCHANGED vars
  <2>1. UNCHANGED <<loopVars, hostVars, jobs, job, result>>
    BY <1>10 DEF vars, senderVars, jobVars
  <2> QED
    BY <1>1, <2>1 DEF TransferSpec!vars
<1> QED
  BY <1>2, <1>4, <1>5, <1>6, <1>7, <1>8, <1>9, <1>10, NextCases DEF SenderStep

\* The link is a reliable transfer, whatever frames and acknowledgements are
\* lost, damaged or late: each transfer is handed to the application at most
\* once, whole and in order, and SX_OK is the sender's verdict only on one that
\* has been (send_burst, start_rx_loop, rx_packet_handler).
THEOREM ImplementsTransferCorrect ==
  ASSUME HandlerRules, RadiosWork, StopOnFailure
  PROVE  Spec => ImplementsTransfer
<1>1. Init => TransferSpec!Init
  BY InitTransfer
<1>2. LockInv => HandedSoFar
  BY HandedTransfers
<1>3. LockInv /\ HandedSoFar /\ HandedSoFar' /\ [Next]_vars
        => [TransferSpec!Next]_(TransferSpec!vars)
  BY NextTransfer
<1> QED
  BY <1>1, <1>2, <1>3, LockInvariant, PTL DEF Spec, ImplementsTransfer, TransferSpec!Spec

\* Without a third node that acknowledges in the host's name, a transfer
\* reported SX_OK has been handed over, or is just about to be
\* (send_packet_ensure_ack believes any acknowledgement that fits).
THEOREM OkMeansHandedCorrect ==
  ASSUME HandlerRules, RadiosWork, StopOnFailure
  PROVE  Spec => []OkMeansHanded
<1>1. LockInv => HandedSoFar
  BY HandedTransfers
<1>2. LockInv /\ HandedSoFar => OkMeansHanded
  <2> SUFFICES ASSUME LockInv, HandedSoFar, NEW j \in DOMAIN jobs, result[j] = "SX_OK"
               PROVE  \E k \in DOMAIN Handed: Handed[k] = [i \in 1..jobs[j].n |-> <<j, i>>]
    BY DEF OkMeansHanded
  <2>1. j \in Nat \ {0} /\ job \in Nat /\ job >= j
    <3>1. j \in Nat \ {0} /\ job \in Nat
      BY JobTypes, WorkloadAssumption DEF LockInv, Types, SenderTypes
    <3>2. ~(j > job)
      BY DEF LockInv, Results
    <3> QED
      BY <3>1, <3>2
  <2>2. CASE j = job
    <3>1. Taken(job, idx) /\ idx = PacketCount(jobs, job)
      BY <2>1, <2>2 DEF LockInv, Results
    <3>2. TransferSpec!HandedOver(job)
      BY <2>1, <2>2, <3>1, TakenIsHanded
    <3> QED
      BY <2>2, <3>2 DEF TransferSpec!HandedOver, TransferSpec!Content
  <2>3. CASE j # job
    <3>1. j <= HandedCount /\ HandedCount \in Nat
      BY <2>1, <2>3 DEF HandedSoFar
    <3>2. j \in DOMAIN Handed /\ Handed[j] = TransferSpec!Content(j)
      BY <2>1, <3>1 DEF HandedSoFar
    <3> QED
      BY <3>2 DEF TransferSpec!Content
  <2> QED
    BY <2>2, <2>3
<1> QED
  BY <1>1, <1>2, LockInvariant, PTL

-----------------------------------------------------------------------------
(***************************************************************************)
(* A link on which anything may fail: radios, the air, the host itself,    *)
(* and the application goes on after a failed burst.  Sender and host need *)
(* not agree any more; what remains true is that the host never makes one  *)
(* burst out of pieces of several, and never hands one over twice.         *)
(***************************************************************************)

\* No two bursts share an ack_id, none is so long that its sequence numbers
\* repeat, and what is not framed is a single packet.
OwnIds ==
  \A w \in Workloads: \A j \in DOMAIN w:
    /\ IF w[j].framed THEN w[j].n <= UINT8_MAX + 1 ELSE w[j].n = 1
    /\ \A k \in DOMAIN w: w[j].framed /\ w[k].framed /\ w[j].ack_id = w[k].ack_id => j = k

-----------------------------------------------------------------------------
(* What is on its way.                                                     *)

\* Only the sender sends packets that carry something.
SentIn(w, p) ==
  p.payload # NoPayload =>
    \E j \in DOMAIN w: \E i \in 1..PacketCount(w, j): p = PacketOf(w, j, i)

Traffic ==
  /\ \A n \in Nodes: fifo[n] \notin {Nothing, Corrupt} => SentIn(jobs, fifo[n])
  /\ \A r \in Receivers: SentIn(jobs, rx_p[r])

\* Nobody has anything to say when there is nothing to send.
Silence ==
  DOMAIN jobs = {} => /\ \A n \in Nodes: fifo[n] = Nothing
                      /\ \A r \in Receivers: pc[r] \notin {"ack", "handle"}

LEMMA EmptyIsSent ==
  /\ \A w: SentIn(w, ZeroPacket)
  /\ \A w, p: SentIn(w, Acknowledgement(p))
BY DEF SentIn, ZeroPacket, Acknowledgement, ack_packet, packet_constructor

LEMMA BroadcastTraffic ==
  ASSUME Types, Traffic, jobs' = jobs, rx_p' = rx_p,
         NEW n \in Nodes, NEW f \in Packets, SentIn(jobs, f), Broadcast(n, f)
  PROVE  Traffic'
<1>1. \A m \in Nodes: fifo'[m] \in {Nothing, Corrupt, f, fifo[m]}
  BY BroadcastEffect DEF Types
<1> QED
  BY <1>1 DEF Traffic

LEMMA RadioTraffic ==
  ASSUME Types, Traffic, jobs' = jobs, rx_p' = rx_p,
         \/ UNCHANGED fifo
         \/ \E n \in Nodes: fifo' = [fifo EXCEPT ![n] = Nothing]
  PROVE  Traffic'
<1>1. \A m \in Nodes: fifo'[m] \in {Nothing, fifo[m]}
  BY DEF Types, RadioTypes
<1> QED
  BY <1>1 DEF Traffic

LEMMA SenderTraffic ==
  ASSUME Types, Traffic, StartJob \/ SenderStep \/ TransmitFails \/ PollFails
  PROVE  Traffic'
<1>1. jobs' = jobs /\ rx_p' = rx_p
  BY DEF StartJob, SenderStep, Transmit, TransmitFails, Arm, ReadReply, PollTimeout, PollFails,
         NextPacket, NextAttempt, Report, jobVars, loopVars
<1>2. CASE Broadcast(Sender, curr_packet) /\ s_pc # "idle"
  <2>1. /\ curr_packet \in Packets /\ curr_packet = PacketOf(jobs, job, idx)
        /\ job \in DOMAIN jobs /\ idx \in 1..PacketCount(jobs, job)
    BY <1>2, SenderFacts DEF Types, SenderTypes
  <2> QED
    BY <1>1, <1>2, <2>1, BroadcastTraffic, Parameters DEF SentIn
<1>3. CASE UNCHANGED fifo \/ fifo' = [fifo EXCEPT ![Sender] = Nothing]
  BY <1>1, <1>3, RadioTraffic, Parameters
<1> QED
  BY <1>2, <1>3
     DEF StartJob, SenderStep, Transmit, TransmitFails, Arm, ReadReply, PollTimeout, PollFails,
         SetRadio, radioVars

LEMMA LoopTraffic ==
  ASSUME Types, Traffic, NEW r \in Receivers, LoopStep(r) \/ PollError(r) \/ LoopExits(r)
  PROVE  Traffic'
<1> USE Parameters
<1>1. jobs' = jobs /\ r \in Nodes
  BY DEF LoopStep, Rearm, Receive, SendAck, HandlePacket, BystanderHandles, PollError, LoopExits,
         senderVars, jobVars
<1>2. CASE Receive(r)
  <2>1. PICK p: read_last_packet(fifo[r], p) /\ rx_p' = [rx_p EXCEPT ![r] = p]
    BY <1>2 DEF Receive
  <2>2. SentIn(jobs, p)
    BY <1>1, <2>1, EmptyIsSent DEF read_last_packet, Traffic
  <2>3. \A k \in Receivers: rx_p'[k] \in {p, rx_p[k]}
    BY <2>1 DEF Types, LoopTypes
  <2>4. \A m \in Nodes: fifo'[m] \in {Nothing, fifo[m]}
    BY <1>2 DEF Receive, SetRadio, Types, RadioTypes
  <2> QED
    BY <1>1, <2>2, <2>3, <2>4 DEF Traffic
<1>3. CASE Broadcast(r, Acknowledgement(rx_p[r])) /\ rx_p' = rx_p
  <2>1. Acknowledgement(rx_p[r]) \in Packets
    BY AcknowledgementType DEF Types, LoopTypes
  <2> QED
    BY <1>1, <1>3, <2>1, EmptyIsSent, BroadcastTraffic
<1>4. CASE (UNCHANGED fifo \/ SetRadio(r, "RX_CONTINUOUS")) /\ rx_p' = rx_p
  BY <1>1, <1>4, RadioTraffic DEF SetRadio
<1> QED
  BY <1>2, <1>3, <1>4
     DEF LoopStep, Rearm, SendAck, HandlePacket, BystanderHandles, PollError, LoopExits, radioVars

LEMMA RestartTraffic ==
  ASSUME Types, Traffic, Restart
  PROVE  Traffic'
<1>1. \A m \in Nodes: fifo'[m] \in {Nothing, fifo[m]}
  BY DEF Restart, SetRadio, Types, RadioTypes
<1>2. \A k \in Receivers: rx_p'[k] \in {ZeroPacket, rx_p[k]}
  BY DEF Restart, Types, LoopTypes
<1>3. jobs' = jobs
  BY DEF Restart, senderVars, jobVars
<1> QED
  BY <1>1, <1>2, <1>3, EmptyIsSent DEF Traffic

LEMMA SilenceLasts ==
  ASSUME Types, Silence, Next
  PROVE  Silence'
<1> USE Parameters
<1>1. jobs' = jobs
  BY DEF Next, StartJob, SenderStep, Transmit, TransmitFails, Arm, ReadReply, PollTimeout, PollFails,
         NextPacket, NextAttempt, Report, LoopStep, Rearm, Receive, SendAck, HandlePacket,
         BystanderHandles, PollError, LoopExits, Restart, senderVars, jobVars
<1> SUFFICES ASSUME DOMAIN jobs = {}
             PROVE  /\ \A n \in Nodes: fifo'[n] = Nothing
                    /\ \A r \in Receivers: pc'[r] \notin {"ack", "handle"}
  BY <1>1 DEF Silence
<1>2. /\ \A n \in Nodes: fifo[n] = Nothing
      /\ \A r \in Receivers: pc[r] \notin {"ack", "handle"}
  BY DEF Silence
<1>3. Len(jobs) = 0 /\ job = 0 /\ s_pc = "idle"
  <2>1. jobs \in Seq(Transfers) /\ job \in 0..Len(jobs)
    BY WorkloadAssumption DEF Types, SenderTypes, Transfers
  <2>2. Len(jobs) = 0
    BY <2>1
  <2>3. job = 0
    BY <2>1, <2>2
  <2> QED
    BY <2>2, <2>3 DEF Types, SenderTypes
<1>4. ~(StartJob \/ SenderStep \/ TransmitFails \/ PollFails)
  BY <1>3 DEF StartJob, SenderStep, Transmit, TransmitFails, Arm, ReadReply, PollTimeout, PollFails
<1>5. ASSUME NEW r \in Receivers, LoopStep(r) \/ PollError(r) \/ LoopExits(r)
      PROVE  /\ \A n \in Nodes: fifo'[n] = Nothing
             /\ \A k \in Receivers: pc'[k] \notin {"ack", "handle"}
  <2>1. Rearm(r) \/ PollError(r) \/ LoopExits(r)
    BY <1>2, <1>5 DEF LoopStep, Receive, SendAck, HandlePacket, BystanderHandles
  <2>2. \A n \in Nodes: fifo'[n] \in {Nothing, fifo[n]}
    BY <1>2, <2>1 DEF Rearm, PollError, LoopExits, SetRadio, radioVars, Types, RadioTypes
  <2>3. \A k \in Receivers: pc'[k] \in {pc[k], "poll", "rearm", "exited"}
    BY <2>1 DEF Rearm, PollError, LoopExits, Types, LoopTypes
  <2> QED
    BY <1>2, <2>2, <2>3
<1>6. CASE Restart
  <2>1. \A n \in Nodes: fifo'[n] \in {Nothing, fifo[n]}
    BY <1>6 DEF Restart, SetRadio, Types, RadioTypes
  <2>2. \A k \in Receivers: pc'[k] \in {pc[k], "rearm"}
    BY <1>6 DEF Restart, Types, LoopTypes
  <2> QED
    BY <1>2, <2>1, <2>2
<1> QED
  BY <1>4, <1>5, <1>6 DEF Next

-----------------------------------------------------------------------------
(* What a call of the handler does to the capture and to the application.  *)

HandlerQuiet == UNCHANGED Handler!captureVars

HandlerBegins(p) ==
  /\ check_packet_type(p) = "PACKET_BEGIN"
  /\ ~capture /\ capture' /\ capture_ack_id' = p.ack_id /\ captured_n' = 0

HandlerCaptures(p) ==
  /\ check_packet_type(p) = "PACKET_DATA"
  /\ capture /\ p.ack_id = capture_ack_id /\ p.sequence_number = captured_n + 1
  /\ captured_packet_arr' = [captured_packet_arr EXCEPT ![captured_n] = p]
  /\ captured_n' = captured_n + 1
  /\ captured_n \in Handler!Slots
  /\ UNCHANGED <<capture, capture_ack_id>>

HandlerEnds(p) ==
  /\ check_packet_type(p) = "PACKET_END"
  /\ capture /\ ~capture' /\ captured_n' = 0

\* The bursts the application has stay what they are, and no other joins them.
NoNewBurst ==
  \A k: /\ k \in DOMAIN delivered' /\ delivered'[k].kind = "end" => k \in DOMAIN delivered
        /\ k \in DOMAIN delivered => k \in DOMAIN delivered' /\ delivered'[k] = delivered[k]

LEMMA HandlerEffect ==
  ASSUME Types, HandlePacket, NEW p, p = rx_p[Host]
  PROVE  \/ HandlerQuiet /\ NoNewBurst
         \/ Handler!ForUs(p) /\ HandlerBegins(p) /\ NoNewBurst
         \/ Handler!ForUs(p) /\ HandlerCaptures(p) /\ NoNewBurst
         \/ /\ Handler!ForUs(p) /\ HandlerEnds(p)
            /\ delivered' = Append(delivered, Handler!EndUpcall(Handler!Captured))
<1>h. Handler!rx_packet_handler(p)
  BY DEF HandlePacket
<1>t. /\ Handler!check_packet_type(p) = check_packet_type(p)
      /\ delivered \in Seq(UpcallRecords)
  BY DEF check_packet_type, Handler!check_packet_type, Types, HandlerTypes
<1>u. upcall' \in UpcallRecords
  <2>1. Handler!TypeOK'
    BY HandlerStepTypes, Parameters DEF HandlePacket, Types, LoopTypes
  <2> QED
    BY <2>1 DEF Handler!TypeOK, UpcallRecords, Handler!Packets, Packets, Handler!UInt8, UInt8
<1>n. upcall'.kind # "end" => NoNewBurst
  <2>1. CASE delivered' = delivered
    BY <2>1 DEF NoNewBurst
  <2>2. CASE delivered' = Append(delivered, upcall') /\ upcall'.kind # "end"
    <3>1. /\ DOMAIN delivered = 1..Len(delivered) /\ Len(delivered) \in Nat
          /\ DOMAIN delivered' = 1..Len(delivered) + 1
          /\ \A k \in 1..Len(delivered): delivered'[k] = delivered[k]
          /\ delivered'[Len(delivered) + 1] = upcall'
      BY <1>t, <1>u, <2>2, AppendProperties
    <3> QED
      BY <2>2, <3>1 DEF NoNewBurst
  <2> QED
    BY <2>1, <2>2 DEF HandlePacket
<1>k. /\ Handler!NoUpcall.kind = "none" /\ Handler!CommandUpcall(p).kind = "command"
      /\ \A s: Handler!EndUpcall(s).kind = "end"
  BY DEF Handler!NoUpcall, Handler!CommandUpcall, Handler!EndUpcall
<1>1. CASE Handler!WrongAddress(p) \/ Handler!RedundantPacket(p)
  BY <1>1, <1>n, <1>k
     DEF Handler!WrongAddress, Handler!RedundantPacket, Handler!Return, Handler!ctx, HandlerQuiet
<1>2. CASE Handler!HandleBegin(p)
  BY <1>2, <1>n, <1>k, <1>t
     DEF Handler!HandleBegin, Handler!Accept, Handler!Return, HandlerQuiet, HandlerBegins
<1>3. CASE Handler!CaptureData(p)
  <2>1. captured_n \in Handler!Slots
    BY <1>3, CapturedType, Parameters
       DEF Handler!CaptureData, Handler!ArrayFull, Handler!Slots, Types, HandlerTypes,
           Handler!TypeOK, Handler!PACKET_CAPTURE_MAX_COUNT
  <2> QED
    BY <1>3, <1>n, <1>k, <1>t, <2>1
       DEF Handler!CaptureData, Handler!Accept, Handler!OfThisCapture, Handler!NextInSequence,
           Handler!Return, HandlerCaptures
<1>4. CASE Handler!RefuseData(p) \/ Handler!HandleUnknown(p)
  BY <1>4, <1>n, <1>k
     DEF Handler!RefuseData, Handler!HandleUnknown, Handler!Return, HandlerQuiet
<1>5. CASE Handler!DataOutsideCapture(p)
  BY <1>5, <1>n, <1>k DEF Handler!DataOutsideCapture, Handler!Return, HandlerQuiet
<1>6. CASE Handler!HandleEnd(p)
  <2>1. CASE capture
    BY <1>6, <1>k, <1>t, <2>1
       DEF Handler!HandleEnd, Handler!Accept, Handler!ResetCapture, HandlerEnds, HandlePacket
  <2>2. CASE ~capture
    BY <1>6, <1>n, <1>k, <2>2 DEF Handler!HandleEnd, Handler!Return, HandlerQuiet
  <2> QED
    BY <2>1, <2>2
<1> QED
  BY <1>h, <1>1, <1>2, <1>3, <1>4, <1>5, <1>6 DEF Handler!rx_packet_handler

\* A packet with a fragment that fits the capture is the next one of the burst
\* that the capture is of.
LEMMA FragmentOf ==
  ASSUME OwnIds, NEW w \in Workloads, NEW p, p.payload # NoPayload, SentIn(w, p),
         NEW n \in Nat, p.sequence_number = n + 1
  PROVE  \E j \in DOMAIN w: w[j].framed /\ p.ack_id = w[j].ack_id /\ p.payload = <<j, n + 1>>
<1>0. PICK j \in DOMAIN w: \E i \in 1..PacketCount(w, j): p = PacketOf(w, j, i)
  BY DEF SentIn
<1>1. PICK i \in 1..PacketCount(w, j): p = PacketOf(w, j, i)
  BY <1>0
<1>2. /\ w[j].framed \in BOOLEAN /\ w[j].n \in Nat \ {0}
      /\ IF w[j].framed THEN w[j].n <= UINT8_MAX + 1 ELSE w[j].n = 1
  BY JobTypes DEF OwnIds
<1>3. /\ p.ack_id = w[j].ack_id /\ p.payload = PayloadOf(w, j, i)
      /\ SequenceNumber(w, j, i) = n + 1
  BY <1>1 DEF PacketOf, packet_constructor
<1>4. CASE ~w[j].framed
  <2>1. i = 1
    BY <1>2, <1>4 DEF PacketCount
  <2>2. SequenceNumber(w, j, i) = 0
    BY <1>4, <2>1, Parameters DEF SequenceNumber
  <2> QED
    BY <1>3, <2>2
<1>5. CASE w[j].framed
  <2>1. i \notin {1, w[j].n + 2}
    BY <1>3, <1>5 DEF PayloadOf
  <2>2. i - 1 \in 1..UINT8_MAX + 1
    BY <1>2, <1>5, <2>1, Parameters DEF PacketCount
  <2>3. (i - 1) % (UINT8_MAX + 1) = n + 1
    BY <1>3, <2>1 DEF SequenceNumber
  <2>4. i - 1 = n + 1
    <3>1. CASE i - 1 = UINT8_MAX + 1
      <4>1. (UINT8_MAX + 1) % (UINT8_MAX + 1) = 0
        BY Parameters
      <4> QED
        BY <2>3, <3>1, <4>1
    <3>2. CASE i - 1 # UINT8_MAX + 1
      <4>1. i - 1 \in Nat /\ i - 1 < UINT8_MAX + 1
        BY <2>2, <3>2, Parameters
      <4>2. (i - 1) % (UINT8_MAX + 1) = i - 1
        BY <4>1, Parameters
      <4> QED
        BY <2>3, <4>2
    <3> QED
      BY <3>1, <3>2
  <2>5. p.payload = <<j, n + 1>>
    BY <1>3, <1>5, <2>1, <2>4 DEF PayloadOf
  <2> QED
    BY <1>3, <1>5, <2>5
<1> QED
  BY <1>2, <1>4, <1>5

-----------------------------------------------------------------------------
(* A burst is never made of pieces of several.                             *)

\* The capture's ack_id is that of transfer c.
OpenedBy(c) == jobs[c].framed /\ capture_ack_id = jobs[c].ack_id

\* The captured packets are the first fragments of transfer c.
CapturedFrom(c) ==
  /\ OpenedBy(c)
  /\ \A x \in 0..captured_n - 1: captured_packet_arr[x].payload = <<c, x + 1>>

MixInv ==
  /\ Types
  /\ Traffic
  /\ Silence
  /\ captured_n > 0 => \E c \in DOMAIN jobs: CapturedFrom(c)
  /\ NothingMixed

LEMMA InitMix ==
  ASSUME Init
  PROVE  MixInv
<1>1. Types
  BY InitTypes
<1>2. Traffic
  BY EmptyIsSent, Parameters DEF Init, Traffic
<1>3. Silence
  BY DEF Init, Silence
<1>4. NothingMixed /\ ~(captured_n > 0)
  BY DEF Init, NothingMixed
<1> QED
  BY <1>1, <1>2, <1>3, <1>4 DEF MixInv

LEMMA NoNewMix ==
  ASSUME NothingMixed, jobs' = jobs, NoNewBurst
  PROVE  NothingMixed'
<1> SUFFICES ASSUME NEW k \in DOMAIN delivered', delivered'[k].kind = "end"
             PROVE  \E j \in DOMAIN jobs: \A i \in DOMAIN delivered'[k].items:
                      delivered'[k].items[i].payload = <<j, i>>
  BY DEF NothingMixed
<1>1. k \in DOMAIN delivered /\ delivered'[k] = delivered[k]
  BY DEF NoNewBurst
<1> QED
  BY <1>1 DEF NothingMixed

\* The end handler is given what the capture holds.
LEMMA EndMix ==
  ASSUME MixInv, DOMAIN jobs # {}, jobs' = jobs,
         delivered' = Append(delivered, Handler!EndUpcall(Handler!Captured))
  PROVE  NothingMixed'
<1> DEFINE u == Handler!EndUpcall(Handler!Captured)
<1>1. /\ captured_n \in Nat /\ Handler!Captured \in Seq(Packets)
      /\ Len(Handler!Captured) = captured_n
      /\ \A i \in 1..captured_n: Handler!Captured[i] = captured_packet_arr[i - 1]
  BY CapturedType DEF MixInv, Types
<1>2. u.items = Handler!Captured /\ u \in UpcallRecords
  BY <1>1 DEF Handler!EndUpcall, UpcallRecords
<1>3. delivered \in Seq(UpcallRecords)
  BY DEF MixInv, Types, HandlerTypes
<1> HIDE DEF u
<1>4. /\ DOMAIN delivered' = 1..Len(delivered) + 1 /\ DOMAIN delivered = 1..Len(delivered)
      /\ Len(delivered) \in Nat
      /\ \A k \in 1..Len(delivered): delivered'[k] = delivered[k]
      /\ delivered'[Len(delivered) + 1] = u
  BY <1>2, <1>3, AppendProperties DEF u
<1>5. \E j \in DOMAIN jobs: \A i \in DOMAIN u.items: u.items[i].payload = <<j, i>>
  <2>1. PICK c \in DOMAIN jobs: captured_n > 0 => CapturedFrom(c)
    BY DEF MixInv
  <2>2. \A i \in 1..captured_n: u.items[i].payload = <<c, i>>
    <3> TAKE i \in 1..captured_n
    <3>1. i - 1 \in 0..captured_n - 1 /\ (i - 1) + 1 = i
      BY <1>1
    <3>2. CapturedFrom(c)
      BY <1>1, <2>1
    <3>3. captured_packet_arr[i - 1].payload = <<c, (i - 1) + 1>>
      BY <3>1, <3>2 DEF CapturedFrom
    <3> QED
      BY <1>1, <1>2, <3>1, <3>3
  <2>3. DOMAIN u.items = 1..captured_n
    BY <1>1, <1>2
  <2> QED
    BY <2>2, <2>3
<1>6. \A k \in DOMAIN delivered': k # Len(delivered) + 1 =>
        k \in DOMAIN delivered /\ delivered'[k] = delivered[k]
  BY <1>4
<1>7. \A k \in DOMAIN delivered': delivered'[k].kind = "end" =>
        \E j \in DOMAIN jobs: \A i \in DOMAIN delivered'[k].items:
          delivered'[k].items[i].payload = <<j, i>>
  <2> TAKE k \in DOMAIN delivered'
  <2>1. CASE k = Len(delivered) + 1
    BY <1>4, <1>5, <2>1
  <2>2. CASE k # Len(delivered) + 1
    BY <1>6, <2>2 DEF MixInv, NothingMixed
  <2> QED
    BY <2>1, <2>2
<1> QED
  BY <1>7 DEF NothingMixed

\* Another fragment joins those of its burst.
LEMMA CaptureMix ==
  ASSUME MixInv, OwnIds, NEW p, SentIn(jobs, p), HandlerCaptures(p), jobs' = jobs
  PROVE  \E c \in DOMAIN jobs: CapturedFrom(c)'
<1>w. jobs \in Workloads
  BY DEF MixInv, Types, SenderTypes
<1>n. captured_n \in Nat
  BY CapturedType DEF MixInv, Types
<1>1. p.payload # NoPayload
  BY DEF HandlerCaptures, check_packet_type
<1>2. PICK c \in DOMAIN jobs: /\ jobs[c].framed /\ p.ack_id = jobs[c].ack_id
                              /\ p.payload = <<c, captured_n + 1>>
  BY <1>1, <1>n, <1>w, FragmentOf DEF HandlerCaptures
<1>3. ASSUME captured_n > 0 PROVE CapturedFrom(c)
  <2>1. PICK b \in DOMAIN jobs: CapturedFrom(b)
    BY <1>3 DEF MixInv
  <2>2. b = c
    BY <1>2, <1>w, <2>1 DEF CapturedFrom, OpenedBy, HandlerCaptures, OwnIds
  <2> QED
    BY <2>1, <2>2
<1>4. ASSUME NEW x \in 0..captured_n' - 1
      PROVE  captured_packet_arr'[x].payload = <<c, x + 1>>
  <2>1. /\ x \in 0..captured_n /\ captured_n \in Handler!Slots
        /\ captured_packet_arr' = [captured_packet_arr EXCEPT ![captured_n] = p]
        /\ captured_packet_arr \in [Handler!Slots -> Packets \cup {NULL}]
    BY <1>4, <1>n
       DEF HandlerCaptures, MixInv, Types, HandlerTypes, Handler!TypeOK, Handler!Packets, Packets,
           Handler!UInt8, UInt8
  <2>2. CASE x = captured_n
    BY <1>2, <2>1, <2>2
  <2>3. CASE x # captured_n
    <3>1. x \in 0..captured_n - 1 /\ captured_n > 0
      BY <1>n, <2>1, <2>3
    <3>2. captured_packet_arr'[x] = captured_packet_arr[x]
      <4>1. x \in Handler!Slots
        BY <2>1, <3>1, Parameters DEF Handler!Slots, Handler!PACKET_CAPTURE_MAX_COUNT
      <4> QED
        BY <2>1, <2>3, <4>1
    <3> QED
      BY <1>3, <3>1, <3>2 DEF CapturedFrom
  <2> QED
    BY <2>2, <2>3
<1>5. capture_ack_id' = jobs[c].ack_id
  BY <1>2 DEF HandlerCaptures
<1> QED
  BY <1>2, <1>4, <1>5 DEF CapturedFrom, OpenedBy

LEMMA HandleMix ==
  ASSUME MixInv, OwnIds, HandlePacket
  PROVE  /\ captured_n' > 0 => \E c \in DOMAIN jobs: CapturedFrom(c)'
         /\ NothingMixed'
<1> USE Parameters
<1>1. jobs' = jobs /\ Types
  BY DEF HandlePacket, senderVars, jobVars, MixInv
<1>2. PICK p: p = rx_p[Host]
  OBVIOUS
<1>3. SentIn(jobs, p)
  BY <1>2 DEF MixInv, Traffic
<1>4. CASE HandlerQuiet /\ NoNewBurst
  <2>1. \A c: CapturedFrom(c)' <=> CapturedFrom(c)
    BY <1>1, <1>4 DEF HandlerQuiet, Handler!captureVars, CapturedFrom, OpenedBy
  <2> QED
    BY <1>1, <1>4, <2>1, NoNewMix DEF MixInv, HandlerQuiet, Handler!captureVars
<1>5. CASE HandlerBegins(p) /\ NoNewBurst
  BY <1>1, <1>5, NoNewMix DEF MixInv, HandlerBegins
<1>6. CASE HandlerCaptures(p) /\ NoNewBurst
  BY <1>1, <1>3, <1>6, CaptureMix, NoNewMix DEF MixInv
<1>7. CASE HandlerEnds(p) /\ delivered' = Append(delivered, Handler!EndUpcall(Handler!Captured))
  <2>1. DOMAIN jobs # {}
    BY DEF MixInv, Silence, HandlePacket
  <2> QED
    BY <1>1, <1>7, <2>1, EndMix DEF HandlerEnds
<1> QED
  BY <1>1, <1>2, <1>4, <1>5, <1>6, <1>7, HandlerEffect

\* Every other step leaves the capture and the application alone, or clears the
\* capture.
LEMMA OtherSteps ==
  ASSUME Next, ~HandlePacket
  PROVE  /\ jobs' = jobs /\ delivered' = delivered
         /\ UNCHANGED Handler!captureVars \/ (~capture' /\ captured_n' = 0)
<1>1. CASE StartJob \/ SenderStep \/ TransmitFails \/ PollFails
  BY <1>1
     DEF StartJob, SenderStep, Transmit, TransmitFails, Arm, ReadReply, PollTimeout, PollFails,
         NextPacket, NextAttempt, Report, jobVars, hostVars, handlerVars, Handler!captureVars
<1>2. ASSUME NEW r \in Receivers, LoopStep(r) \/ PollError(r) \/ LoopExits(r)
      PROVE  /\ jobs' = jobs /\ delivered' = delivered
             /\ UNCHANGED Handler!captureVars
  BY <1>2
     DEF LoopStep, Rearm, Receive, SendAck, BystanderHandles, PollError, LoopExits,
         senderVars, jobVars, hostVars, handlerVars, Handler!captureVars
<1>3. CASE Restart
  BY <1>3 DEF Restart, Handler!rx_handler_init, senderVars, jobVars
<1> QED
  BY <1>1, <1>2, <1>3 DEF Next

LEMMA NextMix ==
  ASSUME MixInv, OwnIds, [Next]_vars
  PROVE  MixInv'
<1>1. Types'
  BY NextTypes DEF MixInv
<1>2. CASE UNCHANGED vars
  <2>1. UNCHANGED <<jobs, fifo, pc, rx_p, delivered, capture, capture_ack_id, captured_packet_arr,
                    captured_n>>
    BY <1>2 DEF vars, senderVars, jobVars, radioVars, loopVars, hostVars, handlerVars
  <2>2. \A c: CapturedFrom(c)' <=> CapturedFrom(c)
    BY <2>1 DEF CapturedFrom, OpenedBy
  <2> QED
    BY <1>1, <2>1, <2>2 DEF MixInv, Traffic, Silence, NothingMixed
<1>3. CASE Next
  <2>1. Traffic'
    BY <1>3, SenderTraffic, LoopTraffic, RestartTraffic DEF MixInv, Next
  <2>2. Silence'
    BY <1>3, SilenceLasts DEF MixInv
  <2>3. CASE HandlePacket
    BY <1>1, <2>1, <2>2, <2>3, HandleMix DEF MixInv, HandlePacket, senderVars, jobVars
  <2>4. CASE ~HandlePacket
    <3>1. /\ jobs' = jobs /\ delivered' = delivered
          /\ UNCHANGED Handler!captureVars \/ (~capture' /\ captured_n' = 0)
      BY <1>3, <2>4, OtherSteps
    <3>2. captured_n' > 0 => \E c \in DOMAIN jobs: CapturedFrom(c)'
      BY <3>1 DEF MixInv, CapturedFrom, OpenedBy, Handler!captureVars
    <3>3. NothingMixed'
      BY <3>1 DEF MixInv, NothingMixed
    <3> QED
      BY <1>1, <2>1, <2>2, <3>1, <3>2, <3>3 DEF MixInv
  <2> QED
    BY <2>3, <2>4
<1> QED
  BY <1>2, <1>3

LEMMA MixInvariant ==
  ASSUME OwnIds
  PROVE  Spec => []MixInv
<1>1. Init => MixInv
  BY InitMix
<1>2. MixInv /\ [Next]_vars => MixInv'
  BY NextMix
<1> QED
  BY <1>1, <1>2, PTL DEF Spec

\* Whatever fails, and whoever else listens, a burst the application is given
\* holds the first fragments of one transfer, in order and without a gap, though
\* the handler compares nothing but an ack_id and a sequence number
\* (rx_packet_handler; send_burst may have given up on it or been restarted).
THEOREM NothingMixedCorrect ==
  ASSUME OwnIds
  PROVE  Spec => []NothingMixed
<1>1. MixInv => NothingMixed
  BY DEF MixInv
<1> QED
  BY <1>1, MixInvariant, PTL

-----------------------------------------------------------------------------
(* A burst is never handed over twice.                                     *)

\* No third node acknowledges acknowledgements.
Alone == \A F \in FaultSets: "neighbour" \notin F

\* The bursts handed over with a fragment in them, and the transfer each is of.
Bursts == {k \in DOMAIN delivered: delivered[k].kind = "end" /\ delivered[k].items # <<>>}
TransferOf(k) == delivered[k].items[1].payload[1]

\* All of them were over when packet b of transfer a was sent.
EndedBy(a, b) ==
  \A k \in Bursts: TransferOf(k) < a \/ (TransferOf(k) = a /\ b = PacketCount(jobs, a))

SentSoFar(a, b) == a < job \/ (a = job /\ b <= idx)

\* What the host has still to handle.
Pipe(p) ==
  \/ pc[Host] = "poll" /\ p = fifo[Host]
  \/ pc[Host] \in {"ack", "handle"} /\ p = rx_p[Host]

Noise == {Nothing, Corrupt, ZeroPacket}

\* It is noise, or was sent after all that was handed over, and not before the
\* burst that is being captured.
Coming(p) ==
  \/ p \in Noise
  \/ \E a \in DOMAIN jobs: \E b \in 1..PacketCount(jobs, a):
       /\ p = PacketOf(jobs, a, b)
       /\ SentSoFar(a, b)
       /\ EndedBy(a, b)
       /\ \A c \in DOMAIN jobs: capture /\ OpenedBy(c) => c <= a

CaptureIsNew ==
  capture => /\ \E c \in DOMAIN jobs: OpenedBy(c) /\ c <= job
             /\ \A c \in DOMAIN jobs: OpenedBy(c) => \A k \in Bursts: TransferOf(k) < c

OnceInv ==
  /\ MixInv
  /\ \A r \in Bystanders: pc[r] = "exited"
  /\ EndedBy(job, idx)
  /\ \A p \in FifoContents: Pipe(p) => Coming(p)
  /\ CaptureIsNew
  /\ \A k, l \in Bursts: TransferOf(k) = TransferOf(l) => k = l

LEMMA InitOnce ==
  ASSUME Alone, Init
  PROVE  OnceInv
<1>1. MixInv
  BY InitMix
<1>2. \A r \in Bystanders: pc[r] = "exited"
  <2>1. "neighbour" \notin faults
    BY DEF Alone, Init
  <2>2. \A r \in Bystanders: r # Host /\ r \in Receivers
    BY DistinctAssumption DEF Receivers
  <2> QED
    BY <2>1, <2>2 DEF Init
<1>3. Bursts = {} /\ ~capture
  BY DEF Init, Bursts
<1>4. \A p: ~Pipe(p)
  <2>1. pc[Host] = "rearm"
    BY Parameters DEF Init
  <2> QED
    BY <2>1 DEF Pipe
<1> QED
  BY <1>1, <1>2, <1>3, <1>4 DEF OnceInv, EndedBy, CaptureIsNew

\* A burst handed over with a fragment in it is of a transfer.
LEMMA BurstTransfer ==
  ASSUME MixInv, NEW k \in Bursts
  PROVE  /\ TransferOf(k) \in DOMAIN jobs /\ TransferOf(k) \in Nat \ {0}
         /\ 1 \in DOMAIN delivered[k].items
<1>1. k \in DOMAIN delivered /\ delivered[k].kind = "end" /\ delivered[k].items # <<>>
  BY DEF Bursts
<1>2. delivered[k].items \in Seq(Packets)
  <2>1. delivered \in Seq(UpcallRecords)
    BY DEF MixInv, Types, HandlerTypes
  <2>2. delivered[k] \in UpcallRecords
    BY <1>1, <2>1
  <2> QED
    BY <2>2 DEF UpcallRecords
<1>3. 1 \in DOMAIN delivered[k].items
  BY <1>1, <1>2
<1>4. PICK j \in DOMAIN jobs: \A i \in DOMAIN delivered[k].items:
                                delivered[k].items[i].payload = <<j, i>>
  BY <1>1 DEF MixInv, NothingMixed
<1>5. TransferOf(k) = j
  BY <1>3, <1>4 DEF TransferOf
<1> QED
  BY <1>3, <1>5, JobTypes DEF MixInv, Types, SenderTypes

LEMMA OneOpener ==
  ASSUME OwnIds, jobs \in Workloads, NEW c \in DOMAIN jobs, NEW d \in DOMAIN jobs,
         OpenedBy(c), OpenedBy(d)
  PROVE  c = d
BY DEF OwnIds, OpenedBy

\* The sender only goes forward, and past the end of a transfer only to the
\* next one.
LEMMA SenderGoesForward ==
  ASSUME Types, Next
  PROVE  /\ jobs' = jobs
         /\ \/ job' = job /\ idx' = idx
            \/ job > 0 /\ job' = job /\ idx' = idx + 1 /\ idx # PacketCount(jobs, job)
            \/ job' = job + 1
<1>1. ASSUME s_pc # "idle", NextPacket
      PROVE  /\ jobs' = jobs
             /\ \/ job' = job /\ idx' = idx
                \/ job > 0 /\ job' = job /\ idx' = idx + 1 /\ idx # PacketCount(jobs, job)
  <2>1. job > 0 /\ Len(p_buf) = PacketCount(jobs, job)
    BY <1>1, SenderFacts DEF Types, SenderTypes
  <2> QED
    BY <1>1, <2>1 DEF NextPacket, Report, jobVars
<1>2. CASE StartJob \/ SenderStep \/ TransmitFails \/ PollFails
  BY <1>1, <1>2
     DEF StartJob, SenderStep, Transmit, TransmitFails, Arm, ReadReply, PollTimeout, PollFails,
         NextAttempt, Report, jobVars
<1>3. ASSUME NEW r \in Receivers, LoopStep(r) \/ PollError(r) \/ LoopExits(r)
      PROVE  UNCHANGED senderVars
  BY <1>3
     DEF LoopStep, Rearm, Receive, SendAck, HandlePacket, BystanderHandles, PollError, LoopExits
<1>4. CASE Restart
  BY <1>4 DEF Restart, senderVars, jobVars, sendVars
<1> QED
  BY <1>2, <1>3, <1>4 DEF Next, senderVars, jobVars, sendVars

\* What the host gets to handle is what the sender has just sent, or noise, or
\* was on its way already.
LEMMA PipeSteps ==
  ASSUME Types, Next, \A r \in Bystanders: pc[r] = "exited"
  PROVE  /\ \A r \in Bystanders: pc'[r] = "exited"
         /\ \A p: Pipe(p)' => \/ p \in Noise \/ Pipe(p)
                              \/ /\ p = PacketOf(jobs, job, idx) /\ UNCHANGED <<job, idx>>
                                 /\ job \in DOMAIN jobs /\ idx \in 1..PacketCount(jobs, job)
         /\ HandlePacket => \A p: ~Pipe(p)'
<1> USE Parameters
<1>b. \A r \in Bystanders: r # Host /\ r \in Receivers
  BY DistinctAssumption DEF Receivers
<1>1. CASE StartJob \/ SenderStep \/ TransmitFails \/ PollFails
  <2>1. UNCHANGED <<pc, rx_p>> /\ ~HandlePacket
    <3>1. UNCHANGED <<pc, rx_p>>
      BY <1>1 DEF StartJob, SenderStep, Transmit, TransmitFails, Arm, ReadReply, PollTimeout,
                  PollFails, loopVars
    <3>2. HandlePacket => pc'[Host] # pc[Host]
      BY DEF HandlePacket, Types, LoopTypes
    <3> QED
      BY <3>1, <3>2
  <2>2. \/ fifo'[Host] = fifo[Host]
        \/ fifo'[Host] = Corrupt
        \/ /\ fifo'[Host] = PacketOf(jobs, job, idx) /\ UNCHANGED <<job, idx>>
           /\ job \in DOMAIN jobs /\ idx \in 1..PacketCount(jobs, job)
    <3>1. CASE Broadcast(Sender, curr_packet) /\ s_pc # "idle" /\ UNCHANGED <<job, idx>>
      <4>1. /\ curr_packet \in Packets /\ curr_packet = PacketOf(jobs, job, idx)
            /\ job \in DOMAIN jobs /\ idx \in 1..PacketCount(jobs, job)
        BY <3>1, SenderFacts DEF Types, SenderTypes
      <4>2. fifo'[Host] \in {fifo[Host], curr_packet, Corrupt}
        BY <3>1, <4>1, BroadcastEffect DEF Types
      <4> QED
        BY <3>1, <4>1, <4>2
    <3>2. CASE UNCHANGED fifo \/ fifo' = [fifo EXCEPT ![Sender] = Nothing]
      BY <3>2 DEF Types, RadioTypes
    <3> QED
      BY <1>1, <3>1, <3>2
         DEF StartJob, SenderStep, Transmit, TransmitFails, Arm, ReadReply, PollTimeout, PollFails,
             SetRadio, radioVars, jobVars, Report
  <2> QED
    BY <2>1, <2>2 DEF Pipe, Noise
<1>2. ASSUME NEW r \in Receivers, LoopStep(r) \/ PollError(r) \/ LoopExits(r)
      PROVE  /\ \A k \in Bystanders: pc'[k] = "exited"
             /\ \A p: Pipe(p)' => p \in Noise \/ Pipe(p)
             /\ HandlePacket => \A p: ~Pipe(p)'
  <2>1. r = Host
    <3>1. r \in Bystanders => pc[r] = "exited" /\ r # Host
      BY <1>b
    <3>2. r \in Bystanders => FALSE
      BY <1>2, <3>1 DEF LoopStep, Rearm, Receive, SendAck, BystanderHandles, PollError, LoopExits
    <3> QED
      BY <3>2 DEF Receivers
  <2>2. /\ \A k \in Bystanders: pc'[k] = pc[k]
        /\ \E l \in {"rearm", "poll", "ack", "handle", "exited"}: pc' = [pc EXCEPT ![Host] = l]
    BY <1>2, <1>b, <2>1
       DEF LoopStep, Rearm, Receive, SendAck, HandlePacket, BystanderHandles, PollError, LoopExits,
           Types, LoopTypes
  <2>3. CASE Rearm(Host)
    <3>1. pc'[Host] = "poll" /\ fifo'[Host] = Nothing /\ pc[Host] = "rearm"
      BY <2>3 DEF Rearm, SetRadio, Types, LoopTypes, RadioTypes
    <3> QED
      BY <2>2, <3>1 DEF Pipe, Noise, HandlePacket
  <2>4. CASE Receive(Host)
    <3>1. PICK p: read_last_packet(fifo[Host], p) /\ rx_p' = [rx_p EXCEPT ![Host] = p]
      BY <2>4 DEF Receive
    <3>2. p \in {fifo[Host], ZeroPacket}
      BY <3>1 DEF read_last_packet
    <3>3. pc[Host] = "poll" /\ pc'[Host] = "ack" /\ rx_p'[Host] = p
      BY <2>4, <3>1 DEF Receive, Types, LoopTypes
    <3> QED
      BY <2>2, <3>2, <3>3 DEF Pipe, Noise, HandlePacket
  <2>5. CASE SendAck(Host)
    <3>1. pc[Host] = "ack" /\ pc'[Host] = "handle" /\ rx_p' = rx_p
      BY <2>5 DEF SendAck, Types, LoopTypes
    <3> QED
      BY <2>2, <3>1 DEF Pipe, HandlePacket
  <2>6. CASE HandlePacket \/ PollError(Host) \/ LoopExits(Host)
    <3>1. pc'[Host] \in {"rearm", "exited"}
      BY <2>6 DEF HandlePacket, PollError, LoopExits, Types, LoopTypes
    <3> QED
      BY <2>2, <3>1 DEF Pipe
  <2> QED
    BY <1>2, <2>1, <2>3, <2>4, <2>5, <2>6 DEF LoopStep, BystanderHandles
<1>3. CASE Restart
  <2>1. pc'[Host] = "rearm" /\ \A k \in Bystanders: pc'[k] = pc[k]
    BY <1>3, <1>b DEF Restart, Types, LoopTypes
  <2> QED
    BY <2>1 DEF Pipe
<1> QED
  BY <1>1, <1>2, <1>3 DEF Next

\* Packets without a fragment are the first and the last of their transfer.
LEMMA FrameEnds ==
  ASSUME NEW w \in Workloads, NEW a \in DOMAIN w, NEW b \in 1..PacketCount(w, a),
         NEW p, p = PacketOf(w, a, b)
  PROVE  /\ p.ack_id = w[a].ack_id
         /\ check_packet_type(p) = "PACKET_BEGIN" =>
              w[a].framed /\ b = 1 /\ b # PacketCount(w, a)
         /\ check_packet_type(p) = "PACKET_END" => w[a].framed /\ b = PacketCount(w, a)
<1>1. /\ w[a].n \in Nat \ {0} /\ w[a].framed \in BOOLEAN
      /\ \A i \in 1..w[a].n: <<a, i>> \in Payloads
  BY JobTypes
<1>2. /\ p.ack_id = w[a].ack_id /\ p.payload = PayloadOf(w, a, b)
      /\ p.sequence_number = SequenceNumber(w, a, b)
  BY DEF PacketOf, packet_constructor
<1>3. \A i \in 1..w[a].n: <<a, i>> # NoPayload
  BY <1>1, PayloadAssumption
<1>4. ASSUME p.payload = NoPayload
      PROVE  w[a].framed /\ b \in {1, w[a].n + 2}
  <2>1. CASE ~w[a].framed
    BY <1>1, <1>2, <1>3, <1>4, <2>1 DEF PayloadOf, PacketCount
  <2>2. CASE w[a].framed /\ b \notin {1, w[a].n + 2}
    <3>1. b - 1 \in 1..w[a].n
      BY <1>1, <2>2 DEF PacketCount
    <3>2. p.payload = <<a, b - 1>>
      BY <1>2, <2>2 DEF PayloadOf
    <3> QED
      BY <1>3, <1>4, <3>1, <3>2
  <2> QED
    BY <1>1, <2>1, <2>2
<1>5. w[a].framed => SequenceNumber(w, a, w[a].n + 2) = UINT8_MAX /\ SequenceNumber(w, a, 1) = 0
  <2>1. w[a].n + 2 # 1 /\ 0 % (UINT8_MAX + 1) = 0
    BY <1>1, Parameters
  <2> QED
    BY <2>1 DEF SequenceNumber
<1>6. UINT8_MAX # 0 /\ w[a].n + 2 # 1
  BY <1>1, Parameters
<1> QED
  BY <1>2, <1>4, <1>5, <1>6 DEF check_packet_type, PacketCount

LEMMA NoNewBursts ==
  ASSUME delivered' = delivered \/ NoNewBurst
  PROVE  /\ Bursts' = Bursts
         /\ \A k \in Bursts: TransferOf(k)' = TransferOf(k)
<1>1. CASE delivered' = delivered
  BY <1>1 DEF Bursts, TransferOf
<1>2. CASE NoNewBurst
  <2>1. \A k: k \in Bursts' <=> k \in Bursts
    BY <1>2 DEF NoNewBurst, Bursts
  <2>2. \A k \in Bursts: delivered'[k] = delivered[k]
    BY <1>2 DEF NoNewBurst, Bursts
  <2> QED
    BY <2>1, <2>2 DEF TransferOf
<1> QED
  BY <1>1, <1>2

LEMMA OtherOnce ==
  ASSUME OnceInv, OwnIds, Next, ~HandlePacket
  PROVE  OnceInv'
<1>t. Types /\ MixInv /\ MixInv' /\ \A r \in Bystanders: pc[r] = "exited"
  BY NextMix DEF OnceInv, MixInv
<1>j. /\ jobs \in Workloads /\ jobs' = jobs /\ job \in Nat /\ (job > 0 => idx \in Nat)
      /\ \A a \in DOMAIN jobs: a \in Nat \ {0} /\ PacketCount(jobs, a) \in Nat
  <2>1. jobs \in Workloads /\ jobs \in Seq(Transfers) /\ job \in 0..Len(jobs)
    BY <1>t, WorkloadAssumption DEF Types, SenderTypes, Transfers
  <2>2. job > 0 => idx \in Nat
    BY <1>t, <2>1, JobTypes, SenderFacts DEF Types, SenderTypes
  <2> QED
    BY <1>t, <2>1, <2>2, JobTypes, SenderGoesForward
<1>m. \/ job' = job /\ idx' = idx
      \/ job > 0 /\ job' = job /\ idx' = idx + 1 /\ idx # PacketCount(jobs, job)
      \/ job' = job + 1
  BY <1>t, SenderGoesForward
<1>d. /\ delivered' = delivered
      /\ UNCHANGED Handler!captureVars \/ (~capture' /\ captured_n' = 0)
  BY OtherSteps
<1>b. /\ Bursts' = Bursts
      /\ \A k \in Bursts: TransferOf(k)' = TransferOf(k)
  BY <1>d, NoNewBursts
<1>k. \A k \in Bursts: TransferOf(k) \in Nat
  BY <1>t, BurstTransfer
<1>e. \A a, b: EndedBy(a, b)' <=> EndedBy(a, b)
  BY <1>b, <1>j DEF EndedBy
<1>o. capture' => capture /\ \A c: OpenedBy(c)' <=> OpenedBy(c)
  BY <1>d, <1>j DEF OpenedBy, Handler!captureVars
<1>s. \A a \in DOMAIN jobs: \A b \in 1..PacketCount(jobs, a): SentSoFar(a, b) => SentSoFar(a, b)'
  BY <1>j, <1>m DEF SentSoFar
<1>1. \A r \in Bystanders: pc'[r] = "exited"
  BY <1>t, PipeSteps
<1>2. EndedBy(job, idx)'
  <2>1. \A k \in Bursts: TransferOf(k) < job' \/ (TransferOf(k) = job' /\ idx' = PacketCount(jobs, job'))
    <3> TAKE k \in Bursts
    <3>1. TransferOf(k) < job \/ (TransferOf(k) = job /\ idx = PacketCount(jobs, job))
      BY DEF OnceInv, EndedBy
    <3> QED
      BY <1>j, <1>k, <1>m, <3>1
  <2> QED
    BY <1>b, <1>j, <2>1 DEF EndedBy
<1>c. CaptureIsNew
  BY DEF OnceInv
<1>3. \A p \in FifoContents: Pipe(p)' => Coming(p)'
  <2> SUFFICES ASSUME NEW p \in FifoContents, Pipe(p)'
               PROVE  Coming(p)'
    OBVIOUS
  <2>1. CASE p \in Noise
    BY <2>1 DEF Coming
  <2>2. CASE p \notin Noise /\ Coming(p)
    <3>1. PICK a \in DOMAIN jobs: \E b \in 1..PacketCount(jobs, a):
            /\ p = PacketOf(jobs, a, b)
            /\ SentSoFar(a, b) /\ EndedBy(a, b)
            /\ \A c \in DOMAIN jobs: capture /\ OpenedBy(c) => c <= a
      BY <2>2 DEF Coming
    <3>2. PICK b \in 1..PacketCount(jobs, a):
            /\ p = PacketOf(jobs, a, b)
            /\ SentSoFar(a, b) /\ EndedBy(a, b)
            /\ \A c \in DOMAIN jobs: capture /\ OpenedBy(c) => c <= a
      BY <3>1
    <3>3. SentSoFar(a, b)' /\ EndedBy(a, b)'
      BY <1>e, <1>s, <3>2
    <3>4. \A c \in DOMAIN jobs: capture' /\ OpenedBy(c)' => c <= a
      BY <1>o, <3>2
    <3> QED
      BY <1>j, <3>2, <3>3, <3>4 DEF Coming
  <2>3. CASE /\ p = PacketOf(jobs, job, idx) /\ UNCHANGED <<job, idx>>
             /\ job \in DOMAIN jobs /\ idx \in 1..PacketCount(jobs, job)
    <3>1. PICK a \in DOMAIN jobs: a = job
      BY <2>3
    <3>2. PICK b \in 1..PacketCount(jobs, a): b = idx
      BY <2>3, <3>1
    <3>3. SentSoFar(a, b)' /\ EndedBy(a, b)'
      BY <1>2, <1>j, <2>3, <3>1, <3>2 DEF SentSoFar, EndedBy
    <3>4. \A c \in DOMAIN jobs: capture' /\ OpenedBy(c)' => c <= a
      <4> SUFFICES ASSUME NEW c \in DOMAIN jobs, capture', OpenedBy(c)'
                   PROVE  c <= a
        OBVIOUS
      <4>1. capture /\ OpenedBy(c)
        BY <1>o
      <4>2. PICK d \in DOMAIN jobs: OpenedBy(d) /\ d <= job
        BY <1>c, <4>1 DEF CaptureIsNew
      <4>3. c = d
        BY <1>j, <4>1, <4>2, OneOpener
      <4> QED
        BY <3>1, <4>2, <4>3
    <3> QED
      BY <1>j, <2>3, <3>1, <3>2, <3>3, <3>4 DEF Coming
  <2> QED
    <3>1. \/ p \in Noise \/ Pipe(p)
          \/ /\ p = PacketOf(jobs, job, idx) /\ UNCHANGED <<job, idx>>
             /\ job \in DOMAIN jobs /\ idx \in 1..PacketCount(jobs, job)
      BY <1>t, PipeSteps
    <3> QED
      BY <2>1, <2>2, <2>3, <3>1 DEF OnceInv
<1>4. CaptureIsNew'
  <2> SUFFICES ASSUME capture'
               PROVE  /\ \E c \in DOMAIN jobs: OpenedBy(c)' /\ c <= job'
                      /\ \A c \in DOMAIN jobs: OpenedBy(c)' =>
                           \A k \in Bursts: TransferOf(k) < c
    BY <1>b, <1>j DEF CaptureIsNew
  <2>1. PICK d \in DOMAIN jobs: OpenedBy(d) /\ d <= job
    BY <1>c, <1>o DEF CaptureIsNew
  <2>2. d <= job'
    BY <1>j, <1>m, <2>1
  <2> QED
    BY <1>c, <1>o, <2>1, <2>2 DEF CaptureIsNew
<1>5. \A k, l \in Bursts': TransferOf(k)' = TransferOf(l)' => k = l
  BY <1>b DEF OnceInv
<1>6. \A p \in FifoContents': Pipe(p)' => Coming(p)'
  BY <1>3 DEF FifoContents
<1> QED
  BY <1>1, <1>2, <1>4, <1>5, <1>6, <1>t DEF OnceInv

\* The application gets the captured fragments of one more transfer.
LEMMA OneMoreBurst ==
  ASSUME OnceInv, OwnIds, capture, jobs' = jobs,
         delivered' = Append(delivered, Handler!EndUpcall(Handler!Captured))
  PROVE  \/ /\ Bursts' = Bursts
            /\ \A k \in Bursts: TransferOf(k)' = TransferOf(k)
         \/ \E c \in DOMAIN jobs: \E new \in Bursts':
              /\ OpenedBy(c)
              /\ TransferOf(new)' = c
              /\ \A k \in Bursts': k # new =>
                   k \in Bursts /\ TransferOf(k)' = TransferOf(k) /\ TransferOf(k) < c
<1> DEFINE u == Handler!EndUpcall(Handler!Captured)
<1>0. PICK new: new = Len(delivered) + 1
  OBVIOUS
<1>t. MixInv /\ Types /\ CaptureIsNew
  BY DEF OnceInv, MixInv
<1>1. /\ captured_n \in Nat /\ Handler!Captured \in Seq(Packets)
      /\ Len(Handler!Captured) = captured_n
      /\ \A i \in 1..captured_n: Handler!Captured[i] = captured_packet_arr[i - 1]
  BY <1>t, CapturedType DEF Types
<1>2. u.items = Handler!Captured /\ u.kind = "end" /\ u \in UpcallRecords
  BY <1>1 DEF Handler!EndUpcall, UpcallRecords
<1>3. delivered \in Seq(UpcallRecords)
  BY <1>t DEF Types, HandlerTypes
<1> HIDE DEF u
<1>4. /\ DOMAIN delivered' = 1..new /\ DOMAIN delivered = 1..Len(delivered)
      /\ Len(delivered) \in Nat /\ new = Len(delivered) + 1
      /\ \A k \in 1..Len(delivered): delivered'[k] = delivered[k]
      /\ delivered'[new] = u
  BY <1>0, <1>2, <1>3, AppendProperties DEF u
<1>5. \A k: k # new /\ k \in Bursts' => k \in Bursts
  <2> SUFFICES ASSUME NEW k, k # new, k \in Bursts' PROVE k \in Bursts
    OBVIOUS
  <2>1. k \in 1..new /\ delivered'[k].kind = "end" /\ delivered'[k].items # <<>>
    BY <1>4 DEF Bursts
  <2>2. k \in 1..Len(delivered)
    BY <1>4, <2>1
  <2> QED
    BY <1>4, <2>1, <2>2 DEF Bursts
<1>6. \A k \in Bursts: k \in Bursts' /\ k # new /\ TransferOf(k)' = TransferOf(k)
  <2> TAKE k \in Bursts
  <2>1. k \in 1..Len(delivered) /\ delivered[k].kind = "end" /\ delivered[k].items # <<>>
    BY <1>4 DEF Bursts
  <2>2. k \in DOMAIN delivered' /\ k # new /\ delivered'[k] = delivered[k]
    BY <1>4, <2>1
  <2> QED
    BY <2>1, <2>2 DEF Bursts, TransferOf
<1>n. delivered'[new] = u /\ new \in DOMAIN delivered'
  BY <1>4
<1>7. CASE captured_n = 0
  <2>1. u.items = <<>>
    BY <1>1, <1>2, <1>7
  <2>2. new \notin Bursts'
    BY <1>n, <2>1 DEF Bursts
  <2> QED
    BY <1>5, <1>6, <2>2
<1>8. CASE captured_n > 0
  <2>1. PICK c \in DOMAIN jobs: CapturedFrom(c)
    BY <1>8, <1>t DEF MixInv
  <2>2. 1 \in 1..captured_n /\ 0 \in 0..captured_n - 1 /\ 1 - 1 = 0
    BY <1>1, <1>8
  <2>3. u.items[1].payload[1] = c
    BY <1>1, <1>2, <2>1, <2>2 DEF CapturedFrom
  <2>4. u.items # <<>>
    BY <1>1, <1>2, <1>8
  <2>5. new \in Bursts' /\ TransferOf(new)' = c
    BY <1>2, <1>n, <2>3, <2>4 DEF Bursts, TransferOf
  <2>6. OpenedBy(c) /\ \A k \in Bursts: TransferOf(k) < c
    BY <1>t, <2>1 DEF CapturedFrom, CaptureIsNew
  <2> QED
    BY <1>5, <1>6, <2>5, <2>6
<1> QED
  BY <1>1, <1>7, <1>8

LEMMA HandleOnce ==
  ASSUME OnceInv, OwnIds, HandlePacket
  PROVE  OnceInv'
<1> USE Parameters
<1>t. /\ Types /\ MixInv /\ CaptureIsNew /\ EndedBy(job, idx)
      /\ \A r \in Bystanders: pc[r] = "exited"
  BY DEF OnceInv, MixInv
<1>n. Next
  BY DEF Next, LoopStep
<1>m. MixInv'
  BY <1>n, <1>t, NextMix
<1>p. /\ \A r \in Bystanders: pc'[r] = "exited"
      /\ \A p: ~Pipe(p)'
  BY <1>n, <1>t, PipeSteps
<1>s. UNCHANGED <<jobs, job, idx>>
  BY DEF HandlePacket, senderVars, jobVars, sendVars
<1>j. /\ jobs \in Workloads /\ job \in Nat
      /\ \A a \in DOMAIN jobs: a \in Nat \ {0} /\ PacketCount(jobs, a) \in Nat
      /\ job > 0 => idx \in 1..PacketCount(jobs, job) /\ job \in DOMAIN jobs
  <2>1. jobs \in Workloads /\ jobs \in Seq(Transfers) /\ job \in 0..Len(jobs)
    BY <1>t, WorkloadAssumption DEF Types, SenderTypes, Transfers
  <2>2. job > 0 => idx \in 1..PacketCount(jobs, job) /\ job \in DOMAIN jobs
    BY <1>t, <2>1, SenderFacts DEF Types, SenderTypes
  <2> QED
    BY <2>1, <2>2, JobTypes
<1>1. PICK p \in FifoContents: p = rx_p[Host] /\ p \in Packets
  BY <1>t DEF Types, LoopTypes, FifoContents
<1>2. Coming(p)
  BY <1>1 DEF OnceInv, Pipe, HandlePacket
<1>3. ASSUME Handler!ForUs(p)
      PROVE  \E a \in DOMAIN jobs: \E b \in 1..PacketCount(jobs, a):
               /\ p = PacketOf(jobs, a, b)
               /\ SentSoFar(a, b) /\ EndedBy(a, b)
               /\ \A c \in DOMAIN jobs: capture /\ OpenedBy(c) => c <= a
  <2>1. p \notin {Nothing, Corrupt}
    BY <1>1, FifoAssumption
  <2>2. p # ZeroPacket
    BY <1>3 DEF ZeroPacket, packet_constructor, Handler!ForUs
  <2> QED
    BY <1>2, <2>1, <2>2 DEF Coming, Noise
<1>4. \/ HandlerQuiet /\ NoNewBurst
      \/ Handler!ForUs(p) /\ HandlerBegins(p) /\ NoNewBurst
      \/ Handler!ForUs(p) /\ HandlerCaptures(p) /\ NoNewBurst
      \/ /\ Handler!ForUs(p) /\ HandlerEnds(p)
         /\ delivered' = Append(delivered, Handler!EndUpcall(Handler!Captured))
  BY <1>1, <1>t, HandlerEffect
<1>q. ASSUME Bursts' = Bursts, \A k \in Bursts: TransferOf(k)' = TransferOf(k)
      PROVE  /\ EndedBy(job, idx)'
             /\ \A k, l \in Bursts': TransferOf(k)' = TransferOf(l)' => k = l
  BY <1>q, <1>s, <1>t DEF OnceInv, EndedBy
<1>5. CASE (HandlerQuiet \/ HandlerCaptures(p)) /\ NoNewBurst
  <2>1. Bursts' = Bursts /\ \A k \in Bursts: TransferOf(k)' = TransferOf(k)
    BY <1>5, NoNewBursts
  <2>2. capture' = capture /\ \A c: OpenedBy(c)' <=> OpenedBy(c)
    BY <1>5, <1>s DEF OpenedBy, HandlerQuiet, HandlerCaptures, Handler!captureVars
  <2>3. CaptureIsNew'
    BY <1>s, <1>t, <2>1, <2>2 DEF CaptureIsNew
  <2> QED
    BY <1>m, <1>p, <1>q, <2>1, <2>3 DEF OnceInv
<1>6. CASE Handler!ForUs(p) /\ HandlerBegins(p) /\ NoNewBurst
  <2>1. Bursts' = Bursts /\ \A k \in Bursts: TransferOf(k)' = TransferOf(k)
    BY <1>6, NoNewBursts
  <2>2. PICK a \in DOMAIN jobs: \E b \in 1..PacketCount(jobs, a):
               /\ p = PacketOf(jobs, a, b)
               /\ SentSoFar(a, b) /\ EndedBy(a, b)
    BY <1>3, <1>6
  <2>3. PICK b \in 1..PacketCount(jobs, a):
               /\ p = PacketOf(jobs, a, b)
               /\ SentSoFar(a, b) /\ EndedBy(a, b)
    BY <2>2
  <2>4. /\ jobs[a].framed /\ b = 1 /\ b # PacketCount(jobs, a)
        /\ capture_ack_id' = jobs[a].ack_id
    BY <1>6, <1>j, <2>3, FrameEnds DEF HandlerBegins
  <2>5. a <= job
    BY <1>j, <2>3 DEF SentSoFar
  <2>6. \A k \in Bursts: TransferOf(k) < a
    BY <2>3, <2>4 DEF EndedBy
  <2>7. \A c \in DOMAIN jobs: OpenedBy(c)' => c = a
    BY <1>j, <1>s, <2>4 DEF OpenedBy, OwnIds
  <2>8. OpenedBy(a)'
    BY <1>s, <2>4 DEF OpenedBy
  <2>9. CaptureIsNew'
    BY <1>s, <2>1, <2>5, <2>6, <2>7, <2>8 DEF CaptureIsNew
  <2> QED
    BY <1>m, <1>p, <1>q, <2>1, <2>9 DEF OnceInv
<1>7. CASE /\ Handler!ForUs(p) /\ HandlerEnds(p)
           /\ delivered' = Append(delivered, Handler!EndUpcall(Handler!Captured))
  <2>1. PICK a \in DOMAIN jobs: \E b \in 1..PacketCount(jobs, a):
               /\ p = PacketOf(jobs, a, b)
               /\ SentSoFar(a, b)
               /\ \A c \in DOMAIN jobs: capture /\ OpenedBy(c) => c <= a
    BY <1>3, <1>7
  <2>2. PICK b \in 1..PacketCount(jobs, a):
               /\ p = PacketOf(jobs, a, b)
               /\ SentSoFar(a, b)
               /\ \A c \in DOMAIN jobs: capture /\ OpenedBy(c) => c <= a
    BY <2>1
  <2>3. b = PacketCount(jobs, a)
    BY <1>7, <1>j, <2>2, FrameEnds DEF HandlerEnds
  <2>c. capture /\ ~capture'
    BY <1>7 DEF HandlerEnds
  <2>4. CASE Bursts' = Bursts /\ \A k \in Bursts: TransferOf(k)' = TransferOf(k)
    BY <1>m, <1>p, <1>q, <2>4, <2>c DEF OnceInv, CaptureIsNew
  <2>5. ASSUME NEW c \in DOMAIN jobs, NEW new \in Bursts', OpenedBy(c), TransferOf(new)' = c,
               \A k \in Bursts': k # new =>
                 k \in Bursts /\ TransferOf(k)' = TransferOf(k) /\ TransferOf(k) < c
        PROVE  OnceInv'
    <3>1. c <= a /\ c \in Nat /\ a \in Nat
      BY <1>j, <2>2, <2>5, <2>c
    <3>2. c < job \/ (c = job /\ idx = PacketCount(jobs, job))
      BY <1>j, <2>2, <2>3, <3>1 DEF SentSoFar
    <3>3. EndedBy(job, idx)'
      <4>1. \A k \in Bursts': \/ TransferOf(k)' < job
                              \/ TransferOf(k)' = job /\ idx = PacketCount(jobs, job)
        BY <1>t, <2>5, <3>2 DEF EndedBy
      <4> QED
        BY <1>s, <4>1 DEF EndedBy
    <3>4. \A k \in Bursts': k # new => TransferOf(k)' # c
      <4>1. \A k \in Bursts: TransferOf(k) \in Nat
        BY <1>t, BurstTransfer
      <4> QED
        BY <2>5, <3>1, <4>1
    <3>5. \A k, l \in Bursts': TransferOf(k)' = TransferOf(l)' => k = l
      BY <2>5, <3>4 DEF OnceInv
    <3> QED
      BY <1>m, <1>p, <2>c, <3>3, <3>5 DEF OnceInv, CaptureIsNew
  <2> QED
    BY <1>7, <1>s, <2>4, <2>5, <2>c, OneMoreBurst
<1> QED
  BY <1>4, <1>5, <1>6, <1>7

LEMMA NextOnce ==
  ASSUME OnceInv, OwnIds, [Next]_vars
  PROVE  OnceInv'
<1>1. CASE UNCHANGED vars
  <2>1. UNCHANGED <<jobs, job, idx, fifo, pc, rx_p, delivered, capture, capture_ack_id>>
    BY <1>1 DEF vars, senderVars, jobVars, sendVars, radioVars, loopVars, hostVars, handlerVars
  <2>2. MixInv'
    BY <1>1, NextMix DEF OnceInv
  <2>3. Bursts' = Bursts /\ \A k: TransferOf(k)' = TransferOf(k)
    BY <2>1 DEF Bursts, TransferOf
  <2>4. \A a, b: (EndedBy(a, b)' <=> EndedBy(a, b)) /\ (SentSoFar(a, b)' <=> SentSoFar(a, b))
    BY <2>1, <2>3 DEF EndedBy, SentSoFar
  <2>5. \A c: OpenedBy(c)' <=> OpenedBy(c)
    BY <2>1 DEF OpenedBy
  <2>6. \A p: (Pipe(p)' <=> Pipe(p)) /\ (Coming(p) => Coming(p)')
    BY <2>1, <2>4, <2>5 DEF Pipe, Coming
  <2>7. CaptureIsNew => CaptureIsNew'
    BY <2>1, <2>3, <2>5 DEF CaptureIsNew
  <2>8. EndedBy(job, idx)'
    BY <2>1, <2>3 DEF OnceInv, EndedBy
  <2>9. FifoContents' = FifoContents
    BY DEF FifoContents
  <2> QED
    BY <2>1, <2>2, <2>3, <2>6, <2>7, <2>8, <2>9 DEF OnceInv
<1>2. CASE Next
  BY <1>2, OtherOnce, HandleOnce
<1> QED
  BY <1>1, <1>2

\* A burst handed over with a fragment in it is handed over no second time: not
\* when its END is sent again because no acknowledgement of it came back, not
\* when a host that restarted missed the first one, and not when the sender gave
\* up half way (send_packet_ensure_ack retries, rx_packet_handler, HandleEnd).
THEOREM BurstHandedOnceCorrect ==
  ASSUME OwnIds, Alone
  PROVE  Spec => []BurstHandedOnce
<1>1. Init => OnceInv
  BY InitOnce
<1>2. OnceInv /\ [Next]_vars => OnceInv'
  BY NextOnce
<1>3. OnceInv => BurstHandedOnce
  <2> SUFFICES ASSUME OnceInv, NEW k \in DOMAIN delivered, NEW l \in DOMAIN delivered,
                      delivered[k].kind = "end", delivered[l].kind = "end",
                      delivered[k].items # <<>>,
                      Contents(delivered[k]) = Contents(delivered[l])
               PROVE  k = l
    BY DEF BurstHandedOnce
  <2>1. MixInv /\ delivered[k] \in UpcallRecords /\ delivered[l] \in UpcallRecords
    <3>1. delivered \in Seq(UpcallRecords)
      BY DEF OnceInv, MixInv, Types, HandlerTypes
    <3> QED
      BY <3>1 DEF OnceInv
  <2>2. delivered[k].items \in Seq(Packets) /\ delivered[l].items \in Seq(Packets)
    BY <2>1 DEF UpcallRecords
  <2>3. k \in Bursts
    BY DEF Bursts
  <2>4. DOMAIN delivered[k].items = DOMAIN delivered[l].items
    BY DEF Contents
  <2>5. 1 \in DOMAIN delivered[k].items
    BY <2>1, <2>3, BurstTransfer
  <2>6. delivered[l].items # <<>>
    BY <2>4, <2>5
  <2>7. l \in Bursts
    BY <2>6 DEF Bursts
  <2>8. delivered[k].items[1].payload = delivered[l].items[1].payload
    BY <2>4, <2>5 DEF Contents
  <2>9. TransferOf(k) = TransferOf(l)
    BY <2>8 DEF TransferOf
  <2> QED
    BY <2>3, <2>7, <2>9 DEF OnceInv
<1> QED
  BY <1>1, <1>2, <1>3, PTL DEF Spec
=============================================================================
