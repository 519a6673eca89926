-------------------------- MODULE BurstExample_proofs --------------------------
(***************************************************************************)
(* Proofs about the burst example, for a burst of any length, any number   *)
(* of attempts and any failing radio accesses.                             *)
(***************************************************************************)
EXTENDS BurstExample, LoraLink_proofs

\* One burst is sent.
SingleBurst == \A w \in Workloads: Len(w) = 1 /\ w[1].framed

Last == PacketCount(jobs, 1)
Pk(k) == PacketOf(jobs, 1, k)

-----------------------------------------------------------------------------
(* The invariant.  The host waits for packet c of the burst, or has them   *)
(* all (c = Last + 1).                                                     *)

\* Packet c, or the one before it again.
Recent(c, f) == \E k \in 1..Last: f = Pk(k) /\ k \in {c - 1, c} /\ k <= idx

Busy == pc[Host] \in {"ack", "handle"}

\* What the host has received.  An old frame may still be in the FIFO, but none
\* that is older than the packet in hand.
Received(c) ==
  /\ fifo[Host] \in Noise \/ Recent(c, fifo[Host])
  /\ Busy => rx_p[Host] \in Noise \/ Recent(c, rx_p[Host])
  /\ Busy /\ c <= Last /\ rx_p[Host] = Pk(c) => fifo[Host] \in Noise \cup {Pk(c)}

\* The host has acknowledged packet c and is about to take it; its radio is off
\* and empty.
Given(c) ==
  /\ c <= Last
  /\ pc[Host] = "handle" /\ rx_p[Host] = Pk(c)
  /\ fifo[Host] = Nothing /\ mode[Host] \in {"STDBY", "SLEEP"}

\* The packet is taken, or as good as taken.
Has(c, k) == k < c \/ (k = c /\ Given(c))

\* The sender moves on, and reports the burst, only when the host has the packet.
Sent(c) ==
  /\ c - 1 <= idx /\ \A k \in 1..idx - 1: Has(c, k)
  /\ \/ fifo[Sender] \in {Nothing, Corrupt, Acknowledgement(ZeroPacket)}
     \/ \E k \in 1..Last: fifo[Sender] = Acknowledgement(Pk(k)) /\ Has(c, k)
  /\ result[1] = "SX_OK" => s_pc = "idle" /\ job = 1 /\ Has(c, Last)

At(c) == Ready(1, c) /\ Received(c) /\ Sent(c)

BurstInv ==
  /\ Types
  /\ \A r \in Bystanders: pc[r] = "exited"
  /\ idx \in 1..Last /\ (job = 0 => idx = 1)
  /\ DeliveredSoFar
  /\ \E c \in 1..Last + 1: At(c)

IInv == Undisturbed => BurstInv

-----------------------------------------------------------------------------
(* The packets of the burst.                                               *)

LEMMA BurstFacts ==
  ASSUME HandlerRules, SingleBurst, Types
  PROVE  /\ jobs \in Workloads /\ DOMAIN jobs = {1} /\ Len(jobs) = 1
         /\ jobs[1].framed /\ jobs[1].n \in Nat \ {0} /\ jobs[1].n <= UINT8_MAX - 1
         /\ Last = jobs[1].n + 2 /\ Last \in Nat /\ Last > 2
         /\ job \in {0, 1} /\ (job > 0 => job = 1)
<1>1. jobs \in Workloads /\ Len(jobs) = 1 /\ jobs[1].framed /\ job \in 0..Len(jobs)
  BY DEF SingleBurst, Types, SenderTypes
<1>2. DOMAIN jobs = {1}
  <2>1. jobs \in Seq(Transfers)
    BY <1>1, WorkloadAssumption DEF Transfers
  <2> QED
    BY <1>1, <2>1
<1>3. jobs[1].n \in Nat \ {0} /\ jobs[1].n <= UINT8_MAX - 1
  BY <1>1, <1>2, JobTypes DEF HandlerRules
<1> QED
  BY <1>1, <1>2, <1>3 DEF Last, PacketCount

\* No two packets of the burst have the same sequence number.
LEMMA PacketsDiffer ==
  ASSUME HandlerRules, SingleBurst, Types, NEW k \in 1..Last, NEW l \in 1..Last,
         Pk(k).sequence_number = Pk(l).sequence_number
  PROVE  k = l
<1>1. /\ jobs \in Workloads /\ 1 \in DOMAIN jobs /\ jobs[1].framed
      /\ jobs[1].n \in Nat \ {0} /\ jobs[1].n <= UINT8_MAX - 1 /\ Last = jobs[1].n + 2
  BY BurstFacts
<1>2. \A i \in 1..Last:
        Pk(i).sequence_number = IF i = Last THEN UINT8_MAX ELSE i - 1
  <2> TAKE i \in 1..Last
  <2>1. i \in 1..PacketCount(jobs, 1)
    BY DEF Last
  <2> QED
    BY <1>1, <2>1, PacketFields DEF Pk
<1> HIDE DEF Last
<1> QED
  BY <1>1, <1>2, Parameters

\* A packet of the burst is no noise, and neither is its acknowledgement.
LEMMA PacketIsNoNoise ==
  ASSUME HandlerRules, SingleBurst, Types, NEW k \in 1..Last
  PROVE  /\ Pk(k) \in Packets /\ Pk(k) \notin Noise
         /\ Acknowledgement(Pk(k)) \notin {Nothing, Corrupt}
         /\ Acknowledgement(Pk(k)).sequence_number = Pk(k).sequence_number
<1>1. k \in 1..PacketCount(jobs, 1) /\ 1 \in DOMAIN jobs /\ jobs \in Workloads
  BY BurstFacts DEF Last
<1>2. Pk(k) \in Packets /\ Pk(k).dest_address = Host
  BY <1>1, PacketFields DEF Pk
<1>3. Pk(k) \notin {Nothing, Corrupt} /\ Acknowledgement(Pk(k)) \notin {Nothing, Corrupt}
  BY <1>2, AcknowledgementType, FifoAssumption
<1>4. Pk(k) # ZeroPacket
  BY <1>2, ZeroFields, Parameters
<1>5. Acknowledgement(Pk(k)).sequence_number = Pk(k).sequence_number
  BY DEF Acknowledgement, ack_packet, packet_constructor
<1> QED
  BY <1>2, <1>3, <1>4, <1>5 DEF Noise

\* A recent packet that is packet c has been sent.
LEMMA RecentIsSent ==
  ASSUME HandlerRules, SingleBurst, Types, NEW c \in 1..Last, Recent(c, Pk(c))
  PROVE  c <= idx
BY PacketsDiffer DEF Recent

LEMMA BurstStutter ==
  ASSUME jobs' = jobs
  PROVE  Last' = Last /\ \A k: Pk(k)' = Pk(k)
BY DEF Last, Pk

-----------------------------------------------------------------------------
(* What the steps leave of the host's and the sender's position.           *)

\* Where the sender may be.
LEMMA SenderAt ==
  ASSUME HandlerRules, SingleBurst, Types, idx \in 1..Last,
         NEW c \in 1..Last + 1, Sent(c), ~Given(c)
  PROVE  idx \in {c - 1, c}
<1>1. Last \in Nat /\ idx \in Nat /\ c \in Nat /\ c - 1 <= idx
  BY BurstFacts DEF Sent
<1>2. CASE idx = 1
  BY <1>1, <1>2
<1>3. CASE idx # 1
  <2>1. Has(c, idx - 1)
    BY <1>1, <1>3 DEF Sent
  <2> QED
    BY <1>1, <2>1 DEF Has
<1> QED
  BY <1>2, <1>3

\* A step of the sender: what it sends is heard only by a host that listens, and
\* it moves on only when the host has the packet.
LEMMA SenderMoves ==
  ASSUME HandlerRules, SingleBurst, Types, idx \in 1..Last,
         NEW c \in 1..Last + 1, At(c),
         UNCHANGED <<jobs, loopVars, hostVars>>, mode'[Host] = mode[Host],
         \/ fifo'[Host] = fifo[Host]
         \/ mode[Host] \notin {"STDBY", "SLEEP"} /\ fifo'[Host] \in {Corrupt, Pk(idx)},
         fifo'[Sender] \in {Nothing, fifo[Sender]},
         idx' = idx \/ (idx' = idx + 1 /\ Has(c, idx)),
         result'[1] = "SX_OK" => s_pc' = "idle" /\ job' = 1 /\ Has(c, Last)
  PROVE  At(c)'
<1>n. Last \in Nat /\ idx \in Nat /\ c \in Nat
  BY BurstFacts
<1>s. Last' = Last /\ (\A k: Pk(k)' = Pk(k))
  BY BurstStutter
<1>p. UNCHANGED <<pc[Host], rx_p[Host]>> /\ (Busy' <=> Busy)
  BY DEF loopVars, Busy
<1>1. Ready(1, c)'
  <2>1. UNCHANGED <<jobs, delivered, Handler!ctx>>
    BY DEF hostVars, handlerVars, Handler!ctx, Handler!captureVars, Handler!dedupVars
  <2> QED
    BY <2>1, PlaceStutter DEF At
<1>2. \A k: Has(c, k) => Has(c, k)'
  BY <1>s, <1>p DEF Has, Given
<1>3. \A f: Recent(c, f) => Recent(c, f)'
  BY <1>n, <1>s DEF Recent
<1>4. Received(c)'
  <2>1. CASE fifo'[Host] = fifo[Host]
    BY <1>s, <1>p, <1>3, <2>1 DEF At, Received, Noise
  <2>2. CASE fifo'[Host] = Corrupt
    BY <1>s, <1>p, <1>3, <2>2 DEF At, Received, Noise
  <2>3. CASE mode[Host] \notin {"STDBY", "SLEEP"} /\ fifo'[Host] = Pk(idx)
    <3>1. idx \in {c - 1, c}
      BY <2>3, SenderAt DEF At, Given
    <3>2. Recent(c, Pk(idx))
      BY <1>n, <3>1 DEF Recent
    <3>3. ASSUME Busy, c <= Last, rx_p[Host] = Pk(c)
          PROVE  fifo'[Host] = Pk(c)
      <4>1. c \in 1..Last
        BY <1>n, <3>3
      <4>2. c <= idx
        BY <3>3, <4>1, PacketIsNoNoise, RecentIsSent DEF At, Received
      <4>3. c = idx
        BY <1>n, <3>1, <4>2
      <4> QED
        BY <2>3, <4>3
    <3>4. PICK f: f = Pk(idx)
      OBVIOUS
    <3>5. Recent(c, f)'
      BY <1>3, <3>2, <3>4
    <3> QED
      BY <1>s, <1>p, <1>3, <2>3, <3>3, <3>4, <3>5 DEF At, Received, Noise
  <2> QED
    BY <2>1, <2>2, <2>3
<1>5. Sent(c)'
  <2>1. c - 1 <= idx' /\ \A k \in 1..idx' - 1: Has(c, k)'
    BY <1>n, <1>2 DEF At, Sent
  <2>2. \/ fifo'[Sender] \in {Nothing, Corrupt, Acknowledgement(ZeroPacket)}
        \/ \E k \in 1..Last: fifo'[Sender] = Acknowledgement(Pk(k)) /\ Has(c, k)'
    BY <1>2 DEF At, Sent
  <2> HIDE DEF Has
  <2> QED
    BY <1>s, <1>2, <2>1, <2>2 DEF Sent
<1> QED
  BY <1>1, <1>4, <1>5 DEF At

\* A step of the host's loop outside the handler: what it acknowledges it is
\* about to take.
LEMMA LoopMoves ==
  ASSUME HandlerRules, SingleBurst, Types, idx \in 1..Last,
         NEW c \in 1..Last + 1, At(c), ~Given(c), UNCHANGED <<senderVars, hostVars>>,
         Received(c)',
         \/ fifo'[Sender] \in {fifo[Sender], Corrupt, Acknowledgement(ZeroPacket)}
         \/ \E k \in 1..Last: fifo'[Sender] = Acknowledgement(Pk(k)) /\ Has(c, k)'
  PROVE  At(c)'
<1>s. /\ Last' = Last /\ (\A k: Pk(k)' = Pk(k))
      /\ UNCHANGED <<jobs, job, idx, s_pc, result>>
  BY BurstStutter DEF senderVars, jobVars, sendVars
<1>1. Ready(1, c)'
  <2>1. UNCHANGED <<jobs, delivered, Handler!ctx>>
    BY <1>s DEF hostVars, handlerVars, Handler!ctx, Handler!captureVars, Handler!dedupVars
  <2> QED
    BY <2>1, PlaceStutter DEF At
<1>2. \A k: Has(c, k) => Has(c, k)'
  BY DEF Has
<1>5. Sent(c)'
  <2>1. c - 1 <= idx' /\ \A k \in 1..idx' - 1: Has(c, k)'
    BY <1>s, <1>2 DEF At, Sent
  <2>2. \/ fifo'[Sender] \in {Nothing, Corrupt, Acknowledgement(ZeroPacket)}
        \/ \E k \in 1..Last: fifo'[Sender] = Acknowledgement(Pk(k)) /\ Has(c, k)'
    BY <1>2 DEF At, Sent
  <2>3. result'[1] = "SX_OK" => s_pc' = "idle" /\ job' = 1 /\ Has(c, Last)'
    BY <1>s, <1>2 DEF At, Sent
  <2> HIDE DEF Has
  <2> QED
    BY <1>s, <2>1, <2>2, <2>3 DEF Sent
<1> QED
  BY <1>1, <1>5 DEF At

-----------------------------------------------------------------------------
(* The sender's steps.                                                     *)

LEMMA InitBurst ==
  ASSUME HandlerRules, SingleBurst, Init
  PROVE  IInv
<1> SUFFICES ASSUME Undisturbed PROVE BurstInv
  BY DEF IInv
<1>t. Types
  BY InitTypes
<1>n. /\ jobs \in Workloads /\ 1 \in DOMAIN jobs /\ Last \in Nat /\ Last > 2
  BY <1>t, BurstFacts
<1>1. \A r \in Bystanders: pc[r] = "exited"
  BY DistinctAssumption DEF Init, Receivers, Undisturbed
<1>2. idx \in 1..Last /\ (job = 0 => idx = 1) /\ DeliveredSoFar
  BY <1>n DEF Init, DeliveredSoFar
<1>3. At(1)
  <2>1. ~Handler!Redundant(PacketOf(jobs, 1, 1))
    <3>1. 1 \in 1..PacketCount(jobs, 1)
      BY <1>n, JobTypes
    <3>2. PacketOf(jobs, 1, 1).ack_id # 0
      BY <1>n, <3>1, PacketFields
    <3> QED
      BY <3>2 DEF Handler!Redundant, Init
  <2>2. Ready(1, 1)
    BY <2>1 DEF Ready, Before, NotCapturing, Init
  <2>3. Received(1)
    BY Parameters DEF Received, Noise, Busy, Init
  <2>4. result[1] # "SX_OK"
    BY <1>n DEF Init
  <2>5. Sent(1)
    BY <2>4, Parameters DEF Sent, Init
  <2> QED
    BY <2>2, <2>3, <2>5 DEF At
<1>4. \E c \in 1..Last + 1: At(c)
  BY <1>n, <1>3
<1> QED
  BY <1>t, <1>1, <1>2, <1>4 DEF BurstInv

\* Wherever the host is, it has packet k, or as good as has it.
Acknowledged(k) == \A c \in 1..Last + 1: At(c) => Has(c, k)

LEMMA SenderKeeps ==
  ASSUME HandlerRules, SingleBurst, BurstInv, Types',
         UNCHANGED <<jobs, loopVars, hostVars>>, mode'[Host] = mode[Host],
         \/ fifo'[Host] = fifo[Host]
         \/ mode[Host] \notin {"STDBY", "SLEEP"} /\ fifo'[Host] \in {Corrupt, Pk(idx)},
         fifo'[Sender] \in {Nothing, fifo[Sender]},
         idx' = idx \/ (idx' = idx + 1 /\ idx < Last /\ Acknowledged(idx)),
         job' # 0,
         result'[1] = "SX_OK" => s_pc' = "idle" /\ job' = 1 /\ Acknowledged(Last)
  PROVE  BurstInv'
<1>1. PICK c \in 1..Last + 1: At(c)
  BY DEF BurstInv
<1>2. At(c)'
  <2>1. (Acknowledged(idx) => Has(c, idx)) /\ (Acknowledged(Last) => Has(c, Last))
    BY <1>1 DEF Acknowledged
  <2>2. /\ Types /\ idx \in 1..Last
        /\ idx' = idx \/ (idx' = idx + 1 /\ Has(c, idx))
        /\ result'[1] = "SX_OK" => s_pc' = "idle" /\ job' = 1 /\ Has(c, Last)
    BY <2>1 DEF BurstInv
  <2> QED
    BY <1>1, <2>2, SenderMoves
<1>3. Last' = Last /\ Last \in Nat
  BY BurstStutter, BurstFacts DEF BurstInv
<1>4. \E k \in 1..Last' + 1: At(k)'
  BY <1>2, <1>3
<1>5. idx' \in 1..Last'
  BY <1>3 DEF BurstInv
<1>6. DeliveredSoFar'
  BY DeliveredStutter DEF BurstInv
<1>7. \A r \in Bystanders: pc'[r] = "exited"
  BY DEF BurstInv, loopVars
<1> QED
  BY <1>4, <1>5, <1>6, <1>7 DEF BurstInv

\* While the sender is busy the burst is not reported.
LEMMA BusyFacts ==
  ASSUME HandlerRules, SingleBurst, BurstInv, s_pc # "idle"
  PROVE  /\ job = 1 /\ job > 0 /\ 1 \in DOMAIN result /\ result[1] # "SX_OK"
         /\ Len(p_buf) = Last /\ curr_packet = Pk(idx) /\ curr_packet \in Packets
<1>1. Types /\ job > 0
  BY DEF BurstInv, Types, SenderTypes
<1>2. job = 1 /\ DOMAIN jobs = {1}
  BY <1>1, BurstFacts
<1>3. result[1] # "SX_OK"
  BY DEF BurstInv, At, Sent
<1>4. 1 \in DOMAIN result
  BY <1>1, <1>2 DEF Types, SenderTypes
<1>5. Len(p_buf) = Last /\ curr_packet = Pk(idx) /\ curr_packet \in Packets
  BY <1>1, <1>2, CurrentFacts DEF Last, Pk
<1> QED
  BY <1>1, <1>2, <1>3, <1>4, <1>5

LEMMA StartJobBurst ==
  ASSUME HandlerRules, SingleBurst, BurstInv, StartJob
  PROVE  BurstInv'
<1>1. Types'
  BY SenderStepTypes DEF BurstInv
<1>2. job = 0 /\ idx' = idx /\ job' # 0
  <2>1. job \in {0, 1} /\ Len(jobs) = 1
    BY BurstFacts DEF BurstInv
  <2> QED
    BY <2>1 DEF StartJob, BurstInv
<1>3. result'[1] # "SX_OK"
  BY <1>2 DEF BurstInv, At, Sent, StartJob
<1>4. UNCHANGED <<jobs, loopVars, hostVars, mode, fifo>>
  BY DEF StartJob, radioVars
<1> QED
  BY <1>1, <1>2, <1>3, <1>4, SenderKeeps

\* What the host's radio makes of a packet.
LEMMA SenderBroadcast ==
  ASSUME HandlerRules, SingleBurst, BurstInv, s_pc = "send", Broadcast(Sender, curr_packet)
  PROVE  /\ fifo'[Sender] = Nothing
         /\ \/ fifo'[Host] = fifo[Host]
            \/ mode[Host] \notin {"STDBY", "SLEEP"} /\ fifo'[Host] \in {Corrupt, Pk(idx)}
<1>1. curr_packet = Pk(idx) /\ curr_packet \in Packets /\ RadioTypes
  BY BusyFacts DEF BurstInv, Types
<1>2. /\ fifo'[Sender] = Nothing
      /\ \/ fifo'[Host] = fifo[Host]
         \/ Host \in Listening(Sender) /\ fifo'[Host] \in {curr_packet, Corrupt}
  BY <1>1, BroadcastEffect, Parameters
<1> QED
  BY <1>1, <1>2 DEF Listening

LEMMA AttemptSpent ==
  ASSUME HandlerRules, SingleBurst, BurstInv, Types', s_pc # "idle",
         NextAttempt, SetRadio(Sender, "STDBY"), UNCHANGED <<loopVars, hostVars>>
  PROVE  BurstInv'
<1>1. job = 1 /\ 1 \in DOMAIN result /\ result[1] # "SX_OK"
  BY BusyFacts
<1>2. /\ idx' = idx /\ job' = job /\ jobs' = jobs /\ result'[1] # "SX_OK"
  BY <1>1 DEF NextAttempt, Report, jobVars
<1>3. /\ mode'[Host] = mode[Host] /\ fifo'[Host] = fifo[Host] /\ fifo'[Sender] = Nothing
  BY SetRadioTypes, Parameters DEF BurstInv, Types
<1> QED
  BY <1>1, <1>2, <1>3, SenderKeeps

LEMMA TransmitBurst ==
  ASSUME HandlerRules, SingleBurst, BurstInv, Transmit \/ TransmitFails
  PROVE  BurstInv'
<1>1. Types'
  BY SenderStepTypes DEF BurstInv, SenderStep
<1>2. s_pc = "send" /\ UNCHANGED <<jobs, job, idx, loopVars, hostVars>>
  BY DEF Transmit, TransmitFails, Report, jobVars
<1>3. job = 1 /\ 1 \in DOMAIN result /\ result[1] # "SX_OK"
  BY <1>2, BusyFacts
<1>4. result'[1] # "SX_OK"
  BY <1>3 DEF Transmit, TransmitFails, Report, jobVars
<1>5. mode'[Host] = mode[Host]
  BY Parameters DEF Transmit, TransmitFails, BurstInv, Types, RadioTypes
<1>6. /\ fifo'[Sender] = Nothing
      /\ \/ fifo'[Host] = fifo[Host]
         \/ mode[Host] \notin {"STDBY", "SLEEP"} /\ fifo'[Host] \in {Corrupt, Pk(idx)}
  <2>1. CASE Broadcast(Sender, curr_packet)
    BY <1>2, <2>1, SenderBroadcast
  <2>2. CASE fifo' = [fifo EXCEPT ![Sender] = Nothing]
    BY <2>2, Parameters DEF BurstInv, Types, RadioTypes
  <2> QED
    BY <2>1, <2>2 DEF Transmit, TransmitFails
<1> QED
  BY <1>1, <1>2, <1>3, <1>4, <1>5, <1>6, SenderKeeps

LEMMA ArmBurst ==
  ASSUME HandlerRules, SingleBurst, BurstInv, Arm
  PROVE  BurstInv'
<1>1. Types'
  BY SenderStepTypes DEF BurstInv, SenderStep
<1>2. s_pc = "arm" /\ UNCHANGED <<jobs, job, idx, result, fifo, loopVars, hostVars>>
  BY DEF Arm, jobVars
<1>3. job = 1 /\ result[1] # "SX_OK"
  BY <1>2, BusyFacts
<1>4. mode'[Host] = mode[Host]
  BY Parameters DEF Arm
<1> QED
  BY <1>1, <1>2, <1>3, <1>4, SenderKeeps

\* A reply that fits is the acknowledgement of the packet just sent.
LEMMA ReplyFits ==
  ASSUME HandlerRules, SingleBurst, BurstInv, s_pc = "poll", NEW p,
         read_last_packet(fifo[Sender], p), p \in {fifo[Sender], ZeroPacket},
         p.src_address = curr_packet.dest_address,
         p.sequence_number = curr_packet.sequence_number
  PROVE  Acknowledged(idx)
<1>1. curr_packet = Pk(idx) /\ Types /\ idx \in 1..Last
  BY BusyFacts DEF BurstInv
<1>2. curr_packet.dest_address = Host
  <2>1. idx \in 1..PacketCount(jobs, 1) /\ 1 \in DOMAIN jobs /\ jobs \in Workloads
    BY <1>1, BurstFacts DEF Last
  <2> QED
    BY <1>1, <2>1, PacketFields DEF Pk
<1>3. p # ZeroPacket /\ p = fifo[Sender]
  BY <1>2, ZeroFields, Parameters
<1>4. p \notin {Nothing, Corrupt}
  BY <1>3 DEF read_last_packet
<1>5. p # Acknowledgement(ZeroPacket)
  <2>1. Acknowledgement(ZeroPacket).src_address = 0
    BY ZeroFields DEF Acknowledgement, ack_packet, packet_constructor
  <2> QED
    BY <1>2, <2>1, Parameters
<1>6. ASSUME NEW c \in 1..Last + 1, At(c) PROVE Has(c, idx)
  <2>1. PICK k \in 1..Last: fifo[Sender] = Acknowledgement(Pk(k)) /\ Has(c, k)
    BY <1>3, <1>4, <1>5, <1>6 DEF At, Sent
  <2>2. Pk(k).sequence_number = Pk(idx).sequence_number
    BY <1>1, <1>3, <2>1, PacketIsNoNoise
  <2>3. k = idx
    BY <1>1, <2>2, PacketsDiffer
  <2> QED
    BY <2>1, <2>3
<1> QED
  BY <1>6 DEF Acknowledged

LEMMA ReadReplyBurst ==
  ASSUME HandlerRules, SingleBurst, BurstInv, ReadReply
  PROVE  BurstInv'
<1>1. Types'
  BY SenderStepTypes DEF BurstInv, SenderStep
<1>2. s_pc = "poll" /\ UNCHANGED <<loopVars, hostVars>>
  BY DEF ReadReply
<1>3. /\ job = 1 /\ 1 \in DOMAIN result /\ result[1] # "SX_OK" /\ Len(p_buf) = Last
      /\ idx \in 1..Last /\ Last \in Nat
  BY <1>2, BusyFacts, BurstFacts DEF BurstInv
<1>4. \/ NextAttempt /\ SetRadio(Sender, "STDBY")
      \/ NextPacket /\ SetRadio(Sender, "SLEEP") /\ Acknowledged(idx)
  <2>1. PICK p \in {fifo[Sender], ZeroPacket}:
          /\ read_last_packet(fifo[Sender], p)
          /\ IF check_packet_features(p, curr_packet.dest_address,
                  curr_packet.src_address, curr_packet.ack_id,
                  curr_packet.sequence_number, AckType)
               THEN NextPacket /\ SetRadio(Sender, "SLEEP")
               ELSE NextAttempt /\ SetRadio(Sender, "STDBY")
    BY DEF ReadReply
  <2>2. ASSUME p.src_address = curr_packet.dest_address,
               p.sequence_number = curr_packet.sequence_number
        PROVE  Acknowledged(idx)
    BY <1>2, <2>1, <2>2, ReplyFits
  <2> QED
    BY <2>1, <2>2 DEF check_packet_features
<1>5. CASE NextAttempt /\ SetRadio(Sender, "STDBY")
  BY <1>1, <1>2, <1>5, AttemptSpent
<1>6. CASE NextPacket /\ SetRadio(Sender, "SLEEP") /\ Acknowledged(idx)
  <2>1. /\ mode'[Host] = mode[Host] /\ fifo'[Host] = fifo[Host] /\ fifo'[Sender] = Nothing
    BY <1>6, SetRadioTypes, Parameters DEF BurstInv, Types
  <2>2. CASE idx = Last
    <3>1. /\ UNCHANGED <<jobs, job, idx>> /\ s_pc' = "idle" /\ Acknowledged(Last)
      BY <1>3, <1>6, <2>2 DEF NextPacket, Report
    <3> QED
      BY <1>1, <1>2, <1>3, <2>1, <3>1, SenderKeeps
  <2>3. CASE idx # Last
    <3>1. /\ UNCHANGED <<jobs, job, result>> /\ idx' = idx + 1 /\ idx < Last
      BY <1>3, <1>6, <2>3 DEF NextPacket, jobVars
    <3> QED
      BY <1>1, <1>2, <1>3, <1>6, <2>1, <3>1, SenderKeeps
  <2> QED
    BY <2>2, <2>3
<1> QED
  BY <1>4, <1>5, <1>6

LEMMA PollEndsBurst ==
  ASSUME HandlerRules, SingleBurst, BurstInv, PollTimeout \/ PollFails
  PROVE  BurstInv'
<1>1. Types'
  BY SenderStepTypes DEF BurstInv, SenderStep
<1> QED
  BY <1>1, AttemptSpent DEF PollTimeout, PollFails

-----------------------------------------------------------------------------
(* The host's steps.                                                       *)

\* A failing radio access leaves the host's radio as it is, or does what it
\* should.
LEMMA MayFailEffect ==
  ASSUME RadioTypes, NEW m \in {"RX_CONTINUOUS", "STDBY"}, MayFail(Host, m)
  PROVE  /\ RadioTypes'
         /\ fifo'[Host] \in {fifo[Host], Nothing} /\ fifo'[Sender] = fifo[Sender]
BY Parameters DEF MayFail, RadioTypes, FifoContents

LEMMA HostKeeps ==
  ASSUME HandlerRules, SingleBurst, BurstInv, RadioTypes', LoopTypes',
         NEW l, pc' = [pc EXCEPT ![Host] = l], UNCHANGED <<senderVars, hostVars>>,
         \A c \in 1..Last + 1: At(c) => At(c)'
  PROVE  BurstInv'
<1>1. Types'
  BY SenderTypesStutter, HandlerTypesStutter DEF BurstInv, Types
<1>2. \A r \in Bystanders: pc'[r] = "exited"
  BY DistinctAssumption DEF BurstInv
<1>3. jobs' = jobs /\ idx' = idx /\ job' = job /\ Last' = Last
  BY BurstStutter DEF senderVars, jobVars, sendVars
<1>4. DeliveredSoFar'
  BY <1>3, DeliveredStutter DEF BurstInv
<1>5. \E c \in 1..Last' + 1: At(c)'
  BY <1>3 DEF BurstInv
<1> QED
  BY <1>1, <1>2, <1>3, <1>4, <1>5 DEF BurstInv

LEMMA RxRearmBurst ==
  ASSUME HandlerRules, SingleBurst, BurstInv, RxRearm
  PROVE  BurstInv'
<1>1. /\ pc[Host] = "rearm" /\ pc' = [pc EXCEPT ![Host] = "poll"] /\ rx_p' = rx_p
      /\ UNCHANGED <<senderVars, hostVars>>
  BY DEF RxRearm
<1>2. /\ RadioTypes'
      /\ fifo'[Host] \in {fifo[Host], Nothing} /\ fifo'[Sender] = fifo[Sender]
  BY MayFailEffect DEF RxRearm, BurstInv, Types
<1>3. LoopTypes'
  BY <1>1, LoopTypesStep, Parameters DEF BurstInv, Types, hostVars
<1>4. pc'[Host] = "poll"
  BY <1>1, Parameters DEF BurstInv, Types, LoopTypes
<1>5. ASSUME NEW c \in 1..Last + 1, At(c) PROVE At(c)'
  <2>1. Last' = Last /\ (\A k: Pk(k)' = Pk(k)) /\ idx' = idx
    BY <1>1, BurstStutter DEF senderVars, jobVars, sendVars
  <2>2. Received(c)'
    BY <1>2, <1>4, <1>5, <2>1 DEF At, Received, Recent, Noise, Busy
  <2>3. ~Given(c)
    BY <1>1 DEF Given
  <2> QED
    BY <1>1, <1>2, <1>5, <2>2, <2>3, LoopMoves DEF BurstInv
<1> QED
  BY <1>1, <1>2, <1>3, <1>5, HostKeeps

LEMMA PollErrorBurst ==
  ASSUME HandlerRules, SingleBurst, BurstInv, PollError(Host)
  PROVE  BurstInv'
<1>1. /\ pc[Host] = "poll" /\ pc' = [pc EXCEPT ![Host] = "rearm"]
      /\ UNCHANGED <<rx_p, fifo, mode, senderVars, hostVars>>
  BY DEF PollError, radioVars
<1>2. RadioTypes' /\ LoopTypes'
  BY <1>1, LoopTypesStep, Parameters, RadioTypesStutter DEF BurstInv, Types, hostVars, radioVars
<1>4. pc'[Host] = "rearm"
  BY <1>1, Parameters DEF BurstInv, Types, LoopTypes
<1>5. ASSUME NEW c \in 1..Last + 1, At(c) PROVE At(c)'
  <2>1. Last' = Last /\ (\A k: Pk(k)' = Pk(k)) /\ idx' = idx
    BY <1>1, BurstStutter DEF senderVars, jobVars, sendVars
  <2>2. Received(c)'
    BY <1>1, <1>4, <1>5, <2>1 DEF At, Received, Recent, Noise, Busy
  <2>3. ~Given(c)
    BY <1>1 DEF Given
  <2> QED
    BY <1>1, <1>5, <2>2, <2>3, LoopMoves DEF BurstInv
<1> QED
  BY <1>1, <1>2, <1>5, HostKeeps

LEMMA RxReceiveBurst ==
  ASSUME HandlerRules, SingleBurst, BurstInv, RxReceive
  PROVE  BurstInv'
<1>1. /\ pc[Host] = "poll" /\ pc' = [pc EXCEPT ![Host] = "ack"]
      /\ UNCHANGED <<senderVars, hostVars>>
  BY DEF RxReceive
<1>p. PICK p: /\ p \in {fifo[Host], ZeroPacket} /\ read_last_packet(fifo[Host], p)
              /\ rx_p' = [rx_p EXCEPT ![Host] = p]
  BY DEF RxReceive
<1>2. /\ RadioTypes'
      /\ fifo'[Host] \in {fifo[Host], Nothing} /\ fifo'[Sender] = fifo[Sender]
  BY MayFailEffect DEF RxReceive, BurstInv, Types
<1>3. LoopTypes'
  <2>1. p \in Packets
    BY <1>p, ReadType, Parameters DEF BurstInv, Types, RadioTypes
  <2> QED
    BY <1>1, <1>p, <2>1, LoopTypesStep, Parameters DEF BurstInv, Types, hostVars
<1>4. pc'[Host] = "ack" /\ rx_p'[Host] = p
  BY <1>1, <1>p, Parameters DEF BurstInv, Types, LoopTypes
<1>5. ASSUME NEW c \in 1..Last + 1, At(c) PROVE At(c)'
  <2>1. Last' = Last /\ (\A k: Pk(k)' = Pk(k)) /\ idx' = idx
    BY <1>1, BurstStutter DEF senderVars, jobVars, sendVars
  <2>2. Received(c)'
    <3>1. /\ fifo'[Host] \in Noise \/ (Recent(c, fifo[Host]) /\ fifo'[Host] = fifo[Host])
          /\ p \in Noise \/ (Recent(c, fifo[Host]) /\ p = fifo[Host])
      BY <1>2, <1>5, <1>p DEF At, Received, Noise
    <3>2. ASSUME c <= Last, p = Pk(c) PROVE fifo'[Host] \in Noise \cup {Pk(c)}
      <4>1. c \in 1..Last
        BY <3>2, BurstFacts DEF BurstInv
      <4>2. p # ZeroPacket
        BY <3>2, <4>1, PacketIsNoNoise DEF BurstInv, Noise
      <4> QED
        BY <1>2, <1>p, <3>2, <4>2 DEF Noise
    <3> QED
      BY <1>4, <2>1, <3>1, <3>2 DEF Received, Recent, Noise
  <2>3. ~Given(c)
    BY <1>1 DEF Given
  <2> QED
    BY <1>1, <1>2, <1>5, <2>2, <2>3, LoopMoves DEF BurstInv
<1> QED
  BY <1>1, <1>2, <1>3, <1>5, HostKeeps

\* What the sender's radio makes of the host's acknowledgement.
LEMMA HostBroadcast ==
  ASSUME BurstInv, Broadcast(Host, Acknowledgement(rx_p[Host])),
         NEW m \in {"SLEEP", "STDBY"}, mode' = [mode EXCEPT ![Host] = m]
  PROVE  /\ RadioTypes' /\ mode'[Host] = m
         /\ fifo'[Host] = Nothing
         /\ fifo'[Sender] \in {fifo[Sender], Corrupt, Acknowledgement(rx_p[Host])}
<1>1. RadioTypes /\ Acknowledgement(rx_p[Host]) \in Packets
  BY AcknowledgementType, Parameters DEF BurstInv, Types, LoopTypes
<1>2. /\ fifo' \in [Nodes -> FifoContents] /\ fifo'[Host] = Nothing
      /\ fifo'[Sender] \in {fifo[Sender], Corrupt, Acknowledgement(rx_p[Host])}
  BY <1>1, BroadcastEffect, Parameters
<1>3. RadioTypes' /\ mode'[Host] = m
  BY <1>1, <1>2, Parameters DEF RadioTypes
<1> QED
  BY <1>2, <1>3

LEMMA RxSendAckBurst ==
  ASSUME HandlerRules, SingleBurst, BurstInv, RxSendAck
  PROVE  BurstInv'
<1>1. /\ pc[Host] = "ack" /\ pc' = [pc EXCEPT ![Host] = "handle"] /\ rx_p' = rx_p
      /\ UNCHANGED <<senderVars, hostVars>>
  BY DEF RxSendAck
<1>2. \/ /\ RadioTypes' /\ mode'[Host] \in {"STDBY", "SLEEP"} /\ fifo'[Host] = Nothing
         /\ fifo'[Sender] \in {fifo[Sender], Corrupt, Acknowledgement(rx_p[Host])}
      \/ /\ RadioTypes'
         /\ fifo'[Host] \in {fifo[Host], Nothing} /\ fifo'[Sender] = fifo[Sender]
  <2>1. CASE MayFail(Host, "STDBY")
    BY <2>1, MayFailEffect DEF BurstInv, Types
  <2>2. CASE ~MayFail(Host, "STDBY")
    <3>1. PICK m \in {"SLEEP", "STDBY"}:
            mode' = [mode EXCEPT ![Host] = m] /\ Broadcast(Host, Acknowledgement(rx_p[Host]))
      BY <2>2 DEF RxSendAck
    <3> QED
      BY <3>1, HostBroadcast
  <2> QED
    BY <2>1, <2>2
<1>3. LoopTypes'
  BY <1>1, LoopTypesStep, Parameters DEF BurstInv, Types, hostVars
<1>4. pc'[Host] = "handle" /\ rx_p'[Host] = rx_p[Host]
  BY <1>1, Parameters DEF BurstInv, Types, LoopTypes
<1>5. ASSUME NEW c \in 1..Last + 1, At(c) PROVE At(c)'
  <2>1. Last' = Last /\ (\A k: Pk(k)' = Pk(k)) /\ idx' = idx
    BY <1>1, BurstStutter DEF senderVars, jobVars, sendVars
  <2>2. Received(c)'
    BY <1>1, <1>2, <1>4, <1>5, <2>1 DEF At, Received, Recent, Noise, Busy
  <2>3. ~Given(c)
    BY <1>1 DEF Given
  <2>4. \/ fifo'[Sender] \in {fifo[Sender], Corrupt, Acknowledgement(ZeroPacket)}
        \/ \E k \in 1..Last: fifo'[Sender] = Acknowledgement(Pk(k)) /\ Has(c, k)'
    <3> SUFFICES ASSUME fifo'[Sender] = Acknowledgement(rx_p[Host]),
                        rx_p[Host] # ZeroPacket, fifo'[Sender] # fifo[Sender]
                 PROVE  \E k \in 1..Last: fifo'[Sender] = Acknowledgement(Pk(k)) /\ Has(c, k)'
      BY <1>2
    <3>1. rx_p[Host] \notin Noise
      BY FifoAssumption, Parameters DEF Noise, BurstInv, Types, LoopTypes
    <3>2. PICK k \in 1..Last: rx_p[Host] = Pk(k) /\ k \in {c - 1, c}
      BY <1>1, <1>5, <3>1 DEF At, Received, Recent, Busy
    <3>3. Has(c, k)'
      <4>1. k \in Nat /\ c \in Nat /\ Last \in Nat
        BY BurstFacts DEF BurstInv
      <4>2. CASE k = c - 1
        BY <4>1, <4>2 DEF Has
      <4>3. CASE k = c
        <5>1. fifo'[Host] = Nothing /\ mode'[Host] \in {"STDBY", "SLEEP"}
          BY <1>2
        <5> QED
          BY <1>4, <2>1, <3>2, <4>1, <4>3, <5>1 DEF Has, Given
      <4> QED
        BY <3>2, <4>2, <4>3
    <3> QED
      BY <3>2, <3>3
  <2> QED
    BY <1>1, <1>5, <2>2, <2>3, <2>4, LoopMoves DEF BurstInv
<1> QED
  BY <1>1, <1>2, <1>3, <1>5, HostKeeps

-----------------------------------------------------------------------------
(* The handler, as the example calls it.                                   *)

\* What the host has in its hands, where it waits for packet c: noise, a
\* repetition, or the packet.
LEMMA InHandCases ==
  ASSUME HandlerRules, SingleBurst, BurstInv, NEW c \in 1..Last + 1, At(c),
         pc[Host] = "handle"
  PROVE  \/ ~Handler!ForUs(rx_p[Host]) \/ Handler!Redundant(rx_p[Host])
         \/ c \in 1..Last /\ rx_p[Host] = Pk(c) /\ c <= idx
<1>1. /\ jobs \in Workloads /\ 1 \in DOMAIN jobs /\ Last \in Nat /\ c \in Nat
      /\ HandlerTypes /\ Types
  BY BurstFacts DEF BurstInv, Types
<1>2. CASE rx_p[Host] = ZeroPacket
  <2>1. 1 \in 1..PacketCount(jobs, 1)
    BY <1>1, JobTypes
  <2> QED
    BY <1>1, <1>2, <2>1, ForHost
<1>3. CASE rx_p[Host] # ZeroPacket
  <2>1. rx_p[Host] \notin Noise
    BY <1>3, FifoAssumption, Parameters DEF Noise, BurstInv, Types, LoopTypes
  <2>2. PICK k \in 1..Last: rx_p[Host] = Pk(k) /\ k \in {c - 1, c} /\ k <= idx
    BY <2>1 DEF At, Received, Recent, Busy
  <2>3. CASE k = c
    BY <2>2, <2>3
  <2>4. CASE k = c - 1
    <3>1. Handler!Redundant(PacketOf(jobs, 1, c - 1))
      BY <1>1, <2>4 DEF At, Ready, After
    <3> QED
      BY <2>2, <2>4, <3>1 DEF Pk
  <2> QED
    BY <2>2, <2>3, <2>4
<1> QED
  BY <1>2, <1>3

\* What the host is about to hand over.
LEMMA InHandOf ==
  ASSUME HandlerRules, SingleBurst, BurstInv, NEW c \in 1..Last + 1, At(c)
  PROVE  \/ InHand = <<>>
         \/ c = Last /\ InHand = <<UpcallOf(jobs, 1)>> /\ Len(delivered) = 0
<1>1. CASE \/ pc[Host] # "handle"
           \/ ~Handler!ForUs(rx_p[Host]) \/ Handler!Redundant(rx_p[Host])
  BY <1>1, NothingInHand
<1>2. CASE pc[Host] = "handle" /\ c \in 1..Last /\ rx_p[Host] = Pk(c)
  <2>1. 1 \in DOMAIN jobs /\ Types /\ Last \in Nat /\ c \in 1..PacketCount(jobs, 1)
    BY <1>2, BurstFacts DEF BurstInv, Last
  <2>2. Ready(1, c) /\ rx_p[Host] = PacketOf(jobs, 1, c)
    BY <1>2 DEF At, Pk
  <2>3. InHand = IF c = PacketCount(jobs, 1) THEN <<UpcallOf(jobs, 1)>> ELSE <<>>
    BY <1>2, <2>1, <2>2, InHandNext
  <2>4. Len(delivered) = 1 - 1
    BY <2>1, <2>2, ReadyForNext
  <2> QED
    BY <2>3, <2>4 DEF Last
<1> QED
  BY <1>1, <1>2, InHandCases

\* The null command call-back is not called.
LEMMA RxHandleHandles ==
  ASSUME HandlerRules, SingleBurst, BurstInv, RxHandle
  PROVE  /\ Handling
         /\ \E l \in {"rearm", "exited"}: pc' = [pc EXCEPT ![Host] = l]
<1>1. /\ pc[Host] = "handle" /\ Handler!rx_packet_handler(rx_p[Host])
      /\ delivered' = IF upcall'.kind = "end" THEN Append(delivered, upcall') ELSE delivered
      /\ pc' = [pc EXCEPT ![Host] =
                  CASE upcall'.kind = "command" -> "panic"
                    [] ret' = "CAPTURE_END" -> "exited"
                    [] OTHER -> "rearm"]
      /\ UNCHANGED <<rx_p, senderVars>>
  BY DEF RxHandle
<1>2. PICK c \in 1..Last + 1: At(c)
  BY DEF BurstInv
<1>3. UpcallOf(jobs, 1).kind = "end"
  BY BurstFacts, UpcallOfType DEF BurstInv
<1>4. upcall'.kind \in {"none", "end"}
  <2>1. \/ InHand = <<>> /\ upcall' = Handler!NoUpcall
        \/ InHand = <<upcall'>>
    BY <1>1, UpcallAnnounced
  <2>2. InHand = <<>> \/ InHand = <<UpcallOf(jobs, 1)>>
    BY <1>2, InHandOf
  <2>3. Handler!NoUpcall.kind = "none"
    BY DEF Handler!NoUpcall
  <2> HIDE DEF InHand
  <2>4. CASE InHand = <<>> /\ upcall' = Handler!NoUpcall
    BY <2>3, <2>4
  <2>5. CASE InHand = <<upcall'>>
    <3>1. upcall' = UpcallOf(jobs, 1)
      BY <2>2, <2>5
    <3> QED
      BY <1>3, <3>1
  <2> QED
    BY <2>1, <2>4, <2>5
<1>5. \E l \in {"rearm", "exited"}: pc' = [pc EXCEPT ![Host] = l]
  BY <1>1, <1>4
<1>6. pc'[Host] # "handle"
  BY <1>5, Parameters DEF BurstInv, Types, LoopTypes
<1> QED
  BY <1>1, <1>4, <1>5, <1>6 DEF Handling

LEMMA RxHandleBurst ==
  ASSUME HandlerRules, SingleBurst, BurstInv, RxHandle
  PROVE  BurstInv'
<1>1. /\ Handling /\ pc[Host] = "handle" /\ Handler!rx_packet_handler(rx_p[Host])
      /\ UNCHANGED <<restarts, rx_p, senderVars, radioVars>>
  BY RxHandleHandles DEF RxHandle
<1>2. PICK l \in {"rearm", "exited"}: pc' = [pc EXCEPT ![Host] = l]
  BY RxHandleHandles
<1>3. /\ UNCHANGED <<jobs, job, idx, s_pc, result, fifo, mode>>
      /\ Last' = Last /\ (\A k: Pk(k)' = Pk(k))
  BY <1>1, BurstStutter DEF senderVars, jobVars, sendVars, radioVars
<1>4. pc'[Host] = l
  BY <1>2, Parameters DEF BurstInv, Types, LoopTypes
<1>5. PICK c \in 1..Last + 1: At(c)
  BY DEF BurstInv
<1>6. delivered' = delivered \o InHand
  BY <1>1, HandlerDelivers DEF BurstInv
<1>n. /\ 1 \in DOMAIN jobs /\ Last \in Nat /\ c \in Nat /\ c > 0 /\ jobs \in Workloads
  BY BurstFacts DEF BurstInv
<1>7. DeliveredSoFar'
  <2>1. \/ InHand = <<>>
        \/ InHand = <<UpcallOf(jobs, 1)>> /\ Len(delivered) = 1 - 1
    BY <1>5, InHandOf
  <2> QED
    BY <1>3, <1>6, <1>n, <2>1, DeliveredGrows DEF BurstInv
<1>8. Types'
  <2>1. SenderTypes' /\ RadioTypes' /\ LoopTypes'
    BY <1>1, <1>2, SenderTypesStutter, RadioTypesStutter, LoopTypesStep, Parameters
       DEF BurstInv, Types
  <2>2. /\ Handler!TypeOK' /\ configured' = TRUE /\ remote_src_addr' = Sender
        /\ \A i \in 0..captured_n' - 1: captured_packet_arr'[i] \in Packets
    BY <1>1, HandlerStepTypes, Parameters DEF BurstInv, Types, LoopTypes
  <2>3. delivered' \in Seq(UpcallRecords)
    <3>1. delivered \in Seq(UpcallRecords)
      BY DEF BurstInv, Types, HandlerTypes
    <3>2. UpcallOf(jobs, 1) \in UpcallRecords
      BY <1>n, UpcallOfType
    <3>3. InHand \in Seq(UpcallRecords)
      <4>1. InHand = <<>> \/ InHand = <<UpcallOf(jobs, 1)>>
        BY <1>5, InHandOf
      <4>2. <<>> \in Seq(UpcallRecords) /\ <<UpcallOf(jobs, 1)>> \in Seq(UpcallRecords)
        BY <3>2
      <4> QED
        BY <4>1, <4>2
    <3> QED
      BY <1>6, <3>1, <3>3, ConcatProperties
  <2> QED
    BY <2>1, <2>2, <2>3 DEF Types, HandlerTypes
<1>9. ASSUME \/ ~Handler!ForUs(rx_p[Host])
             \/ Handler!Redundant(rx_p[Host])
      PROVE  At(c)'
  <2>1. UNCHANGED Handler!ctx /\ delivered' = delivered
    <3>1. UNCHANGED Handler!ctx /\ InHand = <<>>
      BY <1>1, <1>9, HandlerIgnores, NothingInHand
    <3> QED
      BY <1>6, <3>1, ConcatEmptySeq DEF BurstInv, Types, HandlerTypes
  <2>2. Ready(1, c)'
    BY <1>3, <1>5, <2>1, PlaceStutter DEF At
  <2>3. ~Given(c)
    <3> SUFFICES ASSUME Given(c) PROVE FALSE
      OBVIOUS
    <3>1. c \in 1..PacketCount(jobs, 1) /\ rx_p[Host] = PacketOf(jobs, 1, c)
      BY <1>n DEF Given, Last, Pk
    <3>2. Handler!ForUs(rx_p[Host])
      BY <1>n, <3>1, ForHost DEF BurstInv, Types
    <3>3. ~Handler!Redundant(rx_p[Host])
      BY <1>5, <1>n, <3>1, ReadyForNext DEF At, BurstInv
    <3> QED
      BY <1>9, <3>2, <3>3
  <2>4. Received(c)'
    BY <1>3, <1>4, <1>5 DEF At, Received, Recent, Noise, Busy
  <2>5. Sent(c)'
    <3>1. \A k: Has(c, k) => Has(c, k)'
      BY <2>3 DEF Has
    <3> QED
      BY <1>3, <1>5, <3>1 DEF At, Sent
  <2> QED
    BY <2>2, <2>4, <2>5 DEF At
<1>10. ASSUME c \in 1..Last, rx_p[Host] = Pk(c), c <= idx
       PROVE  At(c + 1)'
  <2>1. After(1, c)'
    <3>1. c \in 1..PacketCount(jobs, 1) /\ rx_p[Host] = PacketOf(jobs, 1, c)
      BY <1>10 DEF Last, Pk
    <3> QED
      BY <1>1, <1>5, <1>n, <3>1, HostTakes DEF At, BurstInv
  <2>2. c + 1 # 1 /\ (c + 1) - 1 = c /\ c + 1 <= Last + 1
    BY <1>n, <1>10
  <2>3. Ready(1, c + 1)'
    BY <2>1, <2>2 DEF Ready
  <2>4. Received(c + 1)'
    <3>1. fifo[Host] \in Noise \cup {Pk(c)}
      BY <1>1, <1>5, <1>n, <1>10 DEF At, Received, Busy
    <3> QED
      BY <1>3, <1>4, <1>10, <2>2, <3>1 DEF Received, Recent, Noise, Busy
  <2>5. Sent(c + 1)'
    <3>1. \A k \in Nat: Has(c, k) => Has(c + 1, k)'
      BY <1>n DEF Has
    <3>2. idx \in Nat
      BY <1>n DEF BurstInv
    <3> QED
      BY <1>3, <1>5, <1>n, <1>10, <2>2, <3>1, <3>2 DEF At, Sent
  <2> QED
    BY <2>3, <2>4, <2>5 DEF At
<1>11. \E k \in 1..Last' + 1: At(k)'
  <2>1. \/ ~Handler!ForUs(rx_p[Host]) \/ Handler!Redundant(rx_p[Host])
        \/ c \in 1..Last /\ rx_p[Host] = Pk(c) /\ c <= idx
    BY <1>1, <1>5, InHandCases
  <2>2. c \in 1..Last => c + 1 \in 1..Last' + 1
    BY <1>3, <1>n
  <2> QED
    BY <1>3, <1>9, <1>10, <2>1, <2>2
<1>12. \A r \in Bystanders: pc'[r] = "exited"
  BY <1>2, DistinctAssumption DEF BurstInv
<1> QED
  BY <1>3, <1>7, <1>8, <1>11, <1>12 DEF BurstInv

-----------------------------------------------------------------------------
(* The invariant, and what follows from it.                                *)

LEMMA NextBurst ==
  ASSUME HandlerRules, SingleBurst, IInv, [BurstNext]_vars
  PROVE  IInv'
<1> SUFFICES ASSUME Undisturbed' PROVE BurstInv'
  BY DEF IInv
<1>1. CASE UNCHANGED vars
  <2>1. BurstInv
    BY <1>1 DEF IInv, Undisturbed, vars, senderVars, jobVars
  <2>2. /\ UNCHANGED <<jobs, job, idx, s_pc, result, fifo, mode, pc, rx_p, delivered>>
        /\ UNCHANGED <<senderVars, radioVars, loopVars, hostVars>>
    BY <1>1 DEF vars, senderVars, jobVars, sendVars, radioVars, loopVars, hostVars
  <2>3. Types'
    BY <2>1, <2>2, SenderTypesStutter, RadioTypesStutter, LoopTypesStutter,
       HandlerTypesStutter DEF BurstInv, Types, hostVars
  <2>4. DeliveredSoFar'
    BY <2>1, <2>2, DeliveredStutter DEF BurstInv
  <2>5. Last' = Last /\ (\A k: Pk(k)' = Pk(k))
    BY <2>2, BurstStutter
  <2>6. \A c: At(c) => At(c)'
    <3>1. UNCHANGED <<jobs, delivered, Handler!ctx>>
      BY <2>2 DEF hostVars, handlerVars, Handler!ctx, Handler!captureVars, Handler!dedupVars
    <3>2. \A c: Ready(1, c)' <=> Ready(1, c)
      BY <3>1, PlaceStutter
    <3>3. \A c, k: Has(c, k)' <=> Has(c, k)
      BY <2>2, <2>5 DEF Has, Given
    <3>4. \A c: Received(c) => Received(c)'
      BY <2>2, <2>5 DEF Received, Recent, Noise, Busy
    <3>5. \A c: Sent(c) => Sent(c)'
      BY <2>2, <2>5, <3>3 DEF Sent
    <3> QED
      BY <3>2, <3>4, <3>5 DEF At
  <2> QED
    BY <2>1, <2>2, <2>3, <2>4, <2>5, <2>6 DEF BurstInv
<1>2. CASE BurstNext
  <2>1. faults' = faults
    BY <1>2
       DEF BurstNext, StartJob, SenderStep, Transmit, Arm, ReadReply, PollTimeout, NextPacket,
           NextAttempt, Report, TransmitFails, PollFails, RxTask, RxRearm, RxReceive,
           RxSendAck, RxHandle, PollError, LoopStep, Rearm, Receive, SendAck, HandlePacket,
           BystanderHandles, senderVars, jobVars
  <2>2. BurstInv
    BY <2>1 DEF IInv, Undisturbed
  <2>3. ~(\E r \in Bystanders: LoopStep(r))
    BY <2>2, DistinctAssumption
       DEF BurstInv, LoopStep, Rearm, Receive, SendAck, BystanderHandles
  <2> QED
    BY <1>2, <2>2, <2>3, StartJobBurst, TransmitBurst, ArmBurst, ReadReplyBurst,
       PollEndsBurst, RxRearmBurst, RxReceiveBurst, RxSendAckBurst, RxHandleBurst,
       PollErrorBurst
       DEF BurstNext, SenderStep, RxTask
<1> QED
  BY <1>1, <1>2

LEMMA BurstInvariant ==
  ASSUME HandlerRules, SingleBurst
  PROVE  BurstSpec => []IInv
<1>1. Init => IInv
  BY InitBurst
<1>2. IInv /\ [BurstNext]_vars => IInv'
  BY NextBurst
<1> QED
  BY <1>1, <1>2, PTL DEF BurstSpec

\* The receiver of the burst example never calls its null command call-back
\* (rx_packet_handler's default case): it sees BEGIN before the sender goes on to
\* data, and it is gone before any data could follow END, whatever is lost, late
\* or failing.
THEOREM NullNeverCalledCorrect ==
  ASSUME HandlerRules, SingleBurst
  PROVE  BurstSpec => []NullNeverCalled
<1>1. IInv => NullNeverCalled
  BY Parameters DEF IInv, BurstInv, Types, LoopTypes, NullNeverCalled
<1> QED
  BY <1>1, BurstInvariant, PTL

\* send_burst reports SX_OK in the burst example only when rx_task has the whole
\* burst, or has its last packet in its hands and will take it.
THEOREM SentIsHandedCorrect ==
  ASSUME HandlerRules, SingleBurst
  PROVE  BurstSpec => []SentIsHanded
<1>1. IInv => SentIsHanded
  <2> SUFFICES ASSUME BurstInv, result[1] = "SX_OK"
               PROVE  Handed = << [i \in 1..jobs[1].n |-> <<1, i>>] >>
    BY DEF IInv, SentIsHanded
  <2>1. PICK c \in 1..Last + 1: At(c)
    BY DEF BurstInv
  <2>2. /\ 1 \in DOMAIN jobs /\ DOMAIN jobs = {1} /\ Last \in Nat /\ c \in Nat
        /\ jobs \in Workloads /\ Types /\ delivered \in Seq(UpcallRecords)
    BY BurstFacts DEF BurstInv, Types, HandlerTypes
  <2>3. Upcalls = <<UpcallOf(jobs, 1)>>
    <3>1. c = Last + 1 \/ (c = Last /\ Given(c))
      BY <2>1, <2>2 DEF At, Sent, Has
    <3>2. CASE c = Last + 1
      <4>1. Len(delivered) = 1 /\ InHand = <<>>
        <5>1. c # 1 /\ c - 1 = PacketCount(jobs, 1)
          BY <2>2, <3>2, BurstFacts DEF Last, BurstInv
        <5>2. Len(delivered) = 1
          BY <2>1, <5>1 DEF At, Ready, After
        <5> QED
          BY <2>1, <2>2, <3>2, <5>2, InHandOf
      <4>2. delivered[1] = UpcallOf(jobs, 1)
        BY <4>1 DEF BurstInv, DeliveredSoFar
      <4>3. delivered = <<UpcallOf(jobs, 1)>>
        BY <2>2, <4>1, <4>2
      <4> QED
        BY <2>2, <4>1, <4>3, ConcatEmptySeq DEF Upcalls
    <3>3. CASE c = Last /\ Given(c)
      <4>1. c \in 1..PacketCount(jobs, 1) /\ rx_p[Host] = PacketOf(jobs, 1, c)
            /\ pc[Host] = "handle" /\ Ready(1, c)
        BY <2>1, <2>2, <3>3 DEF Given, Last, Pk, At
      <4>2. InHand = <<UpcallOf(jobs, 1)>> /\ Len(delivered) = 0
        <5>1. InHand = IF c = PacketCount(jobs, 1) THEN <<UpcallOf(jobs, 1)>> ELSE <<>>
          BY <2>2, <4>1, InHandNext
        <5>2. Len(delivered) = 1 - 1
          BY <2>2, <4>1, ReadyForNext
        <5> QED
          BY <3>3, <5>1, <5>2 DEF Last
      <4>3. delivered = <<>>
        BY <2>2, <4>2
      <4>4. InHand \in Seq(UpcallRecords)
        BY <2>2, <4>2, UpcallOfType
      <4> QED
        BY <4>2, <4>3, <4>4, ConcatEmptySeq DEF Upcalls
    <3> QED
      BY <3>1, <3>2, <3>3
  <2>4. Contents(UpcallOf(jobs, 1)) = [i \in 1..jobs[1].n |-> <<1, i>>]
    BY <2>2, UpcallOfType
  <2>5. Handed = <<Contents(UpcallOf(jobs, 1))>>
    <3>1. DOMAIN Upcalls = 1..1 /\ Upcalls[1] = UpcallOf(jobs, 1)
      BY <2>3
    <3>2. Handed = [k \in 1..1 |-> Contents(Upcalls[k])]
      BY <3>1 DEF Handed
    <3> HIDE DEF Upcalls
    <3>3. \A k \in 1..1: Contents(Upcalls[k]) = Contents(UpcallOf(jobs, 1))
      BY <3>1
    <3> QED
      BY <3>2, <3>3
  <2> QED
    BY <2>4, <2>5
<1> QED
  BY <1>1, BurstInvariant, PTL
=============================================================================
