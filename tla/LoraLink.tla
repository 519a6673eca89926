------------------------------ MODULE LoraLink ------------------------------
(***************************************************************************)
(* A link over the air: one node runs send_burst / send_packet_ensure_ack  *)
(* (src/sx127x_utils.c) for a list of transfers, the host node runs        *)
(* start_rx_loop (src/sx127x_rx_utils.c) and the packet handler, and       *)
(* bystander nodes run the same loop for addresses of their own.           *)
(*                                                                         *)
(* A radio is half-duplex: a frame is heard only by the radios listening   *)
(* when it is sent.  Every node's work between two frames is a step of its *)
(* own, so a frame can be missed because its receiver has not re-armed.    *)
(* What may go wrong is a member of faults, one of FaultSets:              *)
(*   lost     a listening radio misses a frame                             *)
(*   corrupt  a listening radio receives it with a payload CRC error       *)
(*   early    the sender's poll may time out while an answer is on its way *)
(*   spi      any radio access may fail                                    *)
(*   restart  the host may restart, at most MaxRestarts times              *)
(*   neighbour  the bystanders are there                                   *)
(***************************************************************************)
EXTENDS Packet, Sequences

CONSTANTS
  Sender, Host, Bystanders,   \* the nodes, named by their addresses
  Workloads,                  \* sequences of transfers [framed, ack_id, n]
  timeout_n,                  \* attempts per packet (ceil(12000 / 3000) = 4)
  StopOnFailure,              \* the application gives up after a failed burst
  FaultSets, MaxRestarts,
  Nothing, Corrupt,           \* contents of a radio's FIFO besides a packet
  NULL

ASSUME NodeAssumption == {Sender, Host} \cup Bystanders \subseteq Addrs \ {0}
ASSUME DistinctAssumption == Sender # Host /\ {Sender, Host} \cap Bystanders = {}
ASSUME AttemptAssumption == timeout_n \in Nat \ {0}
ASSUME FaultsAssumption ==
  /\ FaultSets \subseteq SUBSET {"lost", "corrupt", "early", "spi", "restart", "neighbour"}
  /\ MaxRestarts \in Nat
ASSUME FifoAssumption == Nothing # Corrupt /\ {Nothing, Corrupt} \cap Packets = {}

\* A transfer has a fragment at least, and fragment i of transfer j is <<j, i>>.
ASSUME WorkloadAssumption ==
  \A w \in Workloads:
    /\ w \in Seq([framed: BOOLEAN, ack_id: AckIds, n: Nat \ {0}])
    /\ \A j \in DOMAIN w: \A i \in 1..w[j].n: <<j, i>> \in Payloads

VARIABLES
  faults,                                   \* what may go wrong in this run
  jobs, job, idx, attempt, s_pc, result,    \* the sender
  mode, fifo,                               \* the radios
  pc, rx_p,                                 \* the receive loops
  delivered, restarts,                      \* the host's application
  configured, remote_src_addr, capture, capture_ack_id, captured_packet_arr,
  captured_n, last_received_ack_id, last_received_seq_number, ret, upcall

Handler == INSTANCE RxPacketHandler
  WITH host_addr <- Host, Remotes <- {Sender}, Arrivals <- Packets

jobVars == <<faults, jobs, job, result>>
sendVars == <<idx, attempt, s_pc>>
senderVars == <<jobVars, sendVars>>
radioVars == <<mode, fifo>>
loopVars == <<pc, rx_p>>
handlerVars ==
  <<configured, remote_src_addr, capture, capture_ack_id, captured_packet_arr,
    captured_n, last_received_ack_id, last_received_seq_number, ret, upcall>>
hostVars == <<delivered, restarts, handlerVars>>
vars == <<senderVars, radioVars, loopVars, hostVars>>

Receivers == {Host} \cup Bystanders
Nodes == {Sender} \cup Receivers

-----------------------------------------------------------------------------
(* Fragmentation: the packets of transfer j, with BEGIN and END around the *)
(* data when it is framed.  The sequence number is kept in eight bits.     *)

data_to_packet_array(j) ==
  LET t == jobs[j]
      seq_offset == IF t.framed THEN 1 ELSE 0
      data == [i \in 1..t.n |->
                 packet_constructor(Host, Sender, t.ack_id,
                   (seq_offset + i - 1) % (UINT8_MAX + 1), <<j, i>>)]
  IN IF t.framed
       THEN <<ack_packet(Host, Sender, t.ack_id, 0)>> \o data
              \o <<ack_packet(Host, Sender, t.ack_id, UINT8_MAX)>>
       ELSE data

p_buf == data_to_packet_array(job)
curr_packet == p_buf[idx]

\* (Mutant of AckType: END expected one packet early.)
AckTypeOffByOne ==
  CASE idx = 1 -> "PACKET_BEGIN"
    [] idx # 1 /\ idx = Len(p_buf) - 1 -> "PACKET_END"
    [] OTHER -> "PACKET_ACK"

\* The packet type send_burst asks the acknowledgement to have.
AckType ==
  CASE idx = 1 -> "PACKET_BEGIN"
    [] idx # 1 /\ idx = Len(p_buf) -> "PACKET_END"
    [] OTHER -> "PACKET_ACK"

-----------------------------------------------------------------------------
(* The air.                                                                *)

\* A radio in single mode stops listening once it has a frame; one in
\* continuous mode goes on and lets the next frame replace it.
Listening(n) ==
  {m \in Nodes \ {n}: \/ mode[m] = "RX_CONTINUOUS"
                      \/ mode[m] = "RX_SINGLE" /\ fifo[m] = Nothing}

\* Node n puts frame f on the air, its own flags cleared.
Broadcast(n, f) ==
  \E reception \in [Listening(n) -> {"heard"} \cup (faults \cap {"lost", "corrupt"})]:
    fifo' = [m \in Nodes |->
               CASE m = n -> Nothing
                 [] m \in Listening(n) /\ reception[m] = "heard" -> f
                 [] m \in Listening(n) /\ reception[m] = "corrupt" -> Corrupt
                 [] OTHER -> fifo[m]]

\* read_last_packet reports success whatever happened below it: a CRC error or
\* a failed access leaves the zeroed buffer, which parses to the zero packet.
read_last_packet(f, p) ==
  \/ p = IF f \in {Nothing, Corrupt} THEN ZeroPacket ELSE f
  \/ "spi" \in faults /\ p = ZeroPacket

SetRadio(n, m) ==
  /\ mode' = [mode EXCEPT ![n] = m]
  /\ fifo' = [fifo EXCEPT ![n] = Nothing]

-----------------------------------------------------------------------------
(* The sender: send_burst around send_packet_ensure_ack.                   *)

\* The application submits its next transfer.
StartJob ==
  /\ s_pc = "idle"
  /\ job < Len(jobs)
  /\ StopOnFailure => \A j \in 1..job: result[j] = "SX_OK"
  /\ job' = job + 1
  /\ idx' = 1
  /\ attempt' = 1
  /\ s_pc' = "send"
  /\ UNCHANGED <<faults, jobs, result, radioVars, loopVars, hostVars>>

Report(code) ==
  /\ result' = [result EXCEPT ![job] = code]
  /\ s_pc' = "idle"
  /\ UNCHANGED <<faults, jobs, job, idx, attempt>>

\* The packet is acknowledged: on to the next, or the burst is done.
NextPacket ==
  IF idx = Len(p_buf)
    THEN Report("SX_OK")
    ELSE /\ idx' = idx + 1
         /\ attempt' = 1
         /\ s_pc' = "send"
         /\ UNCHANGED jobVars

\* (Mutant of Exhausted: one attempt too many.)
OneAttemptMore == attempt > timeout_n

Exhausted == attempt = timeout_n

\* (Mutant of NextAttempt: the burst goes on after a packet that is given up.)
SkipOnTimeout ==
  IF Exhausted
    THEN NextPacket
    ELSE attempt' = attempt + 1 /\ s_pc' = "send" /\ UNCHANGED <<jobVars, idx>>

\* (Mutant of NextAttempt: attempts are not counted.)
RetryForever == s_pc' = "send" /\ UNCHANGED <<jobVars, idx, attempt>>

NextAttempt ==
  IF Exhausted
    THEN Report("SX_TIMEOUT")
    ELSE /\ attempt' = attempt + 1
         /\ s_pc' = "send"
         /\ UNCHANGED <<jobVars, idx>>

\* sx_1278_send_packet(p, 1): the radio is left receiving.
Transmit ==
  /\ s_pc = "send"
  /\ Broadcast(Sender, curr_packet)
  /\ mode' = [mode EXCEPT ![Sender] = "RX_CONTINUOUS"]
  /\ s_pc' = "arm"
  /\ UNCHANGED <<jobVars, idx, attempt, loopVars, hostVars>>

\* A failed send ends the burst, whether or not the frame went out.
TransmitFails ==
  /\ "spi" \in faults
  /\ s_pc = "send"
  /\ Broadcast(Sender, curr_packet) \/ fifo' = [fifo EXCEPT ![Sender] = Nothing]
  /\ mode' = [mode EXCEPT ![Sender] = "SLEEP"]
  /\ Report("SX_ERROR")
  /\ UNCHANGED <<loopVars, hostVars>>

\* sx1278_poll_and_read_packet switches to single reception; a frame that is
\* already there stays.
Arm ==
  /\ s_pc = "arm"
  /\ mode' = [mode EXCEPT ![Sender] = "RX_SINGLE"]
  /\ s_pc' = "poll"
  /\ UNCHANGED <<jobVars, idx, attempt, fifo, loopVars, hostVars>>

\* RxDone: the answer is read and compared with what was sent.
ReadReply ==
  /\ s_pc = "poll"
  /\ fifo[Sender] # Nothing
  /\ \E p \in {fifo[Sender], ZeroPacket}:
       /\ read_last_packet(fifo[Sender], p)
       /\ IF check_packet_features(p, curr_packet.dest_address,
               curr_packet.src_address, curr_packet.ack_id,
               curr_packet.sequence_number, AckType)
            THEN NextPacket /\ SetRadio(Sender, "SLEEP")
            ELSE NextAttempt /\ SetRadio(Sender, "STDBY")
  /\ UNCHANGED <<loopVars, hostVars>>

\* No node has anything left to do with the last frame.
AirQuiet ==
  /\ fifo[Sender] = Nothing
  /\ \A r \in Receivers:
       /\ pc[r] \notin {"rearm", "ack", "handle"}
       /\ pc[r] = "poll" => fifo[r] = Nothing

\* The poll gives up; its flags are cleared, a frame that came in between the
\* last look at them and the look at the clock included.
PollTimeout ==
  /\ s_pc = "poll"
  /\ "early" \in faults \/ AirQuiet
  /\ NextAttempt
  /\ SetRadio(Sender, "STDBY")
  /\ UNCHANGED <<loopVars, hostVars>>

\* A failed access while arming or polling is one attempt spent.
PollFails ==
  /\ "spi" \in faults
  /\ s_pc \in {"arm", "poll"}
  /\ NextAttempt
  /\ SetRadio(Sender, "STDBY")
  /\ UNCHANGED <<loopVars, hostVars>>

SenderStep ==
  \/ Transmit
  \/ Arm
  \/ ReadReply
  \/ PollTimeout

-----------------------------------------------------------------------------
(* start_rx_loop on node r.                                                *)

\* The loop's head: flags cleared, radio in continuous reception.
Rearm(r) ==
  /\ pc[r] = "rearm"
  /\ SetRadio(r, "RX_CONTINUOUS")
  /\ pc' = [pc EXCEPT ![r] = "poll"]
  /\ UNCHANGED <<rx_p, senderVars, hostVars>>

Receive(r) ==
  /\ pc[r] = "poll"
  /\ fifo[r] # Nothing
  /\ \E p \in {fifo[r], ZeroPacket}:
       /\ read_last_packet(fifo[r], p)
       /\ rx_p' = [rx_p EXCEPT ![r] = p]
  /\ SetRadio(r, "STDBY")
  /\ pc' = [pc EXCEPT ![r] = "ack"]
  /\ UNCHANGED <<senderVars, hostVars>>

\* Whatever was read is acknowledged before the handler sees it, in the name of
\* the node it was addressed to.
Acknowledgement(p) ==
  ack_packet(p.src_address, p.dest_address, p.ack_id, p.sequence_number)

SendAck(r) ==
  /\ pc[r] = "ack"
  /\ Broadcast(r, Acknowledgement(rx_p[r]))
  /\ mode' = [mode EXCEPT ![r] = "SLEEP"]
  /\ pc' = [pc EXCEPT ![r] = "handle"]
  /\ UNCHANGED <<rx_p, senderVars, hostVars>>

\* The host's handler; its call-backs are the application's.
HandlePacket ==
  /\ pc[Host] = "handle"
  /\ Handler!rx_packet_handler(rx_p[Host])
  /\ delivered' = IF upcall'.kind = "none" THEN delivered ELSE Append(delivered, upcall')
  /\ pc' = [pc EXCEPT ![Host] = "rearm"]
  /\ UNCHANGED <<restarts, rx_p, senderVars, radioVars>>

\* A bystander's handler has another host address: no frame of this link is
\* for it, so it rejects every one and its context does not change.
BystanderHandles(r) ==
  /\ r # Host
  /\ pc[r] = "handle"
  /\ pc' = [pc EXCEPT ![r] = "rearm"]
  /\ UNCHANGED <<rx_p, senderVars, radioVars, hostVars>>

\* A failed poll starts the loop over.
PollError(r) ==
  /\ "spi" \in faults
  /\ pc[r] = "poll"
  /\ pc' = [pc EXCEPT ![r] = "rearm"]
  /\ UNCHANGED <<rx_p, senderVars, radioVars, hostVars>>

\* A failure at the loop's head, or in sending the acknowledgement, leaves the
\* loop; the packet in hand is not handled although its acknowledgement may
\* have gone out.
LoopExits(r) ==
  /\ "spi" \in faults
  /\ \/ pc[r] = "rearm" /\ UNCHANGED radioVars
     \/ /\ pc[r] = "ack"
        /\ Broadcast(r, Acknowledgement(rx_p[r])) \/ UNCHANGED fifo
        /\ mode' = [mode EXCEPT ![r] = "STDBY"]
  /\ pc' = [pc EXCEPT ![r] = "exited"]
  /\ UNCHANGED <<rx_p, senderVars, hostVars>>

\* The host reboots: initialize_sx_1278, rx_handler_init, start_rx_loop.
Restart ==
  /\ "restart" \in faults
  /\ restarts < MaxRestarts
  /\ restarts' = restarts + 1
  /\ Handler!rx_handler_init(Sender)
  /\ pc' = [pc EXCEPT ![Host] = "rearm"]
  /\ rx_p' = [rx_p EXCEPT ![Host] = ZeroPacket]
  /\ SetRadio(Host, "STDBY")
  /\ UNCHANGED <<delivered, senderVars>>

LoopStep(r) ==
  \/ Rearm(r)
  \/ Receive(r)
  \/ SendAck(r)
  \/ r = Host /\ HandlePacket
  \/ BystanderHandles(r)

-----------------------------------------------------------------------------
Init ==
  /\ faults \in FaultSets
  /\ jobs \in Workloads
  /\ job = 0
  /\ idx = 1
  /\ attempt = 1
  /\ s_pc = "idle"
  /\ result = [j \in DOMAIN jobs |-> "pending"]
  /\ mode = [n \in Nodes |-> "STDBY"]
  /\ fifo = [n \in Nodes |-> Nothing]
  /\ pc = [r \in Receivers |->
             IF r = Host \/ "neighbour" \in faults THEN "rearm" ELSE "exited"]
  /\ rx_p = [r \in Receivers |-> ZeroPacket]
  /\ delivered = <<>>
  /\ restarts = 0
  /\ configured = TRUE
  /\ remote_src_addr = Sender
  /\ capture = FALSE
  /\ capture_ack_id = 0
  /\ captured_packet_arr = [i \in Handler!Slots |-> NULL]
  /\ captured_n = 0
  /\ last_received_ack_id = 0
  /\ last_received_seq_number = 0
  /\ ret = "void"
  /\ upcall = Handler!NoUpcall

Next ==
  \/ StartJob
  \/ SenderStep
  \/ TransmitFails
  \/ PollFails
  \/ \E r \in Receivers: LoopStep(r) \/ PollError(r) \/ LoopExits(r)
  \/ Restart

Spec == Init /\ [][Next]_vars

\* Every node's program goes on running; the air promises nothing beyond
\* what faults leaves out, and no fault has to happen.
Fairness ==
  /\ WF_vars(StartJob)
  /\ WF_vars(SenderStep)
  /\ \A r \in Receivers: WF_vars(LoopStep(r))

FairSpec == Spec /\ Fairness

-----------------------------------------------------------------------------
Outcomes == {"pending", "SX_OK", "SX_TIMEOUT", "SX_ERROR"}

\* The sender's position lies in the transfer it is sending, a radio holds at
\* most one frame, and a loop has a packet in hand when it is past reading.
TypeOK ==
  /\ faults \in FaultSets
  /\ job \in 0..Len(jobs)
  /\ job > 0 => idx \in 1..Len(p_buf)
  /\ attempt \in 1..timeout_n
  /\ s_pc \in {"idle", "send", "arm", "poll"}
  /\ result \in [DOMAIN jobs -> Outcomes]
  /\ mode \in [Nodes -> {"RX_CONTINUOUS", "RX_SINGLE", "STDBY", "SLEEP"}]
  /\ fifo \in [Nodes -> Packets \cup {Nothing, Corrupt}]
  /\ pc \in [Receivers -> {"rearm", "poll", "ack", "handle", "exited"}]
  /\ rx_p \in [Receivers -> Packets]
  /\ restarts \in 0..MaxRestarts
  /\ Handler!TypeOK

Contents(u) == [i \in DOMAIN u.items |-> u.items[i].payload]

\* The call-back the host is about to make: its packet is read and
\* acknowledged, and the handler will not turn it away.
InHand ==
  LET p == rx_p[Host]
      taken == /\ pc[Host] = "handle"
               /\ Handler!ForUs(p)
               /\ ~Handler!Redundant(p)
      type == check_packet_type(p)
  IN CASE taken /\ type = "PACKET_END" /\ capture
            -> <<Handler!EndUpcall(Handler!Captured)>>
       [] taken /\ type = "PACKET_DATA" /\ p.ack_id # capture_ack_id
            -> <<Handler!CommandUpcall(p)>>
       [] OTHER -> <<>>

Upcalls == delivered \o InHand
Handed == [k \in DOMAIN Upcalls |-> Contents(Upcalls[k])]

\* The link implements reliable transfer: SX_OK means handed over, once and
\* whole, in the order of submission, whatever frames and acknowledgements
\* are lost, damaged or late.
TransferSpec == INSTANCE Transfer
  WITH current <- job, outcome <- result, handed <- Handed,
       Failures <- {"SX_TIMEOUT", "SX_ERROR"}

ImplementsTransfer == TransferSpec!Spec

\* A fragment of a framed transfer is never given to the command call-back.
FragmentsNeverCommands ==
  \A k \in DOMAIN delivered:
    delivered[k].kind = "command" =>
      ~jobs[delivered[k].items[1].payload[1]].framed

\* A reassembled burst holds the fragments of one transfer only, from its
\* first one on and without a gap.
NothingMixed ==
  \A k \in DOMAIN delivered:
    delivered[k].kind = "end" =>
      \E j \in DOMAIN jobs: \A i \in DOMAIN delivered[k].items:
        delivered[k].items[i].payload = <<j, i>>

\* A burst that is handed over is a whole one: END closes no other capture than its
\* own burst's.
HandedWhole ==
  \A k \in DOMAIN delivered:
    delivered[k].kind = "end" =>
      \E j \in DOMAIN jobs: Contents(delivered[k]) = [i \in 1..jobs[j].n |-> <<j, i>>]

\* No burst is handed over twice, not even across a restart of the host.
BurstHandedOnce ==
  \A k, l \in DOMAIN delivered:
    /\ delivered[k].kind = "end" /\ delivered[l].kind = "end"
    /\ delivered[k].items # <<>>
    /\ Contents(delivered[k]) = Contents(delivered[l])
    => k = l

\* A transfer reported SX_OK has been handed over, or is just about to be.
OkMeansHanded ==
  \A j \in DOMAIN jobs:
    result[j] = "SX_OK" =>
      \E k \in DOMAIN Handed: Handed[k] = [i \in 1..jobs[j].n |-> <<j, i>>]

\* Sender and host move in lock step: between two packets the host's capture
\* has every fragment before the one the sender works on and at most that one
\* besides (packet idx carries fragment idx - 1), and it is closed only before
\* BEGIN has come or after END has.
LockStep ==
  s_pc # "idle" /\ jobs[job].framed /\ pc[Host] # "handle" =>
    IF capture THEN /\ capture_ack_id = jobs[job].ack_id
                    /\ captured_n \in {idx - 1, idx - 2}
               ELSE idx \in {1, Len(p_buf)}

\* The host's duplicate filter never takes the fragment it waits for as a
\* repetition: no acknowledgement-typed packet of the link is addressed to it.
HostNotLockedOut == Handler!NoFragmentLockout

\* The application always gets its verdict: retries are bounded and no step of
\* the sender waits for ever.
AllReported ==
  <>(\/ \A j \in DOMAIN jobs: result[j] # "pending"
     \/ StopOnFailure /\ \E j \in DOMAIN jobs: result[j] \in Outcomes \ {"pending", "SX_OK"})

\* Transfer j has reached the application.
Reached(j) ==
  \E k \in DOMAIN delivered:
    Contents(delivered[k]) = [i \in 1..jobs[j].n |-> <<j, i>>]

\* What is reported as sent reaches the application: the host never stays
\* behind the sender's verdict.
OkIsDelivered == []<>(\A j \in DOMAIN jobs: result[j] = "SX_OK" => Reached(j))

\* On a reliable air everything submitted is reported sent and has arrived.
EverythingArrives ==
  faults = {} => <>(\A j \in DOMAIN jobs: result[j] = "SX_OK" /\ Reached(j))
=============================================================================
