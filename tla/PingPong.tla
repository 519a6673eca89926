------------------------------- MODULE PingPong -------------------------------
(***************************************************************************)
(* The ping-pong example (examples/esp32c3_6/pingpong): two nodes drive    *)
(* their radios with the driver's functions, without the packet layer.     *)
(* The sender's run_sender sends a ping, waits for the pong and reads it,  *)
(* ROUNDS times; the receiver's run_receiver waits, reads and answers.     *)
(* Nothing is retried: a call that does not return SX_OK, or a frame that  *)
(* is not the expected one, ends the program.                              *)
(*                                                                         *)
(* Each node is a copy of Sx127xDriver; what one transmits, the other      *)
(* receives if it is listening at that moment.  On a perfect air that is   *)
(* always so: the nodes turn around within the air time of a frame, no     *)
(* poll runs out of time and no register access fails.  On a lossy one a   *)
(* frame may be missed or damaged and a poll may time out at any moment.   *)
(***************************************************************************)
EXTENDS Naturals, Sequences

CONSTANT ROUNDS

ASSUME RoundsAssumption == ROUNDS \in Nat \ {0}

VARIABLES
  air,                              \* "perfect" or "lossy"
  spi_fails,                        \* register accesses may fail
  s_end, r_end,                     \* how far run_sender and run_receiver are
  s_heard, r_heard,                 \* the other node's frames, as received
  s_mode, s_irq, s_rx_slot, s_tx_slot, s_aired, s_received,
  s_pc, s_call, s_irq_seen, s_expired, s_got, s_ret, s_calls,
  r_mode, r_irq, r_rx_slot, r_tx_slot, r_aired, r_received,
  r_pc, r_call, r_irq_seen, r_expired, r_got, r_ret, r_calls

\* A round is three calls of the driver on either side, and one frame.
MaxCalls == 3 * ROUNDS

S == INSTANCE Sx127xDriver
  WITH MaxFrames <- ROUNDS, SpiFaults <- BOOLEAN, CrcErrors <- TRUE,
       mode <- s_mode, irq <- s_irq, rx_slot <- s_rx_slot, tx_slot <- s_tx_slot,
       aired <- s_aired, received <- s_received, pc <- s_pc, call <- s_call,
       irq_seen <- s_irq_seen, expired <- s_expired, got <- s_got, ret <- s_ret,
       calls <- s_calls

R == INSTANCE Sx127xDriver
  WITH MaxFrames <- ROUNDS, SpiFaults <- BOOLEAN, CrcErrors <- TRUE,
       mode <- r_mode, irq <- r_irq, rx_slot <- r_rx_slot, tx_slot <- r_tx_slot,
       aired <- r_aired, received <- r_received, pc <- r_pc, call <- r_call,
       irq_seen <- r_irq_seen, expired <- r_expired, got <- r_got, ret <- r_ret,
       calls <- r_calls

s_radio ==
  <<s_mode, s_irq, s_rx_slot, s_tx_slot, s_aired, s_received,
    s_pc, s_call, s_irq_seen, s_expired, s_got, s_ret, s_calls>>
r_radio ==
  <<r_mode, r_irq, r_rx_slot, r_tx_slot, r_aired, r_received,
    r_pc, r_call, r_irq_seen, r_expired, r_got, r_ret, r_calls>>
sender == <<s_end, s_heard, s_radio>>
receiver == <<r_end, r_heard, r_radio>>
vars == <<air, spi_fails, sender, receiver>>

-----------------------------------------------------------------------------
(* The programs.                                                           *)

\* (Mutant of Good: results are not looked at.)
AnyResult(call, ret, got) == TRUE

\* What the programs ask of a call: SX_OK and, of one that reads, the other
\* node's string; neither nothing nor the node's own string is equal to it.
Good(call, ret, got) ==
  /\ ret = "SX_OK"
  /\ call.op = "read_last_payload" => got \notin {S!Blank, S!Own}

\* The calls of a round, of which k have been made before.
SenderCall(k) == <<"send_payload", "poll_for_irq_flag", "read_last_payload">>[(k % 3) + 1]
ReceiverCall(k) == <<"poll_for_irq_flag", "read_last_payload", "send_payload">>[(k % 3) + 1]

\* (Mutant of After: the radio sleeps after its frame.)
SleepAfter(op) == "SLEEP"

After(op) == IF op = "send_payload" THEN "RX_CONTINUOUS" ELSE "SLEEP"

SenderCalls ==
  /\ s_end = "running"
  /\ s_calls > 0 => Good(s_call, s_ret, s_got)
  /\ S!Call(SenderCall(s_calls), After(SenderCall(s_calls)))
  /\ UNCHANGED <<air, s_end, s_heard, receiver>>

\* (Mutant of SenderEnds: one round fewer.)
SenderEndsEarly ==
  /\ s_end = "running" /\ s_pc = "idle" /\ s_calls > 0
  /\ \/ ~Good(s_call, s_ret, s_got) /\ s_end' = "failed"
     \/ Good(s_call, s_ret, s_got) /\ s_calls >= MaxCalls - 3 /\ s_end' = "passed"
  /\ UNCHANGED <<air, s_heard, spi_fails, s_radio, receiver>>

\* "test passed" after the last round; return from within the loop otherwise.
SenderEnds ==
  /\ s_end = "running" /\ s_pc = "idle" /\ s_calls > 0
  /\ \/ ~Good(s_call, s_ret, s_got) /\ s_end' = "failed"
     \/ Good(s_call, s_ret, s_got) /\ s_calls = MaxCalls /\ s_end' = "passed"
  /\ UNCHANGED <<air, s_heard, spi_fails, s_radio, receiver>>

\* The receiver starts to listen before its first round.
ReceiverStarts ==
  /\ r_end = "starting"
  /\ \/ R!switch_mode("RX_CONTINUOUS") /\ r_end' = "running"
     \/ R!Fails /\ r_end' = "failed"
  /\ UNCHANGED <<air, r_heard, spi_fails, r_pc, r_call, r_irq_seen, r_expired, r_got, r_ret, r_calls, sender>>

ReceiverCalls ==
  /\ r_end = "running"
  /\ r_calls > 0 => Good(r_call, r_ret, r_got)
  /\ R!Call(ReceiverCall(r_calls), After(ReceiverCall(r_calls)))
  /\ UNCHANGED <<air, r_end, r_heard, sender>>

ReceiverEnds ==
  /\ r_end = "running" /\ r_pc = "idle" /\ r_calls > 0
  /\ \/ ~Good(r_call, r_ret, r_got) /\ r_end' = "failed"
     \/ Good(r_call, r_ret, r_got) /\ r_calls = MaxCalls /\ r_end' = "passed"
  /\ UNCHANGED <<air, r_heard, spi_fails, r_radio, sender>>

-----------------------------------------------------------------------------
(* The drivers, their clocks and the air.                                  *)

SenderDrives == S!DriverStep /\ UNCHANGED <<air, s_end, s_heard, receiver>>
ReceiverDrives == R!DriverStep /\ UNCHANGED <<air, r_end, r_heard, sender>>

SenderExpires ==
  air = "lossy" /\ S!TimerExpires /\ UNCHANGED <<air, s_end, s_heard, receiver>>
ReceiverExpires ==
  air = "lossy" /\ R!TimerExpires /\ UNCHANGED <<air, r_end, r_heard, sender>>

\* A ping goes out and is heard, damaged or missed.
PingOnAir ==
  /\ S!ChipTransmits
  /\ \/ /\ \E good \in {TRUE} \cup {air = "perfect"}: R!ChipReceives(good)
        /\ r_heard' = Append(r_heard, s_tx_slot)
     \/ air = "lossy" /\ UNCHANGED <<r_heard, spi_fails, r_radio>>
  /\ UNCHANGED <<air, s_end, s_heard, r_end>>

PongOnAir ==
  /\ R!ChipTransmits
  /\ \/ /\ \E good \in {TRUE} \cup {air = "perfect"}: S!ChipReceives(good)
        /\ s_heard' = Append(s_heard, r_tx_slot)
     \/ air = "lossy" /\ UNCHANGED <<s_heard, spi_fails, s_radio>>
  /\ UNCHANGED <<air, r_end, r_heard, s_end>>

-----------------------------------------------------------------------------
Init ==
  /\ S!Init
  /\ R!Init
  /\ air \in {"perfect", "lossy"}
  /\ air = "perfect" => ~spi_fails
  /\ s_end = "running" /\ s_heard = <<>>
  /\ r_end = "starting" /\ r_heard = <<>>

SenderStep == SenderCalls \/ SenderEnds \/ SenderDrives
ReceiverStep == ReceiverStarts \/ ReceiverCalls \/ ReceiverEnds \/ ReceiverDrives

Next ==
  \/ SenderStep \/ SenderExpires
  \/ ReceiverStep \/ ReceiverExpires
  \/ PingOnAir \/ PongOnAir

\* Both programs run and both clocks move; only a perfect air owes a frame.
PerfectAir == air = "perfect" /\ (PingOnAir \/ PongOnAir)

Spec ==
  /\ Init /\ [][Next]_vars
  /\ WF_vars(SenderStep) /\ WF_vars(SenderExpires)
  /\ WF_vars(ReceiverStep) /\ WF_vars(ReceiverExpires)
  /\ WF_vars(PerfectAir)

-----------------------------------------------------------------------------

ReadOk(pc, call, ret, got) ==
  /\ pc = "idle" /\ call.op = "read_last_payload"
  /\ ret = "SX_OK" /\ got \notin {S!Blank, S!Own}

\* The pong read in a round is the answer sent in that round, and the answer to
\* the ping of that round, although the strings do not tell rounds apart and the
\* flags and the FIFO of the round before are still there.  (The frame that call
\* k sends is named k.)
RoundsMatch ==
  /\ ReadOk(s_pc, s_call, s_ret, s_got) => s_heard[s_got] = s_calls
  /\ ReadOk(r_pc, r_call, r_ret, r_got) => r_heard[r_got] = r_calls - 1

\* "test passed" means that the receiver has answered every ping.
PassedMeansAnswered ==
  s_end = "passed" => Len(r_aired) = ROUNDS /\ r_calls = MaxCalls

\* Whatever is lost, neither program hangs.
ProgramsEnd == <>(s_end \in {"passed", "failed"} /\ r_end \in {"passed", "failed"})

\* On a perfect air the test passes.
PerfectPasses == air = "perfect" => <>(s_end = "passed" /\ r_end = "passed")
=============================================================================
