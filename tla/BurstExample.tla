---------------------------- MODULE BurstExample ----------------------------
(***************************************************************************)
(* The burst example (examples/esp32c3_6/burst): one node sends one burst  *)
(* with send_burst, the other receives it in a loop of its own, rx_task,   *)
(* that differs from the library's start_rx_loop:                          *)
(*   - clearing the flags, switching the radio and sending the             *)
(*     acknowledgement may fail without its noticing;                      *)
(*   - it ends with the burst;                                             *)
(*   - its context has no command call-back, so a data packet outside a    *)
(*     capture makes the handler call a null pointer.                      *)
(* The sender, the radios, the air and a neighbour that runs the library's *)
(* loop are LoraLink's.                                                    *)
(***************************************************************************)
EXTENDS LoraLink

spi == "spi" \in faults

\* What a failing switch_mode(m) and clear_irq leave behind on radio n.
MayFail(n, m) ==
  /\ mode' \in {[mode EXCEPT ![n] = m]} \cup IF spi THEN {mode} ELSE {}
  /\ fifo' \in {[fifo EXCEPT ![n] = Nothing]} \cup IF spi THEN {fifo} ELSE {}

-----------------------------------------------------------------------------
(* rx_task.                                                                *)

RxRearm ==
  /\ pc[Host] = "rearm"
  /\ MayFail(Host, "RX_CONTINUOUS")
  /\ pc' = [pc EXCEPT ![Host] = "poll"]
  /\ UNCHANGED <<rx_p, senderVars, hostVars>>

\* poll_for_irq_flag_no_timeout and read_last_packet.
RxReceive ==
  /\ pc[Host] = "poll"
  /\ fifo[Host] # Nothing
  /\ \E p \in {fifo[Host], ZeroPacket}:
       /\ read_last_packet(fifo[Host], p)
       /\ rx_p' = [rx_p EXCEPT ![Host] = p]
  /\ MayFail(Host, "STDBY")
  /\ pc' = [pc EXCEPT ![Host] = "ack"]
  /\ UNCHANGED <<senderVars, hostVars>>

\* (Mutant of RxSendAck: a packet that could not be acknowledged is dropped, as
\* the library's loop does.)
AckOrDrop ==
  /\ pc[Host] = "ack"
  /\ \/ /\ Broadcast(Host, Acknowledgement(rx_p[Host]))
        /\ mode' = [mode EXCEPT ![Host] = "SLEEP"]
        /\ pc' = [pc EXCEPT ![Host] = "handle"]
     \/ /\ spi
        /\ Broadcast(Host, Acknowledgement(rx_p[Host]))
        /\ mode' = [mode EXCEPT ![Host] = "STDBY"]
        /\ pc' = [pc EXCEPT ![Host] = "rearm"]
  /\ UNCHANGED <<rx_p, senderVars, hostVars>>

\* The acknowledgement is sent, or not; the packet goes to the handler anyway.  A
\* frame that nothing has cleared may be overwritten with the acknowledgement that
\* was loaded.  Read again it is addressed to the sender, so the handler turns it
\* away, and what answers it no sender waits for: ZeroPacket, which any failing read
\* gives, does the same and stands for it.
RxSendAck ==
  /\ pc[Host] = "ack"
  /\ \/ /\ Broadcast(Host, Acknowledgement(rx_p[Host]))
        /\ mode' = [mode EXCEPT ![Host] = "SLEEP"]
     \/ /\ spi
        /\ Broadcast(Host, Acknowledgement(rx_p[Host]))
        /\ mode' = [mode EXCEPT ![Host] = "STDBY"]
     \/ spi /\ MayFail(Host, "STDBY")
  /\ pc' = [pc EXCEPT ![Host] = "handle"]
  /\ UNCHANGED <<rx_p, senderVars, hostVars>>

\* (Mutant of RxHandle: the loop goes on after the burst.)
HandleAndGoOn ==
  /\ pc[Host] = "handle"
  /\ Handler!rx_packet_handler(rx_p[Host])
  /\ delivered' = IF upcall'.kind = "end" THEN Append(delivered, upcall') ELSE delivered
  /\ pc' = [pc EXCEPT ![Host] = IF upcall'.kind = "command" THEN "panic" ELSE "rearm"]
  /\ UNCHANGED <<restarts, rx_p, senderVars, radioVars>>

\* on_burst_complete takes the burst and the task is over; calling the null
\* command call-back stops the node.
RxHandle ==
  /\ pc[Host] = "handle"
  /\ Handler!rx_packet_handler(rx_p[Host])
  /\ delivered' = IF upcall'.kind = "end" THEN Append(delivered, upcall') ELSE delivered
  /\ pc' = [pc EXCEPT ![Host] =
              CASE upcall'.kind = "command" -> "panic"
                [] ret' = "CAPTURE_END" -> "exited"
                [] OTHER -> "rearm"]
  /\ UNCHANGED <<restarts, rx_p, senderVars, radioVars>>

RxTask ==
  \/ RxRearm
  \/ RxReceive
  \/ RxSendAck
  \/ RxHandle

-----------------------------------------------------------------------------
\* sender_task is StartJob and send_burst.
BurstNext ==
  \/ StartJob
  \/ SenderStep
  \/ TransmitFails
  \/ PollFails
  \/ RxTask
  \/ PollError(Host)
  \/ \E r \in Bystanders: LoopStep(r)

BurstSpec ==
  /\ Init /\ [][BurstNext]_vars
  /\ WF_vars(StartJob) /\ WF_vars(SenderStep)
  /\ WF_vars(RxTask) /\ \A r \in Bystanders: WF_vars(LoopStep(r))

-----------------------------------------------------------------------------
Undisturbed == "neighbour" \notin faults

\* The null command call-back is never called: with no other node answering for
\* it, the receiver has seen BEGIN before the sender goes on to data, and it is
\* gone before any data could follow END, whatever is lost, late or failing.
NullNeverCalled == Undisturbed => pc[Host] # "panic"

\* "all packets acknowledged" is only said of a burst that the receiver has or is
\* about to have, failing radio accesses on either side included.
SentIsHanded ==
  Undisturbed /\ result[1] = "SX_OK" =>
    Handed = << [i \in 1..jobs[1].n |-> <<1, i>>] >>

\* When the sender is told that all is acknowledged, the receiver's task comes to
\* its end too.
BothEnd ==
  (Undisturbed /\ result[1] = "SX_OK") ~> (pc[Host] = "exited")
=============================================================================
