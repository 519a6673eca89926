------------------------- MODULE Sx127xDriver_proofs -------------------------
(***************************************************************************)
(* What the driver's success codes mean, proved for any number of calls    *)
(* and frames.                                                             *)
(***************************************************************************)
EXTENDS Sx127xDriver, SequenceTheorems, TLAPS

-----------------------------------------------------------------------------
(* The inductive invariant.                                                *)

\* Where the thread is tells what it was called for.
Places ==
  /\ pc \in {"ls_mode", "ls_clear", "ls_start"} => call.op = "listen"
  /\ pc \in {"tx_stdby", "tx_load", "tx_clear", "tx_start", "tx_done", "tx_next"} =>
       call.op = "send_payload"
  /\ pc \in {"poll", "clock"} =>
       call.op \in {"send_payload", "poll_for_irq_flag", "poll_and_read_packet"}
  /\ pc \in {"rx_single", "rx_stdby", "cleanup", "cl_stdby"} => call.op = "poll_and_read_packet"
  /\ pc \in {"rd_stdby", "rd_irq", "rd_check", "rd_len", "rd_fifo", "rd_none"} =>
       call.op \in {"read_last_payload", "read_last_packet", "poll_and_read_packet"}
  /\ pc = "parse" => call.op \in {"read_last_packet", "poll_and_read_packet"}
  /\ call.next \in {"SLEEP", "RX_CONTINUOUS"}
  /\ call.frame = calls
  /\ pc # "idle" /\ call.op # "listen" => calls # 0

\* The frame of the current call has not gone out, or has as the last one and once.
NotAired == \A i \in DOMAIN aired: aired[i] # calls
AiredLast ==
  /\ Len(aired) # 0
  /\ aired[Len(aired)] = calls
  /\ \A i \in 1..Len(aired) - 1: aired[i] # calls

\* What is loaded, flagged and aired at each place of a transmission.
Sending ==
  /\ tx_slot <= calls
  /\ \A i \in DOMAIN aired: aired[i] \in 1..calls
  /\ mode = "TX" => tx_slot # Blank
  /\ pc = "tx_stdby" => tx_slot # calls
  /\ pc \in {"tx_load", "tx_clear", "tx_start", "tx_done", "tx_next"} => mode = "STDBY"
  /\ pc \in {"tx_stdby", "tx_load", "tx_clear", "tx_start"} => NotAired
  /\ pc \in {"tx_clear", "tx_start"} => tx_slot = calls
  /\ pc = "tx_start" => "TxDone" \notin irq
  /\ pc \in {"poll", "clock"} /\ call.op = "send_payload" =>
       \/ mode = "TX" /\ tx_slot = calls /\ "TxDone" \notin irq /\ NotAired
       \/ mode = "STDBY" /\ AiredLast
  /\ pc \in {"tx_done", "tx_next"} => AiredLast
  /\ Returned("send_payload", "SX_OK") => mode # "TX" /\ AiredLast

\* The flags speak of the last frame, also when it has been overwritten since, and the
\* radio is quiet while it is read.  Where accesses work, an overwritten frame is
\* flagged only until the flags are cleared for the frame that overwrote it.
Reading ==
  /\ rx_slot \in {Len(received), Own}
  /\ "RxDone" \in irq => Len(received) # 0
  /\ "RxDone" \in irq /\ "CrcErr" \notin irq => received[Len(received)]
  /\ rx_slot = Own /\ "RxDone" \in irq => spi_fails \/ pc = "tx_clear"
  /\ pc \in {"rd_irq", "rd_check", "rd_len", "rd_fifo", "rd_none"} => mode = "STDBY"
  /\ pc = "rd_check" => irq_seen = irq
  /\ pc \in {"rd_len", "rd_fifo"} => "RxDone" \in irq /\ "CrcErr" \notin irq
  /\ pc = "rd_none" => spi_fails
  /\ NoDamagedContent
  /\ ~spi_fails /\ Returned("read_last_payload", "SX_OK") =>
       mode = "STDBY" /\ got = Len(received) /\ got # Blank

\* Where accesses work, the radio is in single reception or in standby from the first
\* poll of a reception on, and in standby once a frame is read.  Between the two
\* writes of the clean-up nothing is flagged but an answer that came after a timeout.
Late == ret = "SX_TIMEOUT" /\ rx_slot = Len(received) /\ rx_slot # Blank /\ irq = LastFlags

Receiving ==
  ~spi_fails /\ call.op = "poll_and_read_packet" =>
    /\ pc \in {"poll", "clock", "rx_stdby", "cleanup", "cl_stdby"} =>
         mode \in {"RX_SINGLE", "STDBY"}
    /\ pc \in {"rd_stdby", "rd_irq", "rd_check", "rd_len", "rd_fifo", "rd_none", "parse"} =>
         mode = "STDBY"
    /\ pc \in {"cleanup", "cl_stdby"} /\ ret # "SX_TIMEOUT" => mode = "STDBY"
    /\ pc = "cl_stdby" /\ irq # {} => mode = "STDBY" /\ Late
    /\ pc = "idle" /\ ret # "none" => mode = "STDBY" /\ (irq # {} => Late)

IInv == TypeOK /\ Places /\ Sending /\ Reading /\ Receiving

\* TypeOK in two halves: what a step of the chip changes and what a step of the
\* driver's control changes.
ChipTypes ==
  /\ mode \in Modes
  /\ irq \subseteq Flags
  /\ rx_slot \in 0..Len(received) \cup {Own}
  /\ tx_slot \in 0..MaxCalls
  /\ aired \in Seq(0..MaxCalls)
  /\ received \in Seq(BOOLEAN) /\ Len(received) <= MaxFrames

DriverTypes ==
  /\ spi_fails \in SpiFaults
  /\ pc \in Labels
  /\ call \in [op: Ops \cup {"listen"}, next: Modes, frame: 0..MaxCalls]
  /\ irq_seen \subseteq Flags
  /\ expired \in BOOLEAN
  /\ got \in 0..Len(received) \cup {Own}
  /\ ret \in Codes
  /\ calls \in 0..MaxCalls

-----------------------------------------------------------------------------
\* The initial state satisfies the invariant.
LEMMA InitIInv == Init => IInv
<1> SUFFICES ASSUME Init PROVE IInv
  OBVIOUS
<1>1. /\ \A S: <<>> \in Seq(S)
      /\ Len(<<>>) = 0
      /\ DOMAIN <<>> = {}
  BY EmptySeq
<1>2. TypeOK
  <2> USE BoundsAssumption, FaultsAssumption
      DEF Init, Modes, Flags, Labels, Codes, Ops, Blank
  <2>1. /\ spi_fails \in SpiFaults /\ mode \in Modes /\ irq \subseteq Flags
        /\ pc \in Labels /\ expired \in BOOLEAN
    OBVIOUS
  <2>2. /\ rx_slot \in 0..Len(received) \cup {Own}
        /\ got \in 0..Len(received) \cup {Own}
    BY <1>1
  <2>3. aired \in Seq(0..MaxCalls) /\ received \in Seq(BOOLEAN) /\ Len(received) <= MaxFrames
    BY <1>1
  <2>4. /\ call \in [op: Ops \cup {"listen"}, next: Modes, frame: 0..MaxCalls]
        /\ tx_slot \in 0..MaxCalls /\ calls \in 0..MaxCalls
    OBVIOUS
  <2>5. irq_seen \subseteq Flags
    OBVIOUS
  <2>6. ret \in Codes
    OBVIOUS
  <2> QED
    BY <2>1, <2>2, <2>3, <2>4, <2>5, <2>6 DEF TypeOK
<1>3. Places
  BY DEF Init, Places
<1>4. Sending
  BY <1>1 DEF Init, Sending, Returned, Blank
<1>5. Reading
  <2>1. Own # Blank
    BY BoundsAssumption DEF Own, Blank
  <2> QED
    BY <1>1, <2>1 DEF Init, Reading, NoDamagedContent, Returned, Blank
<1>6. Receiving
  BY DEF Init, Receiving
<1> QED
  BY <1>2, <1>3, <1>4, <1>5, <1>6 DEF IInv

\* Appending to a sequence leaves what was there in its place.
LEMMA AppendFacts ==
  ASSUME NEW S, NEW s \in Seq(S), NEW e \in S
  PROVE  /\ Append(s, e) \in Seq(S)
         /\ Len(Append(s, e)) = Len(s) + 1
         /\ DOMAIN Append(s, e) = 1..Len(s) + 1
         /\ \A i \in 1..Len(s): Append(s, e)[i] = s[i]
         /\ Append(s, e)[Len(s) + 1] = e
OBVIOUS

\* Every step keeps the types of the chip's part.
LEMMA ChipTypesStep == IInv /\ [Next]_vars => ChipTypes'
<1> SUFFICES ASSUME IInv, [Next]_vars PROVE ChipTypes'
  OBVIOUS
<1> USE BoundsAssumption, FaultsAssumption
       DEF IInv, TypeOK, ChipTypes, Modes, Flags, Blank
<1>a. Len(received) \in Nat /\ Len(aired) \in Nat
  OBVIOUS
<1>1. ASSUME NEW good \in BOOLEAN, ChipReceives(good) PROVE ChipTypes'
  BY <1>1, <1>a, AppendFacts DEF ChipReceives, driverVars
<1>2. CASE ChipGivesUp
  BY <1>2, <1>a DEF ChipGivesUp, driverVars
<1>3. CASE ChipTransmits
  BY <1>3, <1>a, AppendFacts DEF ChipTransmits, driverVars
<1>4. CASE TimerExpires
  BY <1>4, <1>a DEF TimerExpires, chipVars
<1>5. CASE SendStdby
  BY <1>5, <1>a DEF SendStdby, At, Goto, Return, Fails, switch_mode, chipVars
<1>6. CASE SendLoad
  BY <1>6, <1>a DEF SendLoad, At, Goto, Return
<1>7. CASE SendClear
  BY <1>7, <1>a DEF SendClear, At, Goto, Return, Fails, clear_irq, chipVars
<1>8. CASE SendStart
  BY <1>8, <1>a DEF SendStart, At, Goto, Return, Fails, switch_mode, chipVars
<1>9. CASE SendClearDone
  BY <1>9, <1>a DEF SendClearDone, At, Goto, Return, Fails, clear_irq, chipVars
<1>10. CASE SendNext
  BY <1>10, <1>a DEF SendNext, At, Return, Fails, switch_mode, chipVars
<1>11. CASE PollFlag
  BY <1>11, <1>a
     DEF PollFlag, At, Goto, Return, clear_irq, PollMask, PollLeaves, PollReturns, chipVars
<1>12. CASE PollClock
  BY <1>12, <1>a
     DEF PollClock, At, Goto, Return, clear_irq, PollLeaves, PollReturns, chipVars
<1>13. CASE RxSingle
  BY <1>13, <1>a DEF RxSingle, At, Goto, Fails, switch_mode, chipVars
<1>14. CASE RxStdby
  BY <1>14, <1>a DEF RxStdby, At, Goto, Fails, switch_mode, chipVars
<1>15. CASE CleanupClear
  BY <1>15, <1>a DEF CleanupClear, At, Goto, Fails, clear_irq, chipVars
<1>16. CASE ReadStdby
  BY <1>16, <1>a DEF ReadStdby, At, Goto, Fails, switch_mode, ReadReturns, chipVars
<1>17. CASE ReadIrq
  BY <1>17, <1>a DEF ReadIrq, Goto, Fails, ReadReturns, chipVars
<1>18. CASE ReadCheck
  BY <1>18, <1>a
     DEF ReadCheck, At, Goto, Fails, clear_irq, ReadReturns, ClearOnError, chipVars
<1>19. CASE ReadLen
  BY <1>19, <1>a DEF ReadLen, At, Goto, chipVars
<1>20. CASE ReadFifo
  BY <1>20, <1>a DEF ReadFifo, At, Fails, clear_irq, ReadReturns, ClearOnError, chipVars
<1>21. CASE ReadNothing
  BY <1>21, <1>a
     DEF ReadNothing, At, Fails, clear_irq, ReadReturns, ClearOnError, chipVars
<1>22. CASE ParsePacket
  BY <1>22, <1>a DEF ParsePacket, At, Fails, clear_irq, ClearOnError, chipVars
<1>23. CASE Listen
  BY <1>23, <1>a DEF Listen, chipVars
<1>24. ASSUME NEW op \in Ops, NEW next \in {"SLEEP", "RX_CONTINUOUS"}, Call(op, next)
      PROVE  ChipTypes'
  BY <1>24, <1>a DEF Call, chipVars
<1>25. CASE CleanupStdby
  BY <1>25, <1>a DEF CleanupStdby, At, Goto, Fails, switch_mode, chipVars
<1>26. CASE ListenFirst
  BY <1>26, <1>a DEF ListenFirst, At, Goto, Return, Fails, switch_mode, chipVars
<1>27. CASE ListenClear
  BY <1>27, <1>a DEF ListenClear, At, Goto, Return, Fails, clear_irq, chipVars
<1>28. CASE ListenStart
  BY <1>28, <1>a DEF ListenStart, At, Return, Fails, switch_mode, chipVars
<1>29. CASE UNCHANGED vars
  BY <1>29 DEF vars, chipVars, driverVars
<1> QED
  BY <1>1, <1>2, <1>3, <1>4, <1>5, <1>6, <1>7, <1>8, <1>9, <1>10, <1>11, <1>12, <1>13,
     <1>14, <1>15, <1>16, <1>17, <1>18, <1>19, <1>20, <1>21, <1>22, <1>23, <1>24, <1>25,
     <1>26, <1>27, <1>28, <1>29
     DEF Next, ChipStep, DriverStep

\* Every step keeps the types of the driver's part.
LEMMA DriverTypesStep == IInv /\ [Next]_vars => DriverTypes'
<1> SUFFICES ASSUME IInv, [Next]_vars PROVE DriverTypes'
  OBVIOUS
<1> USE BoundsAssumption, FaultsAssumption
       DEF IInv, TypeOK, DriverTypes, Modes, Flags, Labels, Codes, Ops, Blank
<1>a. Len(received) \in Nat /\ Len(aired) \in Nat
  OBVIOUS
<1>1. ASSUME NEW good \in BOOLEAN, ChipReceives(good) PROVE DriverTypes'
  BY <1>1, <1>a, AppendFacts DEF ChipReceives, driverVars
<1>2. CASE ChipGivesUp
  BY <1>2, <1>a DEF ChipGivesUp, driverVars
<1>3. CASE ChipTransmits
  BY <1>3, <1>a, AppendFacts DEF ChipTransmits, driverVars
<1>4. CASE TimerExpires
  BY <1>4, <1>a DEF TimerExpires, chipVars
<1>5. CASE SendStdby
  BY <1>5, <1>a DEF SendStdby, At, Goto, Return, Fails, switch_mode, chipVars
<1>6. CASE SendLoad
  BY <1>6, <1>a DEF SendLoad, At, Goto, Return
<1>7. CASE SendClear
  BY <1>7, <1>a DEF SendClear, At, Goto, Return, Fails, clear_irq, chipVars
<1>8. CASE SendStart
  BY <1>8, <1>a DEF SendStart, At, Goto, Return, Fails, switch_mode, chipVars
<1>9. CASE SendClearDone
  BY <1>9, <1>a DEF SendClearDone, At, Goto, Return, Fails, clear_irq, chipVars
<1>10. CASE SendNext
  BY <1>10, <1>a DEF SendNext, At, Return, Fails, switch_mode, chipVars
<1>11. CASE PollFlag
  BY <1>11, <1>a
     DEF PollFlag, At, Goto, Return, clear_irq, PollMask, PollLeaves, PollReturns, chipVars
<1>12. CASE PollClock
  BY <1>12, <1>a
     DEF PollClock, At, Goto, Return, clear_irq, PollLeaves, PollReturns, chipVars
<1>13. CASE RxSingle
  BY <1>13, <1>a DEF RxSingle, At, Goto, Fails, switch_mode, chipVars
<1>14. CASE RxStdby
  BY <1>14, <1>a DEF RxStdby, At, Goto, Fails, switch_mode, chipVars
<1>15. CASE CleanupClear
  BY <1>15, <1>a DEF CleanupClear, At, Goto, Fails, clear_irq, chipVars
<1>16. CASE ReadStdby
  <2>1. got' \in 0..Len(received') \cup {Own}
    BY <1>16, <1>a DEF ReadStdby, At, Goto, Fails, switch_mode, ReadReturns, chipVars
  <2>2. ret' \in Codes /\ pc' \in Labels
    BY <1>16 DEF ReadStdby, At, Goto, Fails, switch_mode, ReadReturns, chipVars
  <2> QED
    BY <1>16, <2>1, <2>2
       DEF ReadStdby, At, Goto, Fails, switch_mode, ReadReturns, chipVars
<1>17. CASE ReadIrq
  <2>1. got' \in 0..Len(received') \cup {Own}
    BY <1>17, <1>a DEF ReadIrq, Goto, Fails, ReadReturns, chipVars
  <2>2. ret' \in Codes /\ pc' \in Labels
    BY <1>17 DEF ReadIrq, Goto, Fails, ReadReturns, chipVars
  <2> QED
    BY <1>17, <2>1, <2>2 DEF ReadIrq, Goto, Fails, ReadReturns, chipVars
<1>18. CASE ReadCheck
  <2>1. got' \in 0..Len(received') \cup {Own}
    BY <1>18, <1>a
       DEF ReadCheck, At, Goto, Fails, clear_irq, ReadReturns, ClearOnError, chipVars
  <2>2. ret' \in Codes /\ pc' \in Labels
    BY <1>18
       DEF ReadCheck, At, Goto, Fails, clear_irq, ReadReturns, ClearOnError, chipVars
  <2> QED
    BY <1>18, <2>1, <2>2
       DEF ReadCheck, At, Goto, Fails, clear_irq, ReadReturns, ClearOnError, chipVars
<1>19. CASE ReadLen
  BY <1>19, <1>a DEF ReadLen, At, Goto, chipVars
<1>20. CASE ReadFifo
  <2>1. got' \in 0..Len(received') \cup {Own}
    BY <1>20, <1>a
       DEF ReadFifo, At, Fails, clear_irq, ReadReturns, ClearOnError, chipVars
  <2>2. ret' \in Codes /\ pc' \in Labels
    BY <1>20 DEF ReadFifo, At, Fails, clear_irq, ReadReturns, ClearOnError, chipVars
  <2> QED
    BY <1>20, <2>1, <2>2
       DEF ReadFifo, At, Fails, clear_irq, ReadReturns, ClearOnError, chipVars
<1>21. CASE ReadNothing
  <2>1. got' \in 0..Len(received') \cup {Own}
    BY <1>21, <1>a
       DEF ReadNothing, At, Fails, clear_irq, ReadReturns, ClearOnError, chipVars
  <2>2. ret' \in Codes /\ pc' \in Labels
    BY <1>21 DEF ReadNothing, At, Fails, clear_irq, ReadReturns, ClearOnError, chipVars
  <2> QED
    BY <1>21, <2>1, <2>2
       DEF ReadNothing, At, Fails, clear_irq, ReadReturns, ClearOnError, chipVars
<1>22. CASE ParsePacket
  BY <1>22, <1>a DEF ParsePacket, At, Fails, clear_irq, ClearOnError, chipVars
<1>23. CASE Listen
  <2>1. call' \in [op: Ops \cup {"listen"}, next: Modes, frame: 0..MaxCalls]
    BY <1>23 DEF Listen
  <2>2. ret' \in Codes /\ pc' \in Labels /\ expired' \in BOOLEAN
    BY <1>23 DEF Listen
  <2>3. irq_seen' \subseteq Flags /\ got' \in 0..Len(received') \cup {Own}
    BY <1>23, <1>a DEF Listen, chipVars
  <2> QED
    BY <1>23, <2>1, <2>2, <2>3 DEF Listen
<1>24. ASSUME NEW op \in Ops, NEW next \in {"SLEEP", "RX_CONTINUOUS"}, Call(op, next)
      PROVE  DriverTypes'
  <2>1. call' \in [op: Ops \cup {"listen"}, next: Modes, frame: 0..MaxCalls] /\ calls' \in 0..MaxCalls
    BY <1>24 DEF Call
  <2>2. ret' \in Codes /\ pc' \in Labels
    BY <1>24 DEF Call
  <2>3. irq_seen' \subseteq Flags /\ got' \in 0..Len(received') \cup {Own}
    BY <1>24, <1>a DEF Call, chipVars
  <2>4. expired' \in BOOLEAN
    BY <1>24 DEF Call
  <2> QED
    BY <1>24, <2>1, <2>2, <2>3, <2>4 DEF Call, chipVars
<1>25. CASE CleanupStdby
  BY <1>25, <1>a DEF CleanupStdby, At, Goto, Fails, switch_mode, chipVars
<1>26. CASE ListenFirst
  BY <1>26, <1>a DEF ListenFirst, At, Goto, Return, Fails, switch_mode, chipVars
<1>27. CASE ListenClear
  BY <1>27, <1>a DEF ListenClear, At, Goto, Return, Fails, clear_irq, chipVars
<1>28. CASE ListenStart
  BY <1>28, <1>a DEF ListenStart, At, Return, Fails, switch_mode, chipVars
<1>29. CASE UNCHANGED vars
  BY <1>29 DEF vars, chipVars, driverVars
<1> QED
  BY <1>1, <1>2, <1>3, <1>4, <1>5, <1>6, <1>7, <1>8, <1>9, <1>10, <1>11, <1>12, <1>13,
     <1>14, <1>15, <1>16, <1>17, <1>18, <1>19, <1>20, <1>21, <1>22, <1>23, <1>24, <1>25,
     <1>26, <1>27, <1>28, <1>29
     DEF Next, ChipStep, DriverStep

\* Control stays in the sequence of the call.
LEMMA PlacesStep == IInv /\ [Next]_vars => Places'
<1> SUFFICES ASSUME IInv, [Next]_vars PROVE Places'
  OBVIOUS
<1> USE BoundsAssumption DEF IInv, TypeOK, Places, Ops, Labels
<1>a. Len(received) \in Nat /\ Len(aired) \in Nat
  OBVIOUS
<1>1. ASSUME NEW good \in BOOLEAN, ChipReceives(good) PROVE Places'
  BY <1>1, <1>a, AppendFacts DEF ChipReceives, driverVars
<1>2. CASE ChipGivesUp
  BY <1>2, <1>a DEF ChipGivesUp, driverVars
<1>3. CASE ChipTransmits
  BY <1>3, <1>a, AppendFacts DEF ChipTransmits, driverVars
<1>4. CASE TimerExpires
  BY <1>4, <1>a DEF TimerExpires, chipVars
<1>5. CASE SendStdby
  BY <1>5, <1>a DEF SendStdby, At, Goto, Return, Fails, switch_mode, chipVars
<1>6. CASE SendLoad
  BY <1>6, <1>a DEF SendLoad, At, Goto, Return
<1>7. CASE SendClear
  BY <1>7, <1>a DEF SendClear, At, Goto, Return, Fails, clear_irq, chipVars
<1>8. CASE SendStart
  BY <1>8, <1>a DEF SendStart, At, Goto, Return, Fails, switch_mode, chipVars
<1>9. CASE SendClearDone
  BY <1>9, <1>a DEF SendClearDone, At, Goto, Return, Fails, clear_irq, chipVars
<1>10. CASE SendNext
  BY <1>10, <1>a DEF SendNext, At, Return, Fails, switch_mode, chipVars
<1>11. CASE PollFlag
  BY <1>11, <1>a
     DEF PollFlag, At, Goto, Return, clear_irq, PollMask, PollLeaves, PollReturns, chipVars
<1>12. CASE PollClock
  BY <1>12, <1>a
     DEF PollClock, At, Goto, Return, clear_irq, PollLeaves, PollReturns, chipVars
<1>13. CASE RxSingle
  BY <1>13, <1>a DEF RxSingle, At, Goto, Fails, switch_mode, chipVars
<1>14. CASE RxStdby
  BY <1>14, <1>a DEF RxStdby, At, Goto, Fails, switch_mode, chipVars
<1>15. CASE CleanupClear
  BY <1>15, <1>a DEF CleanupClear, At, Goto, Fails, clear_irq, chipVars
<1>16. CASE ReadStdby
  BY <1>16, <1>a DEF ReadStdby, At, Goto, Fails, switch_mode, ReadReturns, chipVars
<1>17. CASE ReadIrq
  BY <1>17, <1>a DEF ReadIrq, Goto, Fails, ReadReturns, chipVars
<1>18. CASE ReadCheck
  BY <1>18, <1>a
     DEF ReadCheck, At, Goto, Fails, clear_irq, ReadReturns, ClearOnError, chipVars
<1>19. CASE ReadLen
  BY <1>19, <1>a DEF ReadLen, At, Goto, chipVars
<1>20. CASE ReadFifo
  BY <1>20, <1>a DEF ReadFifo, At, Fails, clear_irq, ReadReturns, ClearOnError, chipVars
<1>21. CASE ReadNothing
  BY <1>21, <1>a
     DEF ReadNothing, At, Fails, clear_irq, ReadReturns, ClearOnError, chipVars
<1>22. CASE ParsePacket
  BY <1>22, <1>a DEF ParsePacket, At, Fails, clear_irq, ClearOnError, chipVars
<1>23. CASE Listen
  BY <1>23, <1>a DEF Listen, chipVars
<1>24. ASSUME NEW op \in Ops, NEW next \in {"SLEEP", "RX_CONTINUOUS"}, Call(op, next)
      PROVE  Places'
  BY <1>24, <1>a DEF Call, chipVars
<1>25. CASE CleanupStdby
  BY <1>25, <1>a DEF CleanupStdby, At, Goto, Fails, switch_mode, chipVars
<1>26. CASE ListenFirst
  BY <1>26, <1>a DEF ListenFirst, At, Goto, Return, Fails, switch_mode, chipVars
<1>27. CASE ListenClear
  BY <1>27, <1>a DEF ListenClear, At, Goto, Return, Fails, clear_irq, chipVars
<1>28. CASE ListenStart
  BY <1>28, <1>a DEF ListenStart, At, Return, Fails, switch_mode, chipVars
<1>29. CASE UNCHANGED vars
  BY <1>29 DEF vars, chipVars, driverVars
<1> QED
  BY <1>1, <1>2, <1>3, <1>4, <1>5, <1>6, <1>7, <1>8, <1>9, <1>10, <1>11, <1>12, <1>13,
     <1>14, <1>15, <1>16, <1>17, <1>18, <1>19, <1>20, <1>21, <1>22, <1>23, <1>24, <1>25,
     <1>26, <1>27, <1>28, <1>29
     DEF Next, ChipStep, DriverStep

\* What a transmission adds to the air is the frame in the chip, and nothing before it changes.
LEMMA FrameAired ==
  ASSUME IInv, ChipTransmits
  PROVE  /\ NotAired /\ tx_slot # calls => NotAired'
         /\ NotAired /\ tx_slot = calls => AiredLast'
         /\ tx_slot \in 1..calls => \A i \in DOMAIN aired': aired'[i] \in 1..calls
<1>1. aired' = Append(aired, tx_slot) /\ calls' = calls
  BY DEF ChipTransmits, driverVars
<1>2. PICK n \in Nat: n = Len(aired) /\ DOMAIN aired = 1..n
  BY DEF IInv, TypeOK
<1>3. /\ Len(aired') = n + 1 /\ DOMAIN aired' = 1..(n + 1)
      /\ \A i \in 1..n: aired'[i] = aired[i]
      /\ aired'[n + 1] = tx_slot
  <2>1. aired \in Seq(Nat) /\ tx_slot \in Nat
    BY BoundsAssumption DEF IInv, TypeOK
  <2> QED
    BY <1>1, <1>2, <2>1, AppendFacts
<1>4. \A i \in DOMAIN aired': i \in 1..n \/ i = n + 1
  BY <1>3
<1>5. NotAired => \A i \in 1..n: aired'[i] # calls'
  BY <1>1, <1>2, <1>3 DEF NotAired
<1>6. NotAired /\ tx_slot # calls => NotAired'
  BY <1>1, <1>3, <1>4, <1>5 DEF NotAired
<1>7. NotAired /\ tx_slot = calls => AiredLast'
  <2>1. n + 1 # 0 /\ (n + 1) - 1 = n
    OBVIOUS
  <2> QED
    BY <1>1, <1>3, <1>5, <2>1 DEF AiredLast
<1>8. tx_slot \in 1..calls => \A i \in DOMAIN aired': aired'[i] \in 1..calls
  <2>1. \A i \in 1..n: aired[i] \in 1..calls
    BY <1>2 DEF IInv, Sending
  <2> QED
    BY <1>3, <1>4, <2>1
<1> QED
  BY <1>6, <1>7, <1>8

\* A transmission airs the frame that was loaded for it.
LEMMA SendingStep == IInv /\ [Next]_vars => Sending'
<1> SUFFICES ASSUME IInv, [Next]_vars PROVE Sending'
  OBVIOUS
<1> USE BoundsAssumption
       DEF IInv, TypeOK, Places, Sending, NotAired, AiredLast, Returned, Blank, Modes, Ops, Codes, Labels
<1>a. Len(received) \in Nat /\ Len(aired) \in Nat
  OBVIOUS
<1>1. ASSUME NEW good \in BOOLEAN, ChipReceives(good) PROVE Sending'
  BY <1>1, <1>a, AppendFacts DEF ChipReceives, driverVars
<1>2. CASE ChipGivesUp
  BY <1>2, <1>a DEF ChipGivesUp, driverVars
<1>3. CASE ChipTransmits
  <2>1. /\ mode = "TX" /\ mode' = "STDBY" /\ aired' = Append(aired, tx_slot)
        /\ UNCHANGED <<tx_slot, pc, call, ret, calls>>
    BY <1>3 DEF ChipTransmits, driverVars
  <2>2. /\ pc \notin {"tx_load", "tx_clear", "tx_start", "tx_done", "tx_next"}
        /\ tx_slot \in 1..calls
        /\ ~(Returned("send_payload", "SX_OK"))
    BY <2>1
  <2>3. \A i \in DOMAIN aired': aired'[i] \in 1..calls
    BY <1>3, <2>2, FrameAired
  <2>4. (NotAired /\ tx_slot # calls => NotAired') /\ (NotAired /\ tx_slot = calls => AiredLast')
    BY <1>3, FrameAired
  <2> QED
    BY <2>1, <2>2, <2>3, <2>4
<1>4. CASE TimerExpires
  BY <1>4, <1>a DEF TimerExpires, chipVars
<1>5. CASE SendStdby
  BY <1>5, <1>a DEF SendStdby, At, Goto, Return, Fails, switch_mode, chipVars
<1>6. CASE SendLoad
  BY <1>6, <1>a DEF SendLoad, At, Goto, Return
<1>7. CASE SendClear
  BY <1>7, <1>a DEF SendClear, At, Goto, Return, Fails, clear_irq, chipVars
<1>8. CASE SendStart
  BY <1>8, <1>a DEF SendStart, At, Goto, Return, Fails, switch_mode, chipVars
<1>9. CASE SendClearDone
  BY <1>9, <1>a DEF SendClearDone, At, Goto, Return, Fails, clear_irq, chipVars
<1>10. CASE SendNext
  BY <1>10, <1>a DEF SendNext, At, Return, Fails, switch_mode, chipVars
<1>11. CASE PollFlag
  BY <1>11, <1>a
     DEF PollFlag, At, Goto, Return, clear_irq, PollMask, PollLeaves, PollReturns, chipVars
<1>12. CASE PollClock
  BY <1>12, <1>a
     DEF PollClock, At, Goto, Return, clear_irq, PollLeaves, PollReturns, chipVars
<1>13. CASE RxSingle
  BY <1>13, <1>a DEF RxSingle, At, Goto, Fails, switch_mode, chipVars
<1>14. CASE RxStdby
  BY <1>14, <1>a DEF RxStdby, At, Goto, Fails, switch_mode, chipVars
<1>15. CASE CleanupClear
  BY <1>15, <1>a DEF CleanupClear, At, Goto, Fails, clear_irq, chipVars
<1>16. CASE ReadStdby
  BY <1>16, <1>a DEF ReadStdby, At, Goto, Fails, switch_mode, ReadReturns, chipVars
<1>17. CASE ReadIrq
  BY <1>17, <1>a DEF ReadIrq, Goto, Fails, ReadReturns, chipVars
<1>18. CASE ReadCheck
  BY <1>18, <1>a
     DEF ReadCheck, At, Goto, Fails, clear_irq, ReadReturns, ClearOnError, chipVars
<1>19. CASE ReadLen
  BY <1>19, <1>a DEF ReadLen, At, Goto, chipVars
<1>20. CASE ReadFifo
  BY <1>20, <1>a DEF ReadFifo, At, Fails, clear_irq, ReadReturns, ClearOnError, chipVars
<1>21. CASE ReadNothing
  BY <1>21, <1>a
     DEF ReadNothing, At, Fails, clear_irq, ReadReturns, ClearOnError, chipVars
<1>22. CASE ParsePacket
  BY <1>22, <1>a DEF ParsePacket, At, Fails, clear_irq, ClearOnError, chipVars
<1>23. CASE Listen
  BY <1>23, <1>a DEF Listen, chipVars
<1>24. ASSUME NEW op \in Ops, NEW next \in {"SLEEP", "RX_CONTINUOUS"}, Call(op, next)
      PROVE  Sending'
  BY <1>24, <1>a DEF Call, chipVars
<1>25. CASE CleanupStdby
  BY <1>25, <1>a DEF CleanupStdby, At, Goto, Fails, switch_mode, chipVars
<1>26. CASE ListenFirst
  BY <1>26, <1>a DEF ListenFirst, At, Goto, Return, Fails, switch_mode, chipVars
<1>27. CASE ListenClear
  BY <1>27, <1>a DEF ListenClear, At, Goto, Return, Fails, clear_irq, chipVars
<1>28. CASE ListenStart
  BY <1>28, <1>a DEF ListenStart, At, Return, Fails, switch_mode, chipVars
<1>29. CASE UNCHANGED vars
  BY <1>29 DEF vars, chipVars, driverVars
<1> QED
  BY <1>1, <1>2, <1>3, <1>4, <1>5, <1>6, <1>7, <1>8, <1>9, <1>10, <1>11, <1>12, <1>13,
     <1>14, <1>15, <1>16, <1>17, <1>18, <1>19, <1>20, <1>21, <1>22, <1>23, <1>24, <1>25,
     <1>26, <1>27, <1>28, <1>29
     DEF Next, ChipStep, DriverStep

\* What is read is the last intact frame.
LEMMA ReadingStep == IInv /\ [Next]_vars => Reading'
<1> SUFFICES ASSUME IInv, [Next]_vars PROVE Reading'
  OBVIOUS
<1> USE BoundsAssumption
       DEF IInv, TypeOK, Places, Reading, NoDamagedContent, Returned, Blank, Own, Modes, Ops, Codes, Labels
<1>a. Len(received) \in Nat /\ Len(aired) \in Nat
  OBVIOUS
<1>1. ASSUME NEW good \in BOOLEAN, ChipReceives(good) PROVE Reading'
  BY <1>1, <1>a, AppendFacts DEF ChipReceives, driverVars
<1>2. CASE ChipGivesUp
  BY <1>2, <1>a DEF ChipGivesUp, driverVars
<1>3. CASE ChipTransmits
  BY <1>3, <1>a, AppendFacts DEF ChipTransmits, driverVars
<1>4. CASE TimerExpires
  BY <1>4, <1>a DEF TimerExpires, chipVars
<1>5. CASE SendStdby
  BY <1>5, <1>a DEF SendStdby, At, Goto, Return, Fails, switch_mode, chipVars
<1>6. CASE SendLoad
  BY <1>6, <1>a DEF SendLoad, At, Goto, Return
<1>7. CASE SendClear
  BY <1>7, <1>a DEF SendClear, At, Goto, Return, Fails, clear_irq, chipVars
<1>8. CASE SendStart
  BY <1>8, <1>a DEF SendStart, At, Goto, Return, Fails, switch_mode, chipVars
<1>9. CASE SendClearDone
  BY <1>9, <1>a DEF SendClearDone, At, Goto, Return, Fails, clear_irq, chipVars
<1>10. CASE SendNext
  BY <1>10, <1>a DEF SendNext, At, Return, Fails, switch_mode, chipVars
<1>11. CASE PollFlag
  BY <1>11, <1>a
     DEF PollFlag, At, Goto, Return, clear_irq, PollMask, PollLeaves, PollReturns, chipVars
<1>12. CASE PollClock
  BY <1>12, <1>a
     DEF PollClock, At, Goto, Return, clear_irq, PollLeaves, PollReturns, chipVars
<1>13. CASE RxSingle
  BY <1>13, <1>a DEF RxSingle, At, Goto, Fails, switch_mode, chipVars
<1>14. CASE RxStdby
  BY <1>14, <1>a DEF RxStdby, At, Goto, Fails, switch_mode, chipVars
<1>15. CASE CleanupClear
  BY <1>15, <1>a DEF CleanupClear, At, Goto, Fails, clear_irq, chipVars
<1>16. CASE ReadStdby
  BY <1>16, <1>a DEF ReadStdby, At, Goto, Fails, switch_mode, ReadReturns, chipVars
<1>17. CASE ReadIrq
  BY <1>17, <1>a DEF ReadIrq, Goto, Fails, ReadReturns, chipVars
<1>18. CASE ReadCheck
  BY <1>18, <1>a
     DEF ReadCheck, At, Goto, Fails, clear_irq, ReadReturns, ClearOnError, chipVars
<1>19. CASE ReadLen
  BY <1>19, <1>a DEF ReadLen, At, Goto, chipVars
<1>20. CASE ReadFifo
  BY <1>20, <1>a DEF ReadFifo, At, Fails, clear_irq, ReadReturns, ClearOnError, chipVars
<1>21. CASE ReadNothing
  BY <1>21, <1>a
     DEF ReadNothing, At, Fails, clear_irq, ReadReturns, ClearOnError, chipVars
<1>22. CASE ParsePacket
  BY <1>22, <1>a DEF ParsePacket, At, Fails, clear_irq, ClearOnError, chipVars
<1>23. CASE Listen
  BY <1>23, <1>a DEF Listen, chipVars
<1>24. ASSUME NEW op \in Ops, NEW next \in {"SLEEP", "RX_CONTINUOUS"}, Call(op, next)
      PROVE  Reading'
  BY <1>24, <1>a DEF Call, chipVars
<1>25. CASE CleanupStdby
  BY <1>25, <1>a DEF CleanupStdby, At, Goto, Fails, switch_mode, chipVars
<1>26. CASE ListenFirst
  BY <1>26, <1>a DEF ListenFirst, At, Goto, Return, Fails, switch_mode, chipVars
<1>27. CASE ListenClear
  BY <1>27, <1>a DEF ListenClear, At, Goto, Return, Fails, clear_irq, chipVars
<1>28. CASE ListenStart
  BY <1>28, <1>a DEF ListenStart, At, Return, Fails, switch_mode, chipVars
<1>29. CASE UNCHANGED vars
  BY <1>29 DEF vars, chipVars, driverVars
<1> QED
  BY <1>1, <1>2, <1>3, <1>4, <1>5, <1>6, <1>7, <1>8, <1>9, <1>10, <1>11, <1>12, <1>13,
     <1>14, <1>15, <1>16, <1>17, <1>18, <1>19, <1>20, <1>21, <1>22, <1>23, <1>24, <1>25,
     <1>26, <1>27, <1>28, <1>29
     DEF Next, ChipStep, DriverStep

\* A reception ends in standby, with no flags but those of a late answer.
LEMMA ReceivingStep == IInv /\ [Next]_vars => Receiving'
<1> SUFFICES ASSUME IInv, [Next]_vars PROVE Receiving'
  OBVIOUS
<1> USE BoundsAssumption
       DEF IInv, TypeOK, Places, Reading, Receiving, Late, LastFlags, Blank, Modes, Ops, Codes, Labels
<1>a. Len(received) \in Nat /\ Len(aired) \in Nat
  OBVIOUS
<1>1. ASSUME NEW good \in BOOLEAN, ChipReceives(good) PROVE Receiving'
  BY <1>1, <1>a, AppendFacts DEF ChipReceives, driverVars
<1>2. CASE ChipGivesUp
  BY <1>2, <1>a DEF ChipGivesUp, driverVars
<1>3. CASE ChipTransmits
  BY <1>3, <1>a, AppendFacts DEF ChipTransmits, driverVars
<1>4. CASE TimerExpires
  BY <1>4, <1>a DEF TimerExpires, chipVars
<1>5. CASE SendStdby
  BY <1>5, <1>a DEF SendStdby, At, Goto, Return, Fails, switch_mode, chipVars
<1>6. CASE SendLoad
  BY <1>6, <1>a DEF SendLoad, At, Goto, Return
<1>7. CASE SendClear
  BY <1>7, <1>a DEF SendClear, At, Goto, Return, Fails, clear_irq, chipVars
<1>8. CASE SendStart
  BY <1>8, <1>a DEF SendStart, At, Goto, Return, Fails, switch_mode, chipVars
<1>9. CASE SendClearDone
  BY <1>9, <1>a DEF SendClearDone, At, Goto, Return, Fails, clear_irq, chipVars
<1>10. CASE SendNext
  BY <1>10, <1>a DEF SendNext, At, Return, Fails, switch_mode, chipVars
<1>11. CASE PollFlag
  BY <1>11, <1>a
     DEF PollFlag, At, Goto, Return, clear_irq, PollMask, PollLeaves, PollReturns, chipVars
<1>12. CASE PollClock
  BY <1>12, <1>a
     DEF PollClock, At, Goto, Return, clear_irq, PollLeaves, PollReturns, chipVars
<1>13. CASE RxSingle
  BY <1>13, <1>a DEF RxSingle, At, Goto, Fails, switch_mode, chipVars
<1>14. CASE RxStdby
  BY <1>14, <1>a DEF RxStdby, At, Goto, Fails, switch_mode, chipVars
<1>15. CASE CleanupClear
  BY <1>15, <1>a DEF CleanupClear, At, Goto, Fails, clear_irq, chipVars
<1>16. CASE ReadStdby
  BY <1>16, <1>a DEF ReadStdby, At, Goto, Fails, switch_mode, ReadReturns, chipVars
<1>17. CASE ReadIrq
  BY <1>17, <1>a DEF ReadIrq, Goto, Fails, ReadReturns, chipVars
<1>18. CASE ReadCheck
  BY <1>18, <1>a
     DEF ReadCheck, At, Goto, Fails, clear_irq, ReadReturns, ClearOnError, chipVars
<1>19. CASE ReadLen
  BY <1>19, <1>a DEF ReadLen, At, Goto, chipVars
<1>20. CASE ReadFifo
  BY <1>20, <1>a DEF ReadFifo, At, Fails, clear_irq, ReadReturns, ClearOnError, chipVars
<1>21. CASE ReadNothing
  BY <1>21, <1>a
     DEF ReadNothing, At, Fails, clear_irq, ReadReturns, ClearOnError, chipVars
<1>22. CASE ParsePacket
  BY <1>22, <1>a DEF ParsePacket, At, Fails, clear_irq, ClearOnError, chipVars
<1>23. CASE Listen
  BY <1>23, <1>a DEF Listen, chipVars
<1>24. ASSUME NEW op \in Ops, NEW next \in {"SLEEP", "RX_CONTINUOUS"}, Call(op, next)
      PROVE  Receiving'
  BY <1>24, <1>a DEF Call, chipVars
<1>25. CASE CleanupStdby
  BY <1>25, <1>a DEF CleanupStdby, At, Goto, Fails, switch_mode, chipVars
<1>26. CASE ListenFirst
  BY <1>26, <1>a DEF ListenFirst, At, Goto, Return, Fails, switch_mode, chipVars
<1>27. CASE ListenClear
  BY <1>27, <1>a DEF ListenClear, At, Goto, Return, Fails, clear_irq, chipVars
<1>28. CASE ListenStart
  BY <1>28, <1>a DEF ListenStart, At, Return, Fails, switch_mode, chipVars
<1>29. CASE UNCHANGED vars
  BY <1>29 DEF vars, chipVars, driverVars
<1> QED
  BY <1>1, <1>2, <1>3, <1>4, <1>5, <1>6, <1>7, <1>8, <1>9, <1>10, <1>11, <1>12, <1>13,
     <1>14, <1>15, <1>16, <1>17, <1>18, <1>19, <1>20, <1>21, <1>22, <1>23, <1>24, <1>25,
     <1>26, <1>27, <1>28, <1>29
     DEF Next, ChipStep, DriverStep

LEMMA IInvStep == IInv /\ [Next]_vars => IInv'
<1>1. IInv /\ [Next]_vars => TypeOK'
  <2>1. ChipTypes' /\ DriverTypes' => TypeOK'
    BY DEF TypeOK, ChipTypes, DriverTypes
  <2> QED
    BY <2>1, ChipTypesStep, DriverTypesStep
<1> QED
  BY <1>1, PlacesStep, SendingStep, ReadingStep, ReceivingStep DEF IInv

LEMMA Inductive == Spec => []IInv
BY InitIInv, IInvStep, PTL DEF Spec

-----------------------------------------------------------------------------
(* What a caller may rely on.                                              *)

\* Registers, the driver's locals and its results stay within their types
\* whatever the chip does between two register accesses.
THEOREM TypeCorrect == Spec => []TypeOK
BY Inductive, PTL DEF IInv

\* sx1278_send_payload's SX_OK means that the frame of this very call went on
\* the air, exactly once and as the last one, whichever earlier calls timed out
\* or failed half-way.
THEOREM SuccessMeansAired == Spec => []SentIsAired
<1>1. IInv => SentIsAired
  <2> SUFFICES ASSUME IInv, Returned("send_payload", "SX_OK")
               PROVE  {i \in DOMAIN aired: aired[i] = call.frame} = {Len(aired)}
    BY DEF SentIsAired
  <2>1. AiredLast /\ call.frame = calls
    BY DEF IInv, Sending, Places
  <2>2. DOMAIN aired = 1..Len(aired) /\ Len(aired) \in Nat
    BY DEF IInv, TypeOK
  <2>3. \A i \in DOMAIN aired: aired[i] = call.frame <=> i = Len(aired)
    BY <2>1, <2>2 DEF AiredLast
  <2>4. Len(aired) \in DOMAIN aired
    BY <2>1, <2>2 DEF AiredLast
  <2> QED
    BY <2>3, <2>4
<1> QED
  BY Inductive, <1>1, PTL

\* A buffer that was loaded only in part is never transmitted.
THEOREM OnlyWholeFramesAired == Spec => []NothingUndefinedAired
<1>1. IInv => NothingUndefinedAired
  BY DEF IInv, TypeOK, Sending, NothingUndefinedAired, Blank
<1> QED
  BY Inductive, <1>1, PTL

\* sx1278_read_last_payload's SX_OK, where accesses work, comes with the last
\* frame that arrived, undamaged, whatever arrived while it was at work.
THEOREM ReadIsLatest == Spec => []ReadIsLastGoodFrame
<1>1. IInv => ReadIsLastGoodFrame
  <2> SUFFICES ASSUME IInv, ~spi_fails, Returned("read_last_payload", "SX_OK")
               PROVE  got = Len(received) /\ got # Blank /\ received[got]
    BY DEF ReadIsLastGoodFrame
  <2>1. got = Len(received) /\ got # Blank /\ NoDamagedContent
    BY DEF IInv, Reading
  <2>2. Len(received) \in Nat /\ Len(received) <= MaxFrames
    BY DEF IInv, TypeOK
  <2>3. got # Own
    BY <2>1, <2>2, BoundsAssumption DEF Own
  <2> QED
    BY <2>1, <2>3 DEF NoDamagedContent
<1> QED
  BY Inductive, <1>1, PTL

\* No frame the chip flagged as damaged reaches the packet layer, failing register
\* accesses included; and although sx1278_send_payload loads its frame over what was
\* received, where accesses work the node never reads its own bytes as a reception.
THEOREM DamagedIsWithheld == Spec => []NoDamagedContent
<1>1. IInv => NoDamagedContent
  BY DEF IInv, Reading
<1> QED
  BY Inductive, <1>1, PTL

\* Where accesses work, sx1278_poll_and_read_packet leaves the radio in standby,
\* however it ends, and no flags but those of an answer that came after the timeout,
\* whose frame then is the one a read would return.
THEOREM ReceptionIsCleanedUp == Spec => []ReceptionEndsClean
<1>1. IInv => ReceptionEndsClean
  BY DEF IInv, Receiving, Late, ReceptionEndsClean
<1> QED
  BY Inductive, <1>1, PTL

-----------------------------------------------------------------------------
(* Programs that send, poll and read, and make no further call after one   *)
(* that failed.                                                            *)

\* What is on its way out is the frame of the call made last, and nothing that
\* arrived before that call is still flagged when it ends.
Careful ==
  /\ mode # "RX_SINGLE"
  /\ mode = "TX" => call.op = "send_payload" /\ tx_slot = calls /\ NotAired
  /\ pc = "tx_next" => "RxDone" \notin irq

\* A program that has made no call may start to listen.
LEMMA IdleRadioListens ==
  ASSUME IInv, pc = "idle", ret = "none", switch_mode("RX_CONTINUOUS"), UNCHANGED driverVars
  PROVE  IInv'
<1>1. mode' = "RX_CONTINUOUS" /\ UNCHANGED <<irq, rx_slot, tx_slot, aired, received>>
  BY DEF switch_mode
<1>2. UNCHANGED <<pc, call, irq_seen, expired, got, ret, calls, spi_fails>>
  BY DEF driverVars
<1>3. TypeOK'
  BY <1>1, <1>2 DEF IInv, TypeOK, Modes
<1>4. Places'
  BY <1>2 DEF IInv, Places
<1>5. Sending'
  BY <1>1, <1>2 DEF IInv, Sending, Returned, NotAired, AiredLast
<1>6. Reading'
  BY <1>1, <1>2 DEF IInv, Reading, Returned, NoDamagedContent
<1>7. Receiving'
  BY <1>1, <1>2 DEF IInv, Receiving
<1> QED
  BY <1>3, <1>4, <1>5, <1>6, <1>7 DEF IInv

\* From the end of a transmission until a frame has been read.
Waiting ==
  \/ Returned("send_payload", "SX_OK")
  \/ call.op = "poll_for_irq_flag"
  \/ call.op = "read_last_payload" /\ pc # "idle"

ReadSomething == Returned("read_last_payload", "SX_OK") /\ got \notin {Blank, Own}

\* A step within a call finds no frame that the chip has not flagged.
Advances ==
  /\ UNCHANGED <<call, calls, aired, received, spi_fails>>
  /\ Waiting' /\ "RxDone" \in irq' => Waiting /\ "RxDone" \in irq
  /\ ReadSomething' => Waiting /\ "RxDone" \in irq /\ got' = rx_slot

LEMMA DriverStepIsWithinCall == DriverStep => pc # "idle"
BY DEF DriverStep, ListenFirst, ListenClear, ListenStart, SendStdby, SendLoad, SendClear, SendStart, SendClearDone, SendNext,
       PollFlag, PollClock, RxSingle, RxStdby, CleanupClear, CleanupStdby, ReadStdby,
       ReadIrq, ReadCheck, ReadLen, ReadFifo, ReadNothing, ParsePacket, At

LEMMA DriverAdvances ==
  ASSUME IInv, Careful, DriverStep, call.op \notin {"poll_and_read_packet", "listen"}
  PROVE  Careful' /\ Advances
<1> USE DEF Careful, Advances, Waiting, ReadSomething, Returned, NotAired, IInv, Places, Blank, Own
<1>1. CASE SendStdby
  BY <1>1 DEF SendStdby, At, Goto, Return, Fails, switch_mode, chipVars, Sending, Reading, TypeOK
<1>2. CASE SendLoad
  BY <1>2 DEF SendLoad, At, Goto, Return, Sending, Reading, TypeOK
<1>3. CASE SendClear
  BY <1>3 DEF SendClear, At, Goto, Return, Fails, clear_irq, chipVars, Sending, Reading, TypeOK
<1>4. CASE SendStart
  BY <1>4 DEF SendStart, At, Goto, Return, Fails, switch_mode, chipVars, Sending, Reading, TypeOK
<1>5. CASE SendClearDone
  BY <1>5 DEF SendClearDone, At, Goto, Return, Fails, clear_irq, chipVars, Sending, Reading, TypeOK
<1>6. CASE SendNext
  BY <1>6 DEF SendNext, At, Return, Fails, switch_mode, chipVars, Sending, Reading, TypeOK
<1>7. CASE PollFlag
  BY <1>7 DEF PollFlag, At, Goto, Return, clear_irq, PollMask, PollLeaves, PollReturns, chipVars, Sending, Reading, TypeOK
<1>8. CASE PollClock
  BY <1>8 DEF PollClock, At, Goto, Return, clear_irq, PollLeaves, PollReturns, chipVars, Sending, Reading, TypeOK
<1>9. CASE RxSingle
  BY <1>9 DEF RxSingle, At, Goto, Fails, switch_mode, chipVars, Sending, Reading, TypeOK
<1>10. CASE RxStdby
  BY <1>10 DEF RxStdby, At, Goto, Fails, switch_mode, chipVars, Sending, Reading, TypeOK
<1>11. CASE CleanupClear \/ CleanupStdby
  BY <1>11 DEF CleanupClear, CleanupStdby, At
<1>12. CASE ReadStdby
  BY <1>12 DEF ReadStdby, At, Goto, Fails, switch_mode, ReadReturns, chipVars, Sending, Reading, TypeOK
<1>13. CASE ReadIrq
  BY <1>13 DEF ReadIrq, Goto, Fails, ReadReturns, chipVars, Sending, Reading, TypeOK
<1>14. CASE ReadCheck
  BY <1>14 DEF ReadCheck, At, Goto, Fails, clear_irq, ReadReturns, ClearOnError, chipVars, Sending, Reading, TypeOK
<1>15. CASE ReadLen
  BY <1>15 DEF ReadLen, At, Goto, chipVars, Sending, Reading, TypeOK
<1>16. CASE ReadFifo
  BY <1>16 DEF ReadFifo, At, Fails, clear_irq, ReadReturns, ClearOnError, chipVars, Sending, Reading, TypeOK
<1>17. CASE ReadNothing
  BY <1>17 DEF ReadNothing, At, Fails, clear_irq, ReadReturns, ClearOnError, chipVars, Sending, Reading, TypeOK
<1>18. CASE ParsePacket
  BY <1>18 DEF ParsePacket, At, Fails, clear_irq, ClearOnError, chipVars, Sending, Reading, TypeOK
<1>19. CASE ListenFirst \/ ListenClear \/ ListenStart
  BY <1>19 DEF ListenFirst, ListenClear, ListenStart, At
<1> QED
  BY <1>1, <1>2, <1>3, <1>4, <1>5, <1>6, <1>7, <1>8, <1>9, <1>10, <1>11, <1>12, <1>13,
     <1>14, <1>15, <1>16, <1>17, <1>18, <1>19 DEF DriverStep
=============================================================================
