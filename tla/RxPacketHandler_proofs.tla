----------------------- MODULE RxPacketHandler_proofs -----------------------
(***************************************************************************)
(* Proofs about the packet handler for every width of the sequence space,  *)
(* every set of addresses, ack_ids and payloads, and every packet that may *)
(* arrive.                                                                 *)
(***************************************************************************)
EXTENDS RxPacketHandler, SequenceTheorems, TLAPS

\* Facts about the parameters that every proof below uses.
LEMMA Parameters ==
  /\ UINT8_MAX \in Nat
  /\ PACKET_CAPTURE_MAX_COUNT \in Nat \ {0}
  /\ PACKET_CAPTURE_MAX_COUNT < UINT8_MAX
  /\ 0 \in UInt8 /\ 0 \in AckIds /\ AckIds \subseteq Nat
  /\ host_addr \in Addrs /\ 0 \in Addrs /\ Remotes \subseteq Addrs
BY UInt8Assumption, AckIdAssumption, AddrAssumption, HostAssumption
   DEF PACKET_CAPTURE_MAX_COUNT, UInt8

\* The fields of a packet that may arrive.
LEMMA ArrivalFields ==
  ASSUME NEW p \in Arrivals
  PROVE  /\ p \in Packets
         /\ p.ack_id \in AckIds
         /\ p.sequence_number \in UInt8
BY ArrivalsAssumption DEF Packets

\* The prefix of the array that the handler presents is a sequence of
\* captured_n packets.
LEMMA CapturedIsSeq ==
  ASSUME TypeOK, CapturedInOrder
  PROVE  /\ Captured \in Seq(Packets)
         /\ Len(Captured) = captured_n
         /\ \A i \in 1..captured_n: Captured[i] = captured_packet_arr[i - 1]
<1>1. captured_n \in Nat
  BY Parameters DEF TypeOK
<1>2. \A i \in 1..captured_n: captured_packet_arr[i - 1] \in Packets
  <2> TAKE i \in 1..captured_n
  <2>1. i - 1 \in 0..(captured_n - 1)
    BY <1>1
  <2>2. captured_packet_arr[i - 1] \in Fragments
    BY <2>1 DEF CapturedInOrder
  <2> QED
    BY <2>2, ArrivalsAssumption DEF Fragments
<1> QED
  BY <1>1, <1>2 DEF Captured

IInv == TypeOK /\ CapturedInOrder /\ IdleIsReset

-----------------------------------------------------------------------------
\* The upcall of a step is well typed.
LEMMA UpcallTypes ==
  /\ NoUpcall \in [kind: {"none", "command", "end"}, items: Seq(Packets)]
  /\ \A p \in Packets:
       CommandUpcall(p) \in [kind: {"none", "command", "end"}, items: Seq(Packets)]
  /\ \A s \in Seq(Packets):
       EndUpcall(s) \in [kind: {"none", "command", "end"}, items: Seq(Packets)]
BY DEF NoUpcall, CommandUpcall, EndUpcall

\* A zeroed context satisfies the invariant.
LEMMA InitIInv == Init => IInv
<1> SUFFICES ASSUME Init PROVE IInv
  OBVIOUS
<1>1. TypeOK
  <2>1. upcall \in [kind: {"none", "command", "end"}, items: Seq(Packets)]
    BY UpcallTypes DEF Init
  <2>2. ret \in ReturnCodes
    BY DEF Init, ReturnCodes
  <2>3. captured_packet_arr \in [Slots -> Packets \cup {NULL}]
    BY DEF Init
  <2>4. captured_n \in 0..PACKET_CAPTURE_MAX_COUNT
    BY Parameters DEF Init
  <2> QED
    BY <2>1, <2>2, <2>3, <2>4, Parameters DEF Init, TypeOK
<1>2. CapturedInOrder
  BY DEF Init, CapturedInOrder
<1>3. IdleIsReset
  BY DEF Init, IdleIsReset
<1> QED
  BY <1>1, <1>2, <1>3 DEF IInv

\* No step breaks the invariant.
LEMMA NextIInv == IInv /\ [Next]_vars => IInv'
<1> SUFFICES ASSUME IInv, [Next]_vars PROVE IInv'
  OBVIOUS
<1> USE Parameters, UpcallTypes DEF IInv
<1>1. ASSUME NEW r \in Remotes, rx_handler_init(r) PROVE IInv'
  <2>1. TypeOK'
    <3>1. ret' \in ReturnCodes
      BY <1>1 DEF rx_handler_init, ReturnCodes
    <3>2. captured_packet_arr' \in [Slots -> Packets \cup {NULL}]
      BY <1>1 DEF rx_handler_init
    <3>3. captured_n' \in 0..PACKET_CAPTURE_MAX_COUNT
      BY <1>1 DEF rx_handler_init
    <3> QED
      BY <1>1, <3>1, <3>2, <3>3 DEF rx_handler_init, TypeOK
  <2>2. CapturedInOrder' /\ IdleIsReset'
    BY <1>1 DEF rx_handler_init, CapturedInOrder, IdleIsReset
  <2> QED
    BY <2>1, <2>2
<1>2. ASSUME NEW r \in Remotes, rx_handler_set_remote_addr(r) PROVE IInv'
  <2> USE <1>2 DEF rx_handler_set_remote_addr, captureVars, dedupVars
  <2>1. TypeOK'
    BY DEF TypeOK, ReturnCodes
  <2>2. CapturedInOrder' /\ IdleIsReset'
    BY DEF CapturedInOrder, IdleIsReset
  <2> QED
    BY <2>1, <2>2
<1>3. ASSUME rx_handler_reset PROVE IInv'
  <2> USE <1>3 DEF rx_handler_reset, ResetCapture, dedupVars
  <2>1. TypeOK'
    <3>1. ret' \in ReturnCodes /\ captured_n' \in 0..PACKET_CAPTURE_MAX_COUNT
      BY DEF ReturnCodes
    <3> QED
      BY <3>1 DEF TypeOK
  <2>2. CapturedInOrder' /\ IdleIsReset'
    BY DEF CapturedInOrder, IdleIsReset
  <2> QED
    BY <2>1, <2>2
<1>4. ASSUME UNCHANGED ctx, ret' \in ReturnCodes, upcall' = NoUpcall PROVE IInv'
  <2> USE <1>4 DEF ctx, captureVars, dedupVars
  <2>1. TypeOK'
    BY DEF TypeOK
  <2>2. CapturedInOrder' /\ IdleIsReset'
    BY DEF CapturedInOrder, IdleIsReset
  <2> QED
    BY <2>1, <2>2
<1>5. ASSUME NotConfigured \/ NullPacket PROVE IInv'
  BY <1>4, <1>5 DEF NotConfigured, NullPacket, Return, ReturnCodes
<1>6. ASSUME NEW p \in Arrivals, rx_packet_handler(p) PROVE IInv'
  <2> USE ArrivalFields
  <2>1. CASE WrongAddress(p) \/ RedundantPacket(p)
    BY <1>4, <2>1 DEF WrongAddress, RedundantPacket, Return, ReturnCodes
  <2>2. ASSUME Accept(p), UNCHANGED captureVars, ret' \in ReturnCodes,
               upcall' \in [kind: {"none", "command", "end"}, items: Seq(Packets)]
        PROVE  IInv'
    <3> USE <2>2 DEF Accept, captureVars
    <3>1. TypeOK'
      BY DEF TypeOK
    <3>2. CapturedInOrder' /\ IdleIsReset'
      BY DEF CapturedInOrder, IdleIsReset
    <3> QED
      BY <3>1, <3>2
  <2>3. CASE HandleBegin(p)
    <3>1. CASE capture
      BY <2>2, <2>3, <3>1 DEF HandleBegin, Return, ReturnCodes
    <3>2. CASE ~capture
      <4> USE <2>3, <3>2 DEF HandleBegin, Accept, Return
      <4>1. TypeOK'
        BY DEF TypeOK, ReturnCodes
      <4>2. CapturedInOrder' /\ IdleIsReset'
        BY DEF CapturedInOrder, IdleIsReset
      <4> QED
        BY <4>1, <4>2
    <3> QED
      BY <3>1, <3>2
  <2>4. CASE CaptureData(p)
    <3> USE <2>4 DEF CaptureData, ArrayFull, NextInSequence, Accept, Return
    <3>1. captured_n \in Slots /\ captured_n \in Nat
      BY DEF TypeOK, Slots
    <3>2. TypeOK'
      BY <3>1 DEF TypeOK, ReturnCodes, Slots
    <3>3. p \in Fragments /\ p.dest_address = host_addr
      BY DEF Fragments, ForUs
    <3>4. ASSUME NEW i \in 0..(captured_n' - 1)
          PROVE  /\ captured_packet_arr'[i] \in Fragments
                 /\ captured_packet_arr'[i].sequence_number = i + 1
                 /\ captured_packet_arr'[i].ack_id = capture_ack_id
                 /\ captured_packet_arr'[i].dest_address = host_addr
      <4>1. CASE i = captured_n
        BY <3>1, <3>3, <4>1 DEF TypeOK, OfThisCapture
      <4>2. CASE i # captured_n
        <5>1. i \in 0..(captured_n - 1) /\ i \in Slots
          BY <3>1, <4>2 DEF Slots
        <5>2. captured_packet_arr'[i] = captured_packet_arr[i]
          BY <5>1, <4>2 DEF TypeOK
        <5> QED
          BY <5>1, <5>2 DEF CapturedInOrder
      <4> QED
        BY <4>1, <4>2
    <3>5. CapturedInOrder'
      BY <3>4 DEF CapturedInOrder, Fragments
    <3>6. IdleIsReset'
      BY DEF IdleIsReset, OfThisCapture
    <3> QED
      BY <3>2, <3>5, <3>6
  <2>5. CASE RefuseData(p)
    BY <2>2, <2>5 DEF RefuseData, Return, ReturnCodes
  <2>6. CASE DataOutsideCapture(p)
    BY <2>2, <2>6 DEF DataOutsideCapture, Return, ReturnCodes
  <2>7. CASE HandleEnd(p)
    <3>1. CASE ~capture
      BY <2>2, <2>7, <3>1 DEF HandleEnd, Return, ReturnCodes
    <3>2. CASE capture
      <4> USE <2>7, <3>2 DEF HandleEnd, Accept, ResetCapture
      <4>1. upcall' \in [kind: {"none", "command", "end"}, items: Seq(Packets)]
        BY CapturedIsSeq
      <4>2. ret' \in ReturnCodes /\ captured_n' \in 0..PACKET_CAPTURE_MAX_COUNT
        BY DEF ReturnCodes
      <4>3. TypeOK'
        BY <4>1, <4>2 DEF TypeOK
      <4>4. CapturedInOrder' /\ IdleIsReset'
        BY DEF CapturedInOrder, IdleIsReset
      <4> QED
        BY <4>3, <4>4
    <3> QED
      BY <3>1, <3>2
  <2>8. CASE HandleUnknown(p)
    BY <2>2, <2>8 DEF HandleUnknown, Return, ReturnCodes
  <2> QED
    BY <1>6, <2>1, <2>3, <2>4, <2>5, <2>6, <2>7, <2>8 DEF rx_packet_handler
<1>7. CASE UNCHANGED vars
  <2> USE <1>7 DEF vars, ctx, captureVars, dedupVars
  <2>1. TypeOK'
    BY DEF TypeOK
  <2>2. CapturedInOrder' /\ IdleIsReset'
    BY DEF CapturedInOrder, IdleIsReset
  <2> QED
    BY <2>1, <2>2
<1> QED
  BY <1>1, <1>2, <1>3, <1>5, <1>6, <1>7 DEF Next

\* The handler's variables keep their types: in particular captured_n never
\* exceeds the array.
THEOREM TypeCorrect == Spec => []TypeOK
<1>1. IInv => TypeOK
  BY DEF IInv
<1> QED
  BY <1>1, InitIInv, NextIInv, PTL DEF Spec

\* At all times the captured fragments are 1..captured_n of the running
\* capture, in order, and there are none when no capture runs.
THEOREM CaptureCorrect == Spec => [](CapturedInOrder /\ IdleIsReset)
<1>1. IInv => CapturedInOrder /\ IdleIsReset
  BY DEF IInv
<1> QED
  BY <1>1, InitIInv, NextIInv, PTL DEF Spec

-----------------------------------------------------------------------------
\* The disjuncts of Next, a step of any of which proves a goal.
LEMMA StepCases ==
  ASSUME [Next]_vars
  PROVE  \/ \E r \in Remotes: rx_handler_init(r) \/ rx_handler_set_remote_addr(r)
         \/ rx_handler_reset
         \/ NotConfigured \/ NullPacket
         \/ \E p \in Arrivals:
              \/ WrongAddress(p) \/ RedundantPacket(p) \/ HandleBegin(p)
              \/ CaptureData(p) \/ RefuseData(p) \/ DataOutsideCapture(p)
              \/ HandleEnd(p) \/ HandleUnknown(p)
         \/ UNCHANGED vars
BY DEF Next, rx_packet_handler

\* Only an END packet that closes a capture makes the end call-back.
LEMMA EndUpcallStep ==
  ASSUME IInv, [Next]_vars, upcall'.kind = "end"
  PROVE  \/ capture /\ upcall' = EndUpcall(Captured)
         \/ upcall' = upcall
<1> USE DEF Return, NoUpcall
<1>1. ASSUME \/ \E r \in Remotes: rx_handler_init(r) \/ rx_handler_set_remote_addr(r)
             \/ rx_handler_reset \/ NotConfigured \/ NullPacket
      PROVE  FALSE
  BY <1>1 DEF rx_handler_init, rx_handler_set_remote_addr, rx_handler_reset,
              NotConfigured, NullPacket
<1>2. ASSUME NEW p \in Arrivals,
             \/ WrongAddress(p) \/ RedundantPacket(p) \/ HandleBegin(p)
             \/ CaptureData(p) \/ RefuseData(p) \/ HandleUnknown(p)
      PROVE  FALSE
  BY <1>2 DEF WrongAddress, RedundantPacket, HandleBegin, CaptureData, RefuseData,
              HandleUnknown
<1>3. ASSUME NEW p \in Arrivals, DataOutsideCapture(p)
      PROVE  FALSE
  BY <1>3 DEF DataOutsideCapture, CommandUpcall
<1>4. ASSUME NEW p \in Arrivals, HandleEnd(p)
      PROVE  capture /\ upcall' = EndUpcall(Captured)
  BY <1>4 DEF HandleEnd
<1>5. ASSUME UNCHANGED vars
      PROVE  upcall' = upcall
  BY <1>5 DEF vars
<1> QED
  BY StepCases, <1>1, <1>2, <1>3, <1>4, <1>5

\* Whatever the end handler is given is an in-order, gap-free prefix of one
\* transfer.
THEOREM DeliveryCorrect == Spec => []DeliveredInOrder
<1>1. Init => DeliveredInOrder
  BY DEF Init, DeliveredInOrder, NoUpcall
<1>2. IInv /\ DeliveredInOrder /\ [Next]_vars => DeliveredInOrder'
  <2> SUFFICES ASSUME IInv, DeliveredInOrder, [Next]_vars, upcall'.kind = "end",
                      NEW i \in DOMAIN upcall'.items
               PROVE  /\ upcall'.items[i].sequence_number = i
                      /\ upcall'.items[i].ack_id = upcall'.items[1].ack_id
    BY DEF DeliveredInOrder
  <2>1. CASE upcall' = upcall
    BY <2>1 DEF DeliveredInOrder
  <2>2. CASE upcall' = EndUpcall(Captured)
    <3>1. upcall'.items = Captured
      BY <2>2 DEF EndUpcall
    <3>2. captured_n \in Nat /\ Len(Captured) = captured_n /\ Captured \in Seq(Packets)
      BY CapturedIsSeq, Parameters DEF IInv, TypeOK
    <3>3. DOMAIN Captured = 1..captured_n
      BY <3>2
    <3>4. i \in 1..captured_n /\ 1 \in 1..captured_n
      BY <3>1, <3>2, <3>3
    <3>5. \A k \in 1..captured_n: /\ Captured[k].sequence_number = k
                                  /\ Captured[k].ack_id = capture_ack_id
      <4> TAKE k \in 1..captured_n
      <4>1. k - 1 \in 0..(captured_n - 1) /\ (k - 1) + 1 = k
        BY <3>2
      <4>2. Captured[k] = captured_packet_arr[k - 1]
        BY CapturedIsSeq DEF IInv
      <4> QED
        BY <4>1, <4>2 DEF IInv, CapturedInOrder
    <3> QED
      BY <3>1, <3>4, <3>5
  <2> QED
    BY EndUpcallStep, <2>1, <2>2
<1> QED
  BY <1>1, <1>2, InitIInv, NextIInv, PTL DEF Spec

-----------------------------------------------------------------------------
\* A step of a running capture keeps every fragment it has.
THEOREM GrowthCorrect == Spec => CaptureOnlyGrows
<1>1. IInv /\ [Next]_vars =>
        [capture /\ capture' =>
           /\ capture_ack_id' = capture_ack_id
           /\ captured_n' \in {captured_n, captured_n + 1}
           /\ \A i \in 0..(captured_n - 1):
                captured_packet_arr'[i] = captured_packet_arr[i]]_vars
  <2> SUFFICES ASSUME IInv, [Next]_vars, capture, capture'
               PROVE  /\ capture_ack_id' = capture_ack_id
                      /\ captured_n' \in {captured_n, captured_n + 1}
                      /\ \A i \in 0..(captured_n - 1):
                           captured_packet_arr'[i] = captured_packet_arr[i]
    OBVIOUS
  <2>1. CASE UNCHANGED captureVars
    BY <2>1 DEF captureVars
  <2>2. ASSUME NEW p \in Arrivals, CaptureData(p)
        PROVE  /\ capture_ack_id' = capture_ack_id
               /\ captured_n' = captured_n + 1
               /\ \A i \in 0..(captured_n - 1):
                    captured_packet_arr'[i] = captured_packet_arr[i]
    <3>1. captured_n \in Nat
      BY Parameters DEF IInv, TypeOK
    <3>2. \A i \in 0..(captured_n - 1): i # captured_n /\ i \in Slots
      BY <3>1, Parameters DEF IInv, TypeOK, Slots
    <3> QED
      BY <2>2, <3>2 DEF CaptureData, IInv, TypeOK
  <2>3. UNCHANGED captureVars \/ \E p \in Arrivals: CaptureData(p)
    BY StepCases
       DEF rx_handler_init, rx_handler_set_remote_addr, rx_handler_reset,
           ResetCapture, NotConfigured, NullPacket, WrongAddress, RedundantPacket,
           HandleBegin, RefuseData, DataOutsideCapture, HandleEnd, HandleUnknown,
           ctx, vars
  <2> QED
    BY <2>1, <2>2, <2>3
<1> QED
  BY <1>1, InitIInv, NextIInv, PTL DEF Spec, CaptureOnlyGrows

-----------------------------------------------------------------------------
\* If no acknowledgement-typed packet arrives, the duplicate filter never
\* takes the fragment the capture waits for as a repetition.
THEOREM LockoutFree ==
  ASSUME NoAcksArrive
  PROVE  Spec => []NoFragmentLockout
<1>1. Init => NoFragmentLockout
  BY DEF Init, NoFragmentLockout
<1>2. IInv /\ NoFragmentLockout /\ [Next]_vars => NoFragmentLockout'
  <2> SUFFICES ASSUME IInv, NoFragmentLockout, [Next]_vars
               PROVE  NoFragmentLockout'
    OBVIOUS
  <2> USE Parameters, ArrivalFields
  <2>1. captured_n \in Nat
    BY DEF IInv, TypeOK
  <2>2. CASE UNCHANGED <<capture, capture_ack_id, captured_n, dedupVars>>
    BY <2>2 DEF NoFragmentLockout, dedupVars
  <2>3. CASE capture' = FALSE
    BY <2>3 DEF NoFragmentLockout
  <2>4. ASSUME NEW p \in Arrivals, HandleBegin(p)
        PROVE  NoFragmentLockout'
    <3>1. p.sequence_number = 0
      BY <2>4 DEF HandleBegin, check_packet_type
    <3>2. captured_n' \in Nat
      BY <2>1, <2>4 DEF HandleBegin, captureVars
    <3>3. last_received_seq_number' = 0
      BY <2>4, <3>1 DEF HandleBegin, Accept
    <3>4. captured_n' + 1 # 0
      <4>1. \A n \in Nat: n + 1 # 0
        OBVIOUS
      <4> QED
        BY <3>2, <4>1
    <3>5. last_received_seq_number' # captured_n' + 1
      BY <3>3, <3>4
    <3> QED
      BY <3>5 DEF NoFragmentLockout
  <2>5. ASSUME NEW p \in Arrivals, CaptureData(p)
        PROVE  NoFragmentLockout'
    BY <2>1, <2>5 DEF CaptureData, NextInSequence, Accept, NoFragmentLockout
  <2>6. ASSUME NEW p \in Arrivals, RefuseData(p)
        PROVE  NoFragmentLockout'
    BY <2>1, <2>6 DEF RefuseData, ArrayFull, NextInSequence, Accept, captureVars,
                      NoFragmentLockout
  <2>7. ASSUME NEW p \in Arrivals, DataOutsideCapture(p)
        PROVE  NoFragmentLockout'
    BY <2>1, <2>7 DEF DataOutsideCapture, OfThisCapture, Accept, captureVars,
                      NoFragmentLockout
  <2>8. ASSUME NEW p \in Arrivals, HandleEnd(p)
        PROVE  NoFragmentLockout'
    BY <2>8 DEF HandleEnd, ResetCapture, captureVars, NoFragmentLockout
  <2>9. ASSUME NEW p \in Arrivals
        PROVE  ~HandleUnknown(p)
    BY DEF NoAcksArrive, HandleUnknown
  <2>10. \/ UNCHANGED <<capture, capture_ack_id, captured_n, dedupVars>>
         \/ capture' = FALSE
         \/ \E p \in Arrivals:
              \/ HandleBegin(p) \/ CaptureData(p) \/ RefuseData(p)
              \/ DataOutsideCapture(p) \/ HandleEnd(p) \/ HandleUnknown(p)
    BY StepCases
       DEF rx_handler_init, rx_handler_set_remote_addr, rx_handler_reset,
           ResetCapture, NotConfigured, NullPacket, WrongAddress, RedundantPacket,
           captureVars, dedupVars, ctx, vars
  <2> QED
    BY <2>2, <2>3, <2>4, <2>5, <2>6, <2>7, <2>8, <2>9, <2>10
<1> QED
  BY <1>1, <1>2, InitIInv, NextIInv, PTL DEF Spec

-----------------------------------------------------------------------------
\* A zeroed context is a session that has not been opened.
LEMMA SessionInit == Init => Session!Init
BY DEF Init, Session!Init, Captured, NoUpcall, Session!NoUpcall

\* Calls that leave the capture alone and make no call-back.
LEMMA SessionIgnore ==
  ASSUME UNCHANGED captureVars, upcall' = NoUpcall
  PROVE  Session!Ignore
<1>1. Captured' = Captured
  BY DEF captureVars, Captured
<1> QED
  BY <1>1 DEF captureVars, Session!Ignore, NoUpcall, Session!NoUpcall

\* Calls that leave no capture behind.
LEMMA SessionFinish ==
  ASSUME capture' = FALSE, capture_ack_id' = 0, captured_n' = 0
  PROVE  Session!Finish
BY DEF Session!Finish, Captured

\* Every step of the handler is a step of the session, or none.
LEMMA SessionNext == IInv /\ IInv' /\ [Next]_vars => [Session!Next]_(Session!vars)
<1> SUFFICES ASSUME IInv, IInv', [Next]_vars
             PROVE  Session!Next \/ UNCHANGED Session!vars
  OBVIOUS
<1> USE Parameters DEF Return
<1>1. ASSUME NEW r \in Remotes, rx_handler_init(r)
      PROVE  Session!Next
  BY <1>1, SessionFinish
     DEF rx_handler_init, NoUpcall, Session!NoUpcall, Session!Abandon, Session!Next
<1>2. ASSUME rx_handler_reset
      PROVE  Session!Next
  BY <1>2, SessionFinish
     DEF rx_handler_reset, ResetCapture, NoUpcall, Session!NoUpcall, Session!Abandon,
         Session!Next
<1>3. ASSUME UNCHANGED captureVars, upcall' = NoUpcall
      PROVE  Session!Next
  BY <1>3, SessionIgnore DEF Session!Next
<1>4. ASSUME NEW p \in Arrivals, HandleBegin(p)
      PROVE  Session!Next
  <2>1. CASE capture
    BY <1>3, <1>4, <2>1 DEF HandleBegin
  <2>2. CASE ~capture
    <3>1. Captured' = <<>>
      BY <1>4, <2>2 DEF HandleBegin, Captured
    <3>2. Session!Open(p.ack_id)
      BY <1>4, <2>2, <3>1
         DEF HandleBegin, Session!Open, NoUpcall, Session!NoUpcall
    <3> QED
      BY <3>2, ArrivalFields DEF Session!Next
  <2> QED
    BY <2>1, <2>2
<1>5. ASSUME NEW p \in Arrivals, CaptureData(p)
      PROVE  Session!Next
  <2>1. /\ captured_n \in Nat /\ captured_n' = captured_n + 1
        /\ captured_n \in Slots
    BY <1>5 DEF CaptureData, ArrayFull, IInv, TypeOK, Slots
  <2>2. /\ Captured \in Seq(Packets) /\ Len(Captured) = captured_n
        /\ \A i \in 1..captured_n: Captured[i] = captured_packet_arr[i - 1]
    BY CapturedIsSeq DEF IInv
  <2>3. Captured' = Append(Captured, p)
    <3>1. Captured' = [i \in 1..(captured_n + 1) |-> captured_packet_arr'[i - 1]]
      BY <2>1 DEF Captured
    <3>2. Append(Captured, p)
            = [i \in 1..(captured_n + 1) |-> IF i \in 1..captured_n THEN Captured[i] ELSE p]
      <4>1. /\ Append(Captured, p) \in Seq(Packets)
            /\ Len(Append(Captured, p)) = captured_n + 1
            /\ \A i \in 1..captured_n: Append(Captured, p)[i] = Captured[i]
            /\ Append(Captured, p)[captured_n + 1] = p
        BY <2>1, <2>2, ArrivalFields, AppendProperties
      <4>2. Append(Captured, p)
              = [i \in 1..(captured_n + 1) |-> Append(Captured, p)[i]]
        BY <4>1, SeqDef, LenProperties
      <4>3. \A i \in 1..(captured_n + 1):
              Append(Captured, p)[i] = IF i \in 1..captured_n THEN Captured[i] ELSE p
        BY <2>1, <4>1
      <4> QED
        BY <4>2, <4>3
    <3>3. ASSUME NEW i \in 1..(captured_n + 1)
          PROVE  captured_packet_arr'[i - 1] = IF i \in 1..captured_n THEN Captured[i] ELSE p
      <4>1. CASE i = captured_n + 1
        <5>1. i - 1 = captured_n /\ i \notin 1..captured_n
          BY <2>1, <4>1
        <5>2. captured_packet_arr'[captured_n] = p
          BY <1>5, <2>1 DEF CaptureData, IInv, TypeOK
        <5> QED
          BY <5>1, <5>2
      <4>2. CASE i # captured_n + 1
        <5>1. i \in 1..captured_n /\ i - 1 \in Slots /\ i - 1 # captured_n
          BY <2>1, <4>2 DEF Slots
        <5>2. captured_packet_arr'[i - 1] = captured_packet_arr[i - 1]
          BY <1>5, <5>1 DEF CaptureData, IInv, TypeOK
        <5> QED
          BY <2>2, <5>1, <5>2
      <4> QED
        BY <4>1, <4>2
    <3> QED
      BY <3>1, <3>2, <3>3
  <2>4. p \in Fragments
    BY <1>5 DEF CaptureData, Fragments
  <2>5. Session!Take(p)
    BY <1>5, <2>1, <2>2, <2>3
       DEF CaptureData, ArrayFull, NextInSequence, OfThisCapture, Session!Take, NoUpcall, Session!NoUpcall
  <2> QED
    BY <2>4, <2>5 DEF Session!Next
<1>6. ASSUME NEW p \in Arrivals, RefuseData(p)
      PROVE  Session!Next
  BY <1>3, <1>6 DEF RefuseData
<1>7. ASSUME NEW p \in Arrivals, DataOutsideCapture(p)
      PROVE  Session!Next
  <2>1. CASE p.ack_id = capture_ack_id
    BY <1>3, <1>7, <2>1 DEF DataOutsideCapture
  <2>2. CASE p.ack_id # capture_ack_id
    <3>1. p \in Fragments
      BY <1>7 DEF DataOutsideCapture, Fragments
    <3>2. Captured' = Captured
      BY <1>7 DEF DataOutsideCapture, captureVars, Captured
    <3>3. Session!Command(p)
      BY <1>7, <2>2, <3>2
         DEF DataOutsideCapture, captureVars, Session!Command, CommandUpcall,
             Session!CommandUpcall
    <3> QED
      BY <3>1, <3>3 DEF Session!Next
  <2> QED
    BY <2>1, <2>2
<1>8. ASSUME NEW p \in Arrivals, HandleEnd(p)
      PROVE  Session!Next
  <2>1. CASE ~capture
    BY <1>3, <1>8, <2>1 DEF HandleEnd
  <2>2. CASE capture
    <3>1. Session!Finish
      BY <1>8, <2>2, SessionFinish DEF HandleEnd, ResetCapture
    <3>2. Session!Close
      BY <1>8, <2>2, <3>1 DEF HandleEnd, Session!Close, EndUpcall, Session!EndUpcall
    <3> QED
      BY <3>2 DEF Session!Next
  <2> QED
    BY <2>1, <2>2
<1>9. ASSUME NEW p \in Arrivals, WrongAddress(p) \/ RedundantPacket(p) \/ HandleUnknown(p)
      PROVE  Session!Next
  BY <1>3, <1>9 DEF WrongAddress, RedundantPacket, HandleUnknown, ctx, captureVars
<1>10. ASSUME \/ NotConfigured \/ NullPacket
              \/ \E r \in Remotes: rx_handler_set_remote_addr(r)
       PROVE  Session!Next
  BY <1>3, <1>10 DEF NotConfigured, NullPacket, rx_handler_set_remote_addr, ctx, captureVars
<1>11. ASSUME UNCHANGED vars
       PROVE  UNCHANGED Session!vars
  BY <1>11 DEF vars, ctx, captureVars, Session!vars, Captured
<1> QED
  BY StepCases, <1>1, <1>2, <1>4, <1>5, <1>6, <1>7, <1>8, <1>9, <1>10, <1>11

\* The packet handler implements the abstract capture session: what the
\* application is handed is exactly what was collected, once per capture.
THEOREM ImplementsSessionCorrect == Spec => ImplementsSession
<1>1. Spec => []IInv
  BY InitIInv, NextIInv, PTL DEF Spec
<1> QED
  BY <1>1, SessionInit, SessionNext, PTL DEF Spec, ImplementsSession, Session!Spec
=============================================================================
