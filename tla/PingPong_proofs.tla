---------------------------- MODULE PingPong_proofs ----------------------------
(***************************************************************************)
(* Why the rounds of the ping-pong cannot be mixed up, for any number of   *)
(* them, on a perfect or a lossy air and with failing register accesses.   *)
(*                                                                         *)
(* What a node's driver does within a call is taken from                   *)
(* Sx127xDriver_proofs, once for each node; what is left is how the two    *)
(* programs' counts of frames relate.                                      *)
(***************************************************************************)
EXTENDS PingPong, SequenceTheorems, TLAPS

SP == INSTANCE Sx127xDriver_proofs
  WITH MaxFrames <- ROUNDS, SpiFaults <- BOOLEAN, CrcErrors <- TRUE,
       mode <- s_mode, irq <- s_irq, rx_slot <- s_rx_slot, tx_slot <- s_tx_slot,
       aired <- s_aired, received <- s_received, pc <- s_pc, call <- s_call,
       irq_seen <- s_irq_seen, expired <- s_expired, got <- s_got, ret <- s_ret,
       calls <- s_calls

RP == INSTANCE Sx127xDriver_proofs
  WITH MaxFrames <- ROUNDS, SpiFaults <- BOOLEAN, CrcErrors <- TRUE,
       mode <- r_mode, irq <- r_irq, rx_slot <- r_rx_slot, tx_slot <- r_tx_slot,
       aired <- r_aired, received <- r_received, pc <- r_pc, call <- r_call,
       irq_seen <- r_irq_seen, expired <- r_expired, got <- r_got, ret <- r_ret,
       calls <- r_calls

-----------------------------------------------------------------------------
(* The invariant.                                                          *)

pings == Len(s_aired)
pongs == Len(r_aired)

\* A program's calls follow the round, and the frames it has aired are those of the
\* rounds so far, with or without the one that it is sending now.
SenderTurn ==
  /\ \/ /\ s_calls = 0 /\ pings = 0
        /\ s_call.op = "read_last_payload" /\ s_pc = "idle" /\ s_ret = "none"
     \/ s_call.op = "send_payload" /\ s_calls = 3 * pings + 1
     \/ s_call.op = "send_payload" /\ s_calls = 3 * pings - 2 /\ pings # 0
     \/ s_call.op = "poll_for_irq_flag" /\ s_calls = 3 * pings - 1 /\ pings # 0
     \/ s_call.op = "read_last_payload" /\ s_calls = 3 * pings /\ pings # 0
  /\ pings # 0 => s_aired[pings] = 3 * pings - 2
  /\ SP!Careful

ReceiverTurn ==
  /\ \/ /\ r_calls = 0 /\ pongs = 0
        /\ r_call.op = "read_last_payload" /\ r_pc = "idle" /\ r_ret = "none"
        /\ r_end = "starting" => r_irq = {} /\ r_mode = "SLEEP"
     \/ r_call.op = "poll_for_irq_flag" /\ r_calls = 3 * pongs + 1
     \/ r_call.op = "read_last_payload" /\ r_calls = 3 * pongs + 2
     \/ r_call.op = "send_payload" /\ r_calls = 3 * pongs + 3
     \/ r_call.op = "send_payload" /\ r_calls = 3 * pongs /\ pongs # 0
  /\ r_end = "starting" => r_calls = 0
  /\ pongs # 0 => r_aired[pongs] = 3 * pongs
  /\ RP!Careful

\* The pong is one behind, or answers the last ping; who is about to send has read the
\* other's last frame.
Counts ==
  /\ pongs <= pings /\ pings <= pongs + 1
  /\ s_calls = 3 * pings + 1 => pongs = pings
  /\ r_calls = 3 * pongs + 3 => pings = pongs + 1

\* What was heard had been aired.
Heard ==
  /\ s_heard \in Seq(Nat) /\ Len(s_heard) = Len(s_received)
  /\ r_heard \in Seq(Nat) /\ Len(r_heard) = Len(r_received)
  /\ \A i \in DOMAIN s_heard: s_heard[i] <= 3 * pongs
  /\ \A i \in DOMAIN r_heard: r_heard[i] + 2 <= 3 * pings

\* The receiver also waits before its first call.
ReceiverWaiting == r_calls = 0 \/ RP!Waiting

\* What is flagged while a node waits for this round's frame is that frame.
InRound ==
  /\ SP!Waiting /\ "RxDone" \in s_irq => s_heard[Len(s_heard)] = 3 * pings
  /\ ReceiverWaiting /\ "RxDone" \in r_irq => r_heard[Len(r_heard)] = 3 * pongs + 1

IInv ==
  /\ SP!IInv /\ RP!IInv
  /\ SenderTurn /\ ReceiverTurn
  /\ Counts /\ Heard /\ InRound
  /\ RoundsMatch /\ PassedMeansAnswered

-----------------------------------------------------------------------------
(* The two nodes' drivers are the driver that the proofs are about.        *)

LEMMA SenderDriverSteps == S!DriverStep => SP!DriverStep
BY DEF S!DriverStep, S!SendStdby, S!SendLoad, S!SendClear, S!SendStart,
       S!SendClearDone, S!SendNext, S!PollFlag, S!PollClock, S!RxSingle,
       S!RxStdby, S!CleanupClear, S!CleanupStdby, S!ListenFirst,
       S!ListenClear, S!ListenStart, S!ReadStdby, S!ReadIrq, S!ReadCheck,
       S!ReadLen, S!ReadFifo, S!ReadNothing, S!ParsePacket, S!At,
       S!Goto, S!Return, S!Fails, S!switch_mode, S!clear_irq,
       S!PollMask, S!PollLeaves, S!PollReturns, S!ReadReturns,
       S!ClearOnError, S!chipVars, S!Blank, S!Own, SP!DriverStep, SP!SendStdby,
       SP!SendLoad, SP!SendClear, SP!SendStart, SP!SendClearDone,
       SP!SendNext, SP!PollFlag, SP!PollClock, SP!RxSingle, SP!RxStdby,
       SP!CleanupClear, SP!CleanupStdby, SP!ListenFirst,
       SP!ListenClear, SP!ListenStart, SP!ReadStdby, SP!ReadIrq, SP!ReadCheck, SP!ReadLen,
       SP!ReadFifo, SP!ReadNothing, SP!ParsePacket, SP!At, SP!Goto,
       SP!Return, SP!Fails, SP!switch_mode, SP!clear_irq, SP!PollMask,
       SP!PollLeaves, SP!PollReturns, SP!ReadReturns, SP!ClearOnError,
       SP!chipVars, SP!Blank, SP!Own

LEMMA ReceiverDriverSteps == R!DriverStep => RP!DriverStep
BY DEF R!DriverStep, R!SendStdby, R!SendLoad, R!SendClear, R!SendStart,
       R!SendClearDone, R!SendNext, R!PollFlag, R!PollClock, R!RxSingle,
       R!RxStdby, R!CleanupClear, R!CleanupStdby, R!ListenFirst,
       R!ListenClear, R!ListenStart, R!ReadStdby, R!ReadIrq, R!ReadCheck,
       R!ReadLen, R!ReadFifo, R!ReadNothing, R!ParsePacket, R!At,
       R!Goto, R!Return, R!Fails, R!switch_mode, R!clear_irq,
       R!PollMask, R!PollLeaves, R!PollReturns, R!ReadReturns,
       R!ClearOnError, R!chipVars, R!Blank, R!Own, RP!DriverStep, RP!SendStdby,
       RP!SendLoad, RP!SendClear, RP!SendStart, RP!SendClearDone,
       RP!SendNext, RP!PollFlag, RP!PollClock, RP!RxSingle, RP!RxStdby,
       RP!CleanupClear, RP!CleanupStdby, RP!ListenFirst,
       RP!ListenClear, RP!ListenStart, RP!ReadStdby, RP!ReadIrq, RP!ReadCheck, RP!ReadLen,
       RP!ReadFifo, RP!ReadNothing, RP!ParsePacket, RP!At, RP!Goto,
       RP!Return, RP!Fails, RP!switch_mode, RP!clear_irq, RP!PollMask,
       RP!PollLeaves, RP!PollReturns, RP!ReadReturns, RP!ClearOnError,
       RP!chipVars, RP!Blank, RP!Own

LEMMA Parameters ==
  /\ MaxCalls \in Nat /\ ROUNDS \in Nat
  /\ BOOLEAN \subseteq BOOLEAN /\ TRUE \in BOOLEAN
BY RoundsAssumption DEF MaxCalls

LEMMA SenderOtherSteps ==
  /\ S!TimerExpires => SP!TimerExpires
  /\ S!ChipTransmits => SP!ChipTransmits
  /\ \A good \in BOOLEAN: S!ChipReceives(good) => SP!ChipReceives(good)
  /\ \A op \in SP!Ops, next \in {"SLEEP", "RX_CONTINUOUS"}:
       S!Call(op, next) => SP!Call(op, next)
<1>1. S!TimerExpires => SP!TimerExpires
  BY DEF S!TimerExpires, SP!TimerExpires, S!chipVars, SP!chipVars
<1>2. S!ChipTransmits => SP!ChipTransmits
  BY DEF S!ChipTransmits, SP!ChipTransmits, S!driverVars, SP!driverVars
<1>3. ASSUME NEW good \in BOOLEAN, S!ChipReceives(good) PROVE SP!ChipReceives(good)
  BY <1>3 DEF S!ChipReceives, SP!ChipReceives, S!driverVars, SP!driverVars,
     S!Blank, SP!Blank
<1>4. ASSUME NEW op \in SP!Ops, NEW next \in {"SLEEP", "RX_CONTINUOUS"}, S!Call(op, next)
      PROVE  SP!Call(op, next)
  BY <1>4 DEF S!Call, SP!Call, S!chipVars, SP!chipVars, S!Blank, SP!Blank
<1> QED
  BY <1>1, <1>2, <1>3, <1>4

\* What one node does is a step of its driver or of its chip; when it does nothing,
\* its driver stutters.
LEMMA SenderKeeps ==
  ASSUME SP!IInv,
         \/ S!DriverStep
         \/ S!TimerExpires
         \/ S!ChipTransmits
         \/ \E good \in BOOLEAN: S!ChipReceives(good)
         \/ \E op \in SP!Ops, next \in {"SLEEP", "RX_CONTINUOUS"}:
              (op # "send_payload" => next = "SLEEP") /\ S!Call(op, next)
         \/ UNCHANGED <<spi_fails, s_radio>>
  PROVE  SP!IInv'
<1>1. [SP!Next]_(SP!vars)
  <2>1. CASE S!DriverStep
    BY <2>1, SenderDriverSteps DEF SP!Next
  <2>2. CASE S!TimerExpires
    BY <2>2, SenderOtherSteps DEF SP!Next
  <2>3. CASE S!ChipTransmits
    BY <2>3, SenderOtherSteps DEF SP!Next, SP!ChipStep
  <2>4. ASSUME NEW good \in BOOLEAN, S!ChipReceives(good) PROVE SP!Next
    <3>1. good \in {TRUE} \cup {~TRUE}
      BY Zenon
    <3> QED
      BY <2>4, <3>1, SenderOtherSteps DEF SP!Next, SP!ChipStep
  <2>5. ASSUME NEW op \in SP!Ops, NEW next \in {"SLEEP", "RX_CONTINUOUS"},
               op # "send_payload" => next = "SLEEP", S!Call(op, next)
        PROVE  SP!Next
    <3>1. SP!Call(op, next)
      BY <2>5, SenderOtherSteps
    <3> QED
      BY <2>5, <3>1 DEF SP!Next
  <2>6. CASE UNCHANGED <<spi_fails, s_radio>>
    BY <2>6 DEF s_radio, SP!vars, SP!chipVars, SP!driverVars
  <2> QED
    BY <2>1, <2>2, <2>3, <2>4, <2>5, <2>6
<1> QED
  BY <1>1, SP!IInvStep, Parameters

LEMMA SenderAdvances ==
  ASSUME SP!IInv, SP!Careful, S!DriverStep, s_call.op \notin {"poll_and_read_packet", "listen"}
  PROVE  SP!Careful' /\ SP!Advances
BY SenderDriverSteps, SP!DriverAdvances, Parameters

LEMMA ReceiverOtherSteps ==
  /\ R!TimerExpires => RP!TimerExpires
  /\ R!ChipTransmits => RP!ChipTransmits
  /\ \A good \in BOOLEAN: R!ChipReceives(good) => RP!ChipReceives(good)
  /\ \A op \in RP!Ops, next \in {"SLEEP", "RX_CONTINUOUS"}:
       R!Call(op, next) => RP!Call(op, next)
<1>1. R!TimerExpires => RP!TimerExpires
  BY DEF R!TimerExpires, RP!TimerExpires, R!chipVars, RP!chipVars
<1>2. R!ChipTransmits => RP!ChipTransmits
  BY DEF R!ChipTransmits, RP!ChipTransmits, R!driverVars, RP!driverVars
<1>3. ASSUME NEW good \in BOOLEAN, R!ChipReceives(good) PROVE RP!ChipReceives(good)
  BY <1>3 DEF R!ChipReceives, RP!ChipReceives, R!driverVars, RP!driverVars,
     R!Blank, RP!Blank
<1>4. ASSUME NEW op \in RP!Ops, NEW next \in {"SLEEP", "RX_CONTINUOUS"}, R!Call(op, next)
      PROVE  RP!Call(op, next)
  BY <1>4 DEF R!Call, RP!Call, R!chipVars, RP!chipVars, R!Blank, RP!Blank
<1> QED
  BY <1>1, <1>2, <1>3, <1>4

\* What one node does is a step of its driver or of its chip; when it does nothing,
\* its driver stutters.
LEMMA ReceiverKeeps ==
  ASSUME RP!IInv,
         \/ R!DriverStep
         \/ R!TimerExpires
         \/ R!ChipTransmits
         \/ \E good \in BOOLEAN: R!ChipReceives(good)
         \/ \E op \in RP!Ops, next \in {"SLEEP", "RX_CONTINUOUS"}:
              (op # "send_payload" => next = "SLEEP") /\ R!Call(op, next)
         \/ UNCHANGED <<spi_fails, r_radio>>
  PROVE  RP!IInv'
<1>1. [RP!Next]_(RP!vars)
  <2>1. CASE R!DriverStep
    BY <2>1, ReceiverDriverSteps DEF RP!Next
  <2>2. CASE R!TimerExpires
    BY <2>2, ReceiverOtherSteps DEF RP!Next
  <2>3. CASE R!ChipTransmits
    BY <2>3, ReceiverOtherSteps DEF RP!Next, RP!ChipStep
  <2>4. ASSUME NEW good \in BOOLEAN, R!ChipReceives(good) PROVE RP!Next
    <3>1. good \in {TRUE} \cup {~TRUE}
      BY Zenon
    <3> QED
      BY <2>4, <3>1, ReceiverOtherSteps DEF RP!Next, RP!ChipStep
  <2>5. ASSUME NEW op \in RP!Ops, NEW next \in {"SLEEP", "RX_CONTINUOUS"},
               op # "send_payload" => next = "SLEEP", R!Call(op, next)
        PROVE  RP!Next
    <3>1. RP!Call(op, next)
      BY <2>5, ReceiverOtherSteps
    <3> QED
      BY <2>5, <3>1 DEF RP!Next
  <2>6. CASE UNCHANGED <<spi_fails, r_radio>>
    BY <2>6 DEF r_radio, RP!vars, RP!chipVars, RP!driverVars
  <2> QED
    BY <2>1, <2>2, <2>3, <2>4, <2>5, <2>6
<1> QED
  BY <1>1, RP!IInvStep, Parameters

LEMMA ReceiverAdvances ==
  ASSUME RP!IInv, RP!Careful, R!DriverStep, r_call.op \notin {"poll_and_read_packet", "listen"}
  PROVE  RP!Careful' /\ RP!Advances
BY ReceiverDriverSteps, RP!DriverAdvances, Parameters

-----------------------------------------------------------------------------
(* Counting.                                                               *)

LEMMA CallsOfARound ==
  ASSUME NEW n \in Nat
  PROVE  /\ SenderCall(3 * n) = "send_payload" /\ ReceiverCall(3 * n) = "poll_for_irq_flag"
         /\ SenderCall(3 * n + 1) = "poll_for_irq_flag"
         /\ ReceiverCall(3 * n + 1) = "read_last_payload"
         /\ SenderCall(3 * n + 2) = "read_last_payload"
         /\ ReceiverCall(3 * n + 2) = "send_payload"
<1>1. (3 * n) % 3 = 0 /\ (3 * n + 1) % 3 = 1 /\ (3 * n + 2) % 3 = 2
  BY SMT
<1> QED
  BY <1>1 DEF SenderCall, ReceiverCall

(* The arithmetic of a round, free of the state: a round is three calls.    *)
LEMMA NextRound ==
  ASSUME NEW n \in Nat
  PROVE  /\ n <= n + 1 /\ n + 1 <= n + 1 /\ n + 1 <= (n + 1) + 1
         /\ 3 * n + 1 # 3 * (n + 1) + 1 /\ 3 * n + 3 # 3 * (n + 1) + 3
  OBVIOUS

(* What was heard early enough for a round is early enough for the next one. *)
LEMMA RoundLater ==
  ASSUME NEW h \in Nat, NEW n \in Nat
  PROVE  /\ h + 2 <= 3 * n => h + 2 <= 3 * (n + 1)
         /\ h <= 3 * n => h <= 3 * (n + 1)
  OBVIOUS

LEMMA Numbers ==
  ASSUME IInv
  PROVE  /\ pings \in Nat /\ DOMAIN s_aired = 1..pings
         /\ pongs \in Nat /\ DOMAIN r_aired = 1..pongs
         /\ s_calls \in 0..MaxCalls /\ r_calls \in 0..MaxCalls
         /\ s_got \in 0..Len(s_heard) \cup {S!Own} /\ DOMAIN s_heard = 1..Len(s_heard)
         /\ r_got \in 0..Len(r_heard) \cup {S!Own} /\ DOMAIN r_heard = 1..Len(r_heard)
         /\ Len(s_heard) \in Nat /\ Len(r_heard) \in Nat
         /\ s_rx_slot \in {Len(s_heard), S!Own} /\ r_rx_slot \in {Len(r_heard), S!Own}
<1>1. /\ s_aired \in Seq(0..MaxCalls) /\ s_calls \in 0..MaxCalls /\ s_calls \in Nat
      /\ s_got \in 0..Len(s_received) \cup {S!Own}
      /\ s_rx_slot \in {Len(s_received), S!Own}
  BY Parameters DEF IInv, SP!IInv, SP!TypeOK, SP!Reading, SP!Own, S!Own
<1>2. /\ r_aired \in Seq(0..MaxCalls) /\ r_calls \in 0..MaxCalls /\ r_calls \in Nat
      /\ r_got \in 0..Len(r_received) \cup {S!Own}
      /\ r_rx_slot \in {Len(r_received), S!Own}
  BY Parameters DEF IInv, RP!IInv, RP!TypeOK, RP!Reading, RP!Own, S!Own
<1>3. /\ s_heard \in Seq(Nat) /\ Len(s_heard) = Len(s_received)
      /\ r_heard \in Seq(Nat) /\ Len(r_heard) = Len(r_received)
  BY DEF IInv, Heard
<1> QED
  BY <1>1, <1>2, <1>3 DEF pings, pongs

\* The four counters are numbers: all that most of the arithmetic below needs.
LEMMA Counters ==
  ASSUME IInv
  PROVE  pings \in Nat /\ pongs \in Nat /\ s_calls \in Nat /\ r_calls \in Nat
<1>1. MaxCalls \in Nat
  BY RoundsAssumption DEF MaxCalls
<1> QED
  BY <1>1, Numbers

LEMMA ReadOkIs ==
  /\ ReadOk(s_pc, s_call, s_ret, s_got) <=> SP!ReadSomething
  /\ ReadOk(r_pc, r_call, r_ret, r_got) <=> RP!ReadSomething
  /\ ReadOk(s_pc, s_call, s_ret, s_got)' <=> SP!ReadSomething'
  /\ ReadOk(r_pc, r_call, r_ret, r_got)' <=> RP!ReadSomething'
BY DEF ReadOk, S!Blank, S!Own, SP!ReadSomething, SP!Returned, SP!Blank, SP!Own,
       RP!ReadSomething, RP!Returned, RP!Blank, RP!Own

\* Who has read a frame knows that the other has sent it.
LEMMA PongRead ==
  ASSUME IInv, ReadOk(s_pc, s_call, s_ret, s_got)
  PROVE  s_calls = 3 * pings /\ pongs = pings
<1>1. s_heard[s_got] = s_calls /\ s_got \in DOMAIN s_heard /\ s_call.op = "read_last_payload"
      /\ s_ret = "SX_OK"
  BY Numbers DEF IInv, RoundsMatch, ReadOk, S!Blank
<1>2. s_calls = 3 * pings
  BY <1>1 DEF IInv, SenderTurn
<1>3. s_heard[s_got] <= 3 * pongs /\ pongs <= pings
  BY <1>1 DEF IInv, Heard, Counts
<1> QED
  BY <1>1, <1>2, <1>3, Counters

LEMMA PingRead ==
  ASSUME IInv, ReadOk(r_pc, r_call, r_ret, r_got)
  PROVE  r_calls = 3 * pongs + 2 /\ pings = pongs + 1
<1>1. r_heard[r_got] = r_calls - 1 /\ r_got \in DOMAIN r_heard /\ r_call.op = "read_last_payload"
      /\ r_ret = "SX_OK"
  BY Numbers DEF IInv, RoundsMatch, ReadOk, S!Blank
<1>2. r_calls = 3 * pongs + 2
  BY <1>1 DEF IInv, ReceiverTurn
<1>3. r_heard[r_got] + 2 <= 3 * pings /\ pings <= pongs + 1
  BY <1>1 DEF IInv, Heard, Counts
<1>4. r_heard[r_got] = 3 * pongs + 1
  BY <1>1, <1>2, Counters
<1>5. (3 * pongs + 1) + 2 <= 3 * pings
  BY <1>3, <1>4
<1> QED
  BY <1>2, <1>3, <1>5, Counters

\* Who has a transmission under way has not aired it yet, and is not waiting.
LEMMA PingUnderWay ==
  ASSUME IInv, s_mode = "TX"
  PROVE  /\ s_call.op = "send_payload" /\ s_tx_slot = s_calls /\ s_calls = 3 * pings + 1
         /\ pongs = pings /\ ~SP!Waiting
<1>1. s_call.op = "send_payload" /\ s_tx_slot = s_calls /\ SP!NotAired
  BY DEF IInv, SenderTurn, SP!Careful
<1>2. s_calls = 3 * pings + 1
  BY <1>1, Numbers DEF IInv, SenderTurn, SP!NotAired
<1>3. pongs = pings
  BY <1>2 DEF IInv, Counts
<1>4. ~SP!Waiting
  BY <1>1 DEF IInv, SP!IInv, SP!Sending, SP!Waiting, SP!Returned
<1> QED
  BY <1>1, <1>2, <1>3, <1>4

LEMMA PongUnderWay ==
  ASSUME IInv, r_mode = "TX"
  PROVE  /\ r_call.op = "send_payload" /\ r_tx_slot = r_calls /\ r_calls = 3 * pongs + 3
         /\ pings = pongs + 1 /\ ~ReceiverWaiting /\ r_end # "starting"
<1>1. r_call.op = "send_payload" /\ r_tx_slot = r_calls /\ RP!NotAired
  BY DEF IInv, ReceiverTurn, RP!Careful
<1>2. r_calls = 3 * pongs + 3
  BY <1>1, Numbers DEF IInv, ReceiverTurn, RP!NotAired
<1>3. pings = pongs + 1
  BY <1>2 DEF IInv, Counts
<1>4. ~ReceiverWaiting
  BY <1>1, <1>2, Counters
     DEF ReceiverWaiting, IInv, RP!IInv, RP!Sending, RP!Waiting, RP!Returned
<1>5. r_end # "starting"
  BY <1>2, Counters DEF IInv, ReceiverTurn
<1> QED
  BY <1>1, <1>2, <1>3, <1>4, <1>5

-----------------------------------------------------------------------------
(* The node that does nothing.                                             *)

SenderStays == UNCHANGED <<s_end, s_heard, spi_fails, s_radio>>
ReceiverStays == UNCHANGED <<r_end, r_heard, spi_fails, r_radio>>

LEMMA SenderStill ==
  ASSUME IInv, SenderStays
  PROVE  /\ SP!IInv' /\ SenderTurn' /\ pings' = pings
         /\ (SP!Waiting' <=> SP!Waiting)
         /\ ReadOk(s_pc, s_call, s_ret, s_got)' <=> ReadOk(s_pc, s_call, s_ret, s_got)
<1>1. SP!IInv'
  BY SenderKeeps DEF SenderStays, IInv
<1>2. pings' = pings
  BY DEF SenderStays, s_radio, pings
<1>3. SenderTurn'
  BY <1>2 DEF SenderStays, s_radio, IInv, SenderTurn, SP!Careful, SP!NotAired
<1>4. SP!Waiting' <=> SP!Waiting
  BY DEF SenderStays, s_radio, SP!Waiting, SP!Returned
<1>5. ReadOk(s_pc, s_call, s_ret, s_got)' <=> ReadOk(s_pc, s_call, s_ret, s_got)
  BY DEF SenderStays, s_radio, ReadOk
<1> QED
  BY <1>1, <1>2, <1>3, <1>4, <1>5

LEMMA ReceiverStill ==
  ASSUME IInv, ReceiverStays
  PROVE  /\ RP!IInv' /\ ReceiverTurn' /\ pongs' = pongs
         /\ (ReceiverWaiting' <=> ReceiverWaiting)
         /\ ReadOk(r_pc, r_call, r_ret, r_got)' <=> ReadOk(r_pc, r_call, r_ret, r_got)
<1>1. RP!IInv'
  BY ReceiverKeeps DEF ReceiverStays, IInv
<1>2. pongs' = pongs
  BY DEF ReceiverStays, r_radio, pongs
<1>3. ReceiverTurn'
  BY <1>2 DEF ReceiverStays, r_radio, IInv, ReceiverTurn, RP!Careful, RP!NotAired
<1>4. ReceiverWaiting' <=> ReceiverWaiting
  BY DEF ReceiverStays, r_radio, ReceiverWaiting, RP!Waiting, RP!Returned
<1>5. ReadOk(r_pc, r_call, r_ret, r_got)' <=> ReadOk(r_pc, r_call, r_ret, r_got)
  BY DEF ReceiverStays, r_radio, ReadOk
<1> QED
  BY <1>1, <1>2, <1>3, <1>4, <1>5

\* While one program goes on, the air is as it was.
LEMMA SenderAlone ==
  ASSUME IInv, ReceiverStays, s_heard' = s_heard, s_received' = s_received, pings' = pings,
         SP!IInv', SenderTurn',
         s_calls' = 3 * pings + 1 => pongs = pings,
         SP!Waiting' /\ "RxDone" \in s_irq' => s_heard[Len(s_heard)] = 3 * pings,
         ReadOk(s_pc, s_call, s_ret, s_got)' => s_heard[s_got'] = s_calls',
         s_end' = "passed" => pongs = ROUNDS /\ r_calls = MaxCalls
  PROVE  IInv'
<1>1. RP!IInv' /\ ReceiverTurn' /\ pongs' = pongs
  BY ReceiverStill
<1>2. Counts'
  BY <1>1 DEF IInv, Counts, ReceiverStays, r_radio
<1>3. Heard'
  BY <1>1 DEF IInv, Heard, ReceiverStays, r_radio
<1>4. InRound'
  BY <1>1, ReceiverStill DEF IInv, InRound, ReceiverStays, r_radio
<1>5. RoundsMatch'
  BY ReceiverStill DEF IInv, RoundsMatch, ReceiverStays, r_radio
<1>6. PassedMeansAnswered'
  BY DEF PassedMeansAnswered, ReceiverStays, r_radio, pongs, MaxCalls
<1> QED
  BY <1>1, <1>2, <1>3, <1>4, <1>5, <1>6 DEF IInv

LEMMA ReceiverAlone ==
  ASSUME IInv, SenderStays, r_heard' = r_heard, r_received' = r_received, r_aired' = r_aired,
         RP!IInv', ReceiverTurn',
         r_calls' = 3 * pongs + 3 => pings = pongs + 1,
         ReceiverWaiting' /\ "RxDone" \in r_irq' => r_heard[Len(r_heard)] = 3 * pongs + 1,
         ReadOk(r_pc, r_call, r_ret, r_got)' => r_heard[r_got'] = r_calls' - 1,
         r_calls = MaxCalls => r_calls' = MaxCalls
  PROVE  IInv'
<1>1. SP!IInv' /\ SenderTurn' /\ pings' = pings /\ pongs' = pongs
  BY SenderStill DEF pongs
<1>2. Counts'
  BY <1>1 DEF IInv, Counts, SenderStays, s_radio
<1>3. Heard'
  BY <1>1 DEF IInv, Heard, SenderStays, s_radio
<1>4. InRound'
  BY <1>1, SenderStill DEF IInv, InRound, SenderStays, s_radio
<1>5. RoundsMatch'
  BY SenderStill DEF IInv, RoundsMatch, SenderStays, s_radio
<1>6. PassedMeansAnswered'
  BY DEF IInv, PassedMeansAnswered, SenderStays, s_radio, MaxCalls
<1> QED
  BY <1>1, <1>2, <1>3, <1>4, <1>5, <1>6 DEF IInv

-----------------------------------------------------------------------------
(* The programs.                                                           *)

LEMMA SenderCallsStep == IInv /\ SenderCalls => IInv'
<1> SUFFICES ASSUME IInv, SenderCalls PROVE IInv'
  OBVIOUS
<1> DEFINE op == SenderCall(s_calls)
<1>1. /\ s_calls > 0 => Good(s_call, s_ret, s_got)
      /\ S!Call(op, After(op)) /\ s_end = "running"
      /\ UNCHANGED <<air, s_end, s_heard, receiver>>
  BY DEF SenderCalls
<1>2. /\ s_pc = "idle" /\ s_calls' = s_calls + 1
      /\ s_call' = [op |-> op, next |-> After(op), frame |-> s_calls + 1]
      /\ s_pc' # "tx_next" /\ s_pc' # "idle"
      /\ UNCHANGED <<s_mode, s_irq, s_rx_slot, s_tx_slot, s_aired, s_received, spi_fails>>
  <2>1. s_pc' = CASE op = "send_payload" -> "tx_stdby"
                  [] op = "poll_for_irq_flag" -> "poll"
                  [] op = "poll_and_read_packet" -> "rx_single"
                  [] OTHER -> "rd_stdby"
    BY <1>1 DEF S!Call
  <2>2. s_pc' # "tx_next" /\ s_pc' # "idle"
    BY <2>1
  <2> QED
    BY <1>1, <2>2 DEF S!Call, S!chipVars
<1> HIDE DEF op
<1>3. \/ op = "send_payload" /\ s_calls = 3 * pings /\ pongs = pings
      \/ op = "poll_for_irq_flag" /\ s_calls = 3 * pings - 2 /\ pings # 0 /\ SP!Waiting
      \/ op = "read_last_payload" /\ s_calls = 3 * pings - 1 /\ pings # 0 /\ SP!Waiting
  <2>1. CASE s_calls = 0 /\ pings = 0
    BY <2>1, CallsOfARound, Counters DEF op, IInv, Counts
  <2>2. ASSUME s_call.op = "send_payload", s_calls # 0
        PROVE  op = "poll_for_irq_flag" /\ s_calls = 3 * pings - 2 /\ pings # 0 /\ SP!Waiting
    <3>1. SP!Returned("send_payload", "SX_OK")
      BY <1>1, <1>2, <2>2, Counters DEF Good, SP!Returned
    <3>2. SP!AiredLast
      BY <3>1 DEF IInv, SP!IInv, SP!Sending
    <3>3. s_calls = 3 * pings - 2 /\ pings # 0
      BY <2>2, <3>2, Counters DEF SP!AiredLast, IInv, SenderTurn, pings
    <3>4. s_calls = 3 * (pings - 1) + 1 /\ pings - 1 \in Nat
      BY <3>3, Counters
    <3> QED
      BY <3>1, <3>3, <3>4, CallsOfARound DEF op, SP!Waiting
  <2>3. ASSUME s_call.op = "poll_for_irq_flag", s_calls = 3 * pings - 1, pings # 0
        PROVE  op = "read_last_payload" /\ SP!Waiting
    <3>1. s_calls = 3 * (pings - 1) + 2 /\ pings - 1 \in Nat
      BY <2>3, Counters
    <3> QED
      BY <2>3, <3>1, CallsOfARound DEF op, SP!Waiting
  <2>4. ASSUME s_call.op = "read_last_payload", s_calls = 3 * pings, pings # 0
        PROVE  op = "send_payload" /\ pongs = pings
    <3>1. ReadOk(s_pc, s_call, s_ret, s_got)
      BY <1>1, <1>2, <2>4, Counters DEF Good, ReadOk
    <3> QED
      BY <2>4, <3>1, PongRead, CallsOfARound, Counters DEF op
  <2> QED
    BY <2>1, <2>2, <2>3, <2>4, Counters DEF IInv, SenderTurn
<1>4. s_mode # "TX"
  <2> SUFFICES ASSUME s_mode = "TX" PROVE FALSE
    OBVIOUS
  <2> QED
    BY <1>3, PingUnderWay, Counters
<1>5. pings' = pings
  BY <1>2 DEF pings
<1>6. SP!IInv'
  <2>1. op \in SP!Ops /\ After(op) \in {"SLEEP", "RX_CONTINUOUS"}
        /\ (op # "send_payload" => After(op) = "SLEEP")
    BY <1>3 DEF SP!Ops, After
  <2>2. S!Call(op, After(op))
    BY <1>1 DEF op
  <2> QED
    BY <2>1, <2>2, SenderKeeps DEF IInv
<1>7. SP!Careful'
  BY <1>2, <1>4 DEF IInv, SenderTurn, SP!Careful
<1>8. s_call'.op = op
  BY <1>2
<1>9. SenderTurn'
  <2>1. pings # 0 => s_aired'[pings'] = 3 * pings' - 2
    BY <1>2, <1>5 DEF IInv, SenderTurn
  <2>2. \/ op = "send_payload" /\ s_calls' = 3 * pings + 1
        \/ op = "poll_for_irq_flag" /\ s_calls' = 3 * pings - 1 /\ pings # 0
        \/ op = "read_last_payload" /\ s_calls' = 3 * pings /\ pings # 0
    BY <1>2, <1>3, Counters
  <2> QED
    BY <1>5, <1>7, <1>8, <2>1, <2>2 DEF SenderTurn
<1>10. s_calls' = 3 * pings + 1 => pongs = pings
  BY <1>2, <1>3, Counters
<1>11. SP!Waiting' => SP!Waiting
  BY <1>2, <1>3, <1>8 DEF SP!Waiting, SP!Returned
<1>12. SP!Waiting' /\ "RxDone" \in s_irq' => s_heard[Len(s_heard)] = 3 * pings
  BY <1>2, <1>11 DEF IInv, InRound
<1>13. ~ReadOk(s_pc, s_call, s_ret, s_got)'
  BY <1>2 DEF ReadOk
<1>14. ReceiverStays /\ s_heard' = s_heard /\ s_received' = s_received /\ s_end' # "passed"
  BY <1>1, <1>2 DEF ReceiverStays, receiver
<1> QED
  BY <1>5, <1>6, <1>9, <1>10, <1>12, <1>13, <1>14, SenderAlone

LEMMA SenderEndsStep == IInv /\ SenderEnds => IInv'
<1> SUFFICES ASSUME IInv, SenderEnds PROVE IInv'
  OBVIOUS
<1>1. UNCHANGED <<air, s_heard, spi_fails, s_radio, receiver>>
  BY DEF SenderEnds
<1>2. ReceiverStays /\ UNCHANGED <<s_heard, s_received, s_irq, s_calls, s_got>> /\ pings' = pings
  BY <1>1 DEF ReceiverStays, receiver, s_radio, pings
<1>3. SP!IInv'
  BY <1>1, SenderKeeps DEF IInv
<1>4. SenderTurn'
  BY <1>1, <1>2 DEF s_radio, IInv, SenderTurn, SP!Careful, SP!NotAired
<1>5. SP!Waiting' <=> SP!Waiting
  BY <1>1 DEF s_radio, SP!Waiting, SP!Returned
<1>6. ReadOk(s_pc, s_call, s_ret, s_got)' <=> ReadOk(s_pc, s_call, s_ret, s_got)
  BY <1>1 DEF s_radio, ReadOk
<1>7. ASSUME s_end' = "passed" PROVE pongs = ROUNDS /\ r_calls = MaxCalls
  <2>1. s_pc = "idle" /\ Good(s_call, s_ret, s_got) /\ s_calls = 3 * ROUNDS
    BY <1>7 DEF SenderEnds, MaxCalls
  <2>2. s_call.op = "read_last_payload"
    BY <2>1, Counters, RoundsAssumption DEF IInv, SenderTurn
  <2>3. ReadOk(s_pc, s_call, s_ret, s_got)
    BY <2>1, <2>2 DEF Good, ReadOk
  <2>4. pongs = ROUNDS
    BY <2>1, <2>3, PongRead, Counters, RoundsAssumption
  <2>5. r_calls >= 3 * pongs
    BY Counters DEF IInv, ReceiverTurn
  <2> QED
    BY <2>4, <2>5, Numbers, RoundsAssumption DEF MaxCalls
<1>8. /\ s_calls' = 3 * pings + 1 => pongs = pings
      /\ SP!Waiting' /\ "RxDone" \in s_irq' => s_heard[Len(s_heard)] = 3 * pings
      /\ ReadOk(s_pc, s_call, s_ret, s_got)' => s_heard[s_got'] = s_calls'
  BY <1>2, <1>5, <1>6 DEF IInv, Counts, InRound, RoundsMatch
<1> QED
  BY <1>2, <1>3, <1>4, <1>7, <1>8, SenderAlone

LEMMA ReceiverStartsStep == IInv /\ ReceiverStarts => IInv'
<1> SUFFICES ASSUME IInv, ReceiverStarts PROVE IInv'
  OBVIOUS
<1>1. /\ r_calls = 0 /\ r_irq = {} /\ pongs = 0 /\ r_pc = "idle" /\ r_ret = "none"
      /\ r_call.op = "read_last_payload"
  BY Counters DEF ReceiverStarts, IInv, ReceiverTurn
<1>2. /\ UNCHANGED <<r_irq, r_rx_slot, r_tx_slot, r_aired, r_received, r_heard, spi_fails>>
      /\ UNCHANGED <<r_pc, r_call, r_irq_seen, r_expired, r_got, r_ret, r_calls>>
      /\ r_mode' \in {r_mode, "RX_CONTINUOUS"}
      /\ r_end' # "starting"
  BY DEF ReceiverStarts, R!switch_mode, R!Fails, R!chipVars
<1>3. SenderStays /\ pongs' = pongs
  BY <1>2 DEF ReceiverStarts, SenderStays, sender, pongs
<1>4. RP!IInv'
  <2>1. CASE r_mode' = r_mode
    BY <1>2, <2>1, ReceiverKeeps DEF IInv, r_radio
  <2>2. CASE r_mode' = "RX_CONTINUOUS"
    <3>1. RP!switch_mode("RX_CONTINUOUS") /\ UNCHANGED RP!driverVars
      BY <1>2, <2>2 DEF RP!switch_mode, RP!driverVars
    <3> QED
      BY <1>1, <3>1, RP!IdleRadioListens, Parameters DEF IInv
  <2> QED
    BY <1>2, <2>1, <2>2
<1>5. ReceiverTurn'
  BY <1>1, <1>2, <1>3 DEF IInv, ReceiverTurn, RP!Careful
<1>6. /\ ~(r_calls' = 3 * pongs + 3) /\ r_irq' = {}
      /\ ~ReadOk(r_pc, r_call, r_ret, r_got)'
  BY <1>1, <1>2 DEF ReadOk
<1> QED
  BY <1>2, <1>3, <1>4, <1>5, <1>6, ReceiverAlone

LEMMA ReceiverCallsStep == IInv /\ ReceiverCalls => IInv'
<1> SUFFICES ASSUME IInv, ReceiverCalls PROVE IInv'
  OBVIOUS
<1> DEFINE op == ReceiverCall(r_calls)
<1>1. /\ r_calls > 0 => Good(r_call, r_ret, r_got)
      /\ R!Call(op, After(op)) /\ r_end = "running"
      /\ UNCHANGED <<air, r_end, r_heard, sender>>
  BY DEF ReceiverCalls
<1>2. /\ r_pc = "idle" /\ r_calls' = r_calls + 1 /\ r_calls < MaxCalls
      /\ r_call' = [op |-> op, next |-> After(op), frame |-> r_calls + 1]
      /\ r_pc' # "tx_next" /\ r_pc' # "idle"
      /\ UNCHANGED <<r_mode, r_irq, r_rx_slot, r_tx_slot, r_aired, r_received, spi_fails>>
  <2>1. r_pc' = CASE op = "send_payload" -> "tx_stdby"
                  [] op = "poll_for_irq_flag" -> "poll"
                  [] op = "poll_and_read_packet" -> "rx_single"
                  [] OTHER -> "rd_stdby"
    BY <1>1 DEF R!Call
  <2>2. r_pc' # "tx_next" /\ r_pc' # "idle"
    BY <2>1
  <2> QED
    BY <1>1, <2>2 DEF R!Call, R!chipVars
<1> HIDE DEF op
<1>3. \/ op = "poll_for_irq_flag" /\ r_calls = 3 * pongs /\ ReceiverWaiting
      \/ op = "read_last_payload" /\ r_calls = 3 * pongs + 1 /\ ReceiverWaiting
      \/ op = "send_payload" /\ r_calls = 3 * pongs + 2 /\ pings = pongs + 1
  <2>1. CASE r_calls = 0 /\ pongs = 0
    BY <2>1, CallsOfARound DEF op, ReceiverWaiting
  <2>2. ASSUME r_call.op = "poll_for_irq_flag", r_calls = 3 * pongs + 1
        PROVE  op = "read_last_payload" /\ ReceiverWaiting
    BY <2>2, CallsOfARound, Counters DEF op, ReceiverWaiting, RP!Waiting
  <2>3. ASSUME r_call.op = "read_last_payload", r_calls = 3 * pongs + 2
        PROVE  op = "send_payload" /\ pings = pongs + 1
    <3>1. ReadOk(r_pc, r_call, r_ret, r_got)
      BY <1>1, <1>2, <2>3, Counters DEF Good, ReadOk
    <3> QED
      BY <2>3, <3>1, PingRead, CallsOfARound, Counters DEF op
  <2>4. ASSUME r_call.op = "send_payload", r_calls # 0
        PROVE  op = "poll_for_irq_flag" /\ r_calls = 3 * pongs /\ ReceiverWaiting
    <3>1. RP!Returned("send_payload", "SX_OK")
      BY <1>1, <1>2, <2>4, Counters DEF Good, RP!Returned
    <3>2. RP!AiredLast
      BY <3>1 DEF IInv, RP!IInv, RP!Sending
    <3>3. r_calls = 3 * pongs
      BY <2>4, <3>2, Counters DEF RP!AiredLast, IInv, ReceiverTurn, pongs
    <3> QED
      BY <3>1, <3>3, CallsOfARound, Counters DEF op, ReceiverWaiting, RP!Waiting
  <2> QED
    BY <2>1, <2>2, <2>3, <2>4, Counters DEF IInv, ReceiverTurn
<1>4. r_mode # "TX"
  <2> SUFFICES ASSUME r_mode = "TX" PROVE FALSE
    OBVIOUS
  <2> QED
    BY <1>3, PongUnderWay, Counters
<1>5. pongs' = pongs
  BY <1>2 DEF pongs
<1>6. RP!IInv'
  <2>1. op \in RP!Ops /\ After(op) \in {"SLEEP", "RX_CONTINUOUS"}
        /\ (op # "send_payload" => After(op) = "SLEEP")
    BY <1>3 DEF RP!Ops, After
  <2>2. R!Call(op, After(op))
    BY <1>1 DEF op
  <2> QED
    BY <2>1, <2>2, ReceiverKeeps DEF IInv
<1>7. RP!Careful'
  BY <1>2, <1>4 DEF IInv, ReceiverTurn, RP!Careful
<1>8. r_call'.op = op
  BY <1>2
<1>9. ReceiverTurn'
  <2>1. pongs # 0 => r_aired'[pongs'] = 3 * pongs'
    BY <1>2, <1>5 DEF IInv, ReceiverTurn
  <2>2. \/ op = "poll_for_irq_flag" /\ r_calls' = 3 * pongs + 1
        \/ op = "read_last_payload" /\ r_calls' = 3 * pongs + 2
        \/ op = "send_payload" /\ r_calls' = 3 * pongs + 3
    BY <1>2, <1>3, Counters
  <2>3. r_end' # "starting"
    BY <1>1
  <2> QED
    BY <1>5, <1>7, <1>8, <2>1, <2>2, <2>3 DEF ReceiverTurn
<1>10. r_calls' = 3 * pongs + 3 => pings = pongs + 1
  BY <1>2, <1>3, Counters
<1>11. r_calls' # 0
  BY <1>2, Counters
<1>12. ReceiverWaiting' => ReceiverWaiting
  BY <1>2, <1>3, <1>8, <1>11 DEF ReceiverWaiting, RP!Waiting, RP!Returned
<1>13. ReceiverWaiting' /\ "RxDone" \in r_irq' => r_heard[Len(r_heard)] = 3 * pongs + 1
  BY <1>2, <1>12 DEF IInv, InRound
<1>14. ~ReadOk(r_pc, r_call, r_ret, r_got)'
  BY <1>2 DEF ReadOk
<1>15. /\ SenderStays /\ r_heard' = r_heard /\ r_received' = r_received /\ r_aired' = r_aired
       /\ r_calls # MaxCalls
  BY <1>1, <1>2, Counters, Parameters DEF SenderStays, sender
<1> QED
  BY <1>6, <1>9, <1>10, <1>13, <1>14, <1>15, ReceiverAlone

LEMMA ReceiverEndsStep == IInv /\ ReceiverEnds => IInv'
<1> SUFFICES ASSUME IInv, ReceiverEnds PROVE IInv'
  OBVIOUS
<1>1. UNCHANGED <<air, r_heard, spi_fails, r_radio, sender>> /\ r_calls > 0 /\ r_end' # "starting"
  BY DEF ReceiverEnds
<1>2. /\ SenderStays /\ UNCHANGED <<r_heard, r_received, r_aired, r_irq, r_calls, r_got>>
      /\ pongs' = pongs
  BY <1>1 DEF SenderStays, sender, r_radio, pongs
<1>3. RP!IInv'
  BY <1>1, ReceiverKeeps DEF IInv
<1>4. ReceiverTurn'
  BY <1>1, <1>2 DEF r_radio, IInv, ReceiverTurn, RP!Careful, RP!NotAired
<1>5. ReceiverWaiting' <=> ReceiverWaiting
  BY <1>1 DEF r_radio, ReceiverWaiting, RP!Waiting, RP!Returned
<1>6. ReadOk(r_pc, r_call, r_ret, r_got)' <=> ReadOk(r_pc, r_call, r_ret, r_got)
  BY <1>1 DEF r_radio, ReadOk
<1>7. /\ r_calls' = 3 * pongs + 3 => pings = pongs + 1
      /\ ReceiverWaiting' /\ "RxDone" \in r_irq' => r_heard[Len(r_heard)] = 3 * pongs + 1
      /\ ReadOk(r_pc, r_call, r_ret, r_got)' => r_heard[r_got'] = r_calls' - 1
  BY <1>2, <1>5, <1>6 DEF IInv, Counts, InRound, RoundsMatch
<1> QED
  BY <1>2, <1>3, <1>4, <1>7, ReceiverAlone

-----------------------------------------------------------------------------
(* The drivers and their clocks.                                           *)

LEMMA SenderDrivesStep == IInv /\ SenderDrives => IInv'
<1> SUFFICES ASSUME IInv, SenderDrives PROVE IInv'
  OBVIOUS
<1>1. S!DriverStep /\ UNCHANGED <<air, s_end, s_heard, receiver>>
  BY DEF SenderDrives
<1>2. s_call.op \notin {"poll_and_read_packet", "listen"}
  BY DEF IInv, SenderTurn
<1>3. SP!Careful' /\ SP!Advances
  BY <1>1, <1>2, SenderAdvances DEF IInv, SenderTurn
<1>4. SP!IInv'
  BY <1>1, SenderKeeps DEF IInv
<1>5. UNCHANGED <<s_call, s_calls, s_aired, s_received, spi_fails>> /\ pings' = pings
  BY <1>3 DEF SP!Advances, pings
<1>6. ReceiverStays
  BY <1>1, <1>5 DEF ReceiverStays, receiver
<1>7. s_calls # 0
  <2>1. s_pc # "idle"
    BY <1>1, SenderDriverSteps, SP!DriverStepIsWithinCall, Parameters
  <2> QED
    BY <1>2, <2>1 DEF IInv, SP!IInv, SP!Places
<1>8. SenderTurn'
  BY <1>3, <1>5, <1>7 DEF IInv, SenderTurn
<1>9. SP!Waiting' /\ "RxDone" \in s_irq' => s_heard[Len(s_heard)] = 3 * pings
  BY <1>3 DEF SP!Advances, IInv, InRound
<1>10. ASSUME ReadOk(s_pc, s_call, s_ret, s_got)' PROVE s_heard[s_got'] = s_calls'
  <2>1. SP!Waiting /\ "RxDone" \in s_irq /\ s_got' = s_rx_slot
    BY <1>3, <1>10, ReadOkIs DEF SP!Advances
  <2>2. s_heard[Len(s_heard)] = 3 * pings
    BY <2>1 DEF IInv, InRound
  <2>3. s_call.op = "read_last_payload"
    BY <1>5, <1>10 DEF ReadOk
  <2>4. s_calls = 3 * pings
    BY <1>7, <2>3 DEF IInv, SenderTurn
  <2>5. s_rx_slot = Len(s_heard)
    BY <1>10, <2>1, Numbers DEF ReadOk
  <2> QED
    BY <1>5, <2>1, <2>2, <2>4, <2>5
<1>11. /\ s_calls' = 3 * pings + 1 => pongs = pings
       /\ s_end' = "passed" => pongs = ROUNDS /\ r_calls = MaxCalls
  BY <1>1, <1>5 DEF IInv, Counts, PassedMeansAnswered, pongs
<1> QED
  BY <1>1, <1>4, <1>5, <1>6, <1>8, <1>9, <1>10, <1>11, SenderAlone

LEMMA SenderExpiresStep == IInv /\ SenderExpires => IInv'
<1> SUFFICES ASSUME IInv, SenderExpires PROVE IInv'
  OBVIOUS
<1>1. S!TimerExpires /\ UNCHANGED <<air, s_end, s_heard, receiver>>
  BY DEF SenderExpires
<1>2. UNCHANGED <<s_mode, s_irq, s_rx_slot, s_tx_slot, s_aired, s_received,
                  s_pc, s_call, s_got, s_ret, s_calls, spi_fails>>
  BY <1>1 DEF S!TimerExpires, S!chipVars
<1>3. SP!IInv'
  BY <1>1, SenderKeeps DEF IInv
<1>4. ReceiverStays /\ pings' = pings
  BY <1>1, <1>2 DEF ReceiverStays, receiver, pings
<1>5. SenderTurn'
  BY <1>2, <1>4 DEF IInv, SenderTurn, SP!Careful, SP!NotAired
<1>6. /\ SP!Waiting' <=> SP!Waiting
      /\ ReadOk(s_pc, s_call, s_ret, s_got)' <=> ReadOk(s_pc, s_call, s_ret, s_got)
  BY <1>2 DEF SP!Waiting, SP!Returned, ReadOk
<1>7. /\ s_calls' = 3 * pings + 1 => pongs = pings
      /\ SP!Waiting' /\ "RxDone" \in s_irq' => s_heard[Len(s_heard)] = 3 * pings
      /\ ReadOk(s_pc, s_call, s_ret, s_got)' => s_heard[s_got'] = s_calls'
      /\ s_end' = "passed" => pongs = ROUNDS /\ r_calls = MaxCalls
  BY <1>1, <1>2, <1>6 DEF IInv, Counts, InRound, RoundsMatch, PassedMeansAnswered, pongs
<1> QED
  BY <1>1, <1>2, <1>3, <1>4, <1>5, <1>7, SenderAlone

LEMMA ReceiverDrivesStep == IInv /\ ReceiverDrives => IInv'
<1> SUFFICES ASSUME IInv, ReceiverDrives PROVE IInv'
  OBVIOUS
<1>1. R!DriverStep /\ UNCHANGED <<air, r_end, r_heard, sender>>
  BY DEF ReceiverDrives
<1>2. r_call.op \notin {"poll_and_read_packet", "listen"}
  BY DEF IInv, ReceiverTurn
<1>3. RP!Careful' /\ RP!Advances
  BY <1>1, <1>2, ReceiverAdvances DEF IInv, ReceiverTurn
<1>4. RP!IInv'
  BY <1>1, ReceiverKeeps DEF IInv
<1>5. UNCHANGED <<r_call, r_calls, r_aired, r_received, spi_fails>> /\ pongs' = pongs
  BY <1>3 DEF RP!Advances, pongs
<1>6. SenderStays
  BY <1>1, <1>5 DEF SenderStays, sender
<1>7. r_calls # 0
  <2>1. r_pc # "idle"
    BY <1>1, ReceiverDriverSteps, RP!DriverStepIsWithinCall, Parameters
  <2> QED
    BY <1>2, <2>1 DEF IInv, RP!IInv, RP!Places
<1>8. ReceiverTurn'
  BY <1>1, <1>3, <1>5, <1>7 DEF IInv, ReceiverTurn
<1>9. ReceiverWaiting' /\ "RxDone" \in r_irq' => r_heard[Len(r_heard)] = 3 * pongs + 1
  BY <1>3, <1>5, <1>7 DEF RP!Advances, IInv, InRound, ReceiverWaiting
<1>10. ASSUME ReadOk(r_pc, r_call, r_ret, r_got)' PROVE r_heard[r_got'] = r_calls' - 1
  <2>1. RP!Waiting /\ "RxDone" \in r_irq /\ r_got' = r_rx_slot
    BY <1>3, <1>10, ReadOkIs DEF RP!Advances
  <2>2. r_heard[Len(r_heard)] = 3 * pongs + 1
    BY <2>1 DEF IInv, InRound, ReceiverWaiting
  <2>3. r_call.op = "read_last_payload"
    BY <1>5, <1>10 DEF ReadOk
  <2>4. r_calls = 3 * pongs + 2
    BY <1>7, <2>3 DEF IInv, ReceiverTurn
  <2>5. (3 * pongs + 2) - 1 = 3 * pongs + 1
    BY Counters
  <2>6. r_rx_slot = Len(r_heard)
    BY <1>10, <2>1, Numbers DEF ReadOk
  <2> QED
    BY <1>5, <2>1, <2>2, <2>4, <2>5, <2>6
<1>11. /\ r_calls' = 3 * pongs + 3 => pings = pongs + 1
       /\ r_calls = MaxCalls => r_calls' = MaxCalls
  BY <1>5 DEF IInv, Counts
<1> QED
  BY <1>1, <1>4, <1>5, <1>6, <1>8, <1>9, <1>10, <1>11, ReceiverAlone

LEMMA ReceiverExpiresStep == IInv /\ ReceiverExpires => IInv'
<1> SUFFICES ASSUME IInv, ReceiverExpires PROVE IInv'
  OBVIOUS
<1>1. R!TimerExpires /\ UNCHANGED <<air, r_end, r_heard, sender>>
  BY DEF ReceiverExpires
<1>2. UNCHANGED <<r_mode, r_irq, r_rx_slot, r_tx_slot, r_aired, r_received,
                  r_pc, r_call, r_got, r_ret, r_calls, spi_fails>>
  BY <1>1 DEF R!TimerExpires, R!chipVars
<1>3. RP!IInv'
  BY <1>1, ReceiverKeeps DEF IInv
<1>4. SenderStays /\ pongs' = pongs
  BY <1>1, <1>2 DEF SenderStays, sender, pongs
<1>5. ReceiverTurn'
  BY <1>1, <1>2, <1>4 DEF IInv, ReceiverTurn, RP!Careful, RP!NotAired
<1>6. /\ ReceiverWaiting' <=> ReceiverWaiting
      /\ ReadOk(r_pc, r_call, r_ret, r_got)' <=> ReadOk(r_pc, r_call, r_ret, r_got)
  BY <1>2 DEF ReceiverWaiting, RP!Waiting, RP!Returned, ReadOk
<1>7. /\ r_calls' = 3 * pongs + 3 => pings = pongs + 1
      /\ ReceiverWaiting' /\ "RxDone" \in r_irq' => r_heard[Len(r_heard)] = 3 * pongs + 1
      /\ ReadOk(r_pc, r_call, r_ret, r_got)' => r_heard[r_got'] = r_calls' - 1
      /\ r_calls = MaxCalls => r_calls' = MaxCalls
  BY <1>2, <1>6 DEF IInv, Counts, InRound, RoundsMatch
<1> QED
  BY <1>1, <1>2, <1>3, <1>4, <1>5, <1>7, ReceiverAlone

-----------------------------------------------------------------------------
(* The air.                                                                *)

\* A node that hears a frame and is waiting for one hears this round's.
LEMMA PingHeard ==
  ASSUME IInv, s_mode = "TX", NEW good \in BOOLEAN, R!ChipReceives(good),
         r_heard' = Append(r_heard, s_tx_slot), r_end' = r_end
  PROVE  /\ RP!IInv' /\ ReceiverTurn' /\ pongs' = pongs /\ r_calls' = r_calls
         /\ r_heard' \in Seq(Nat) /\ Len(r_heard') = Len(r_received')
         /\ \A i \in DOMAIN r_heard': r_heard'[i] + 2 <= 3 * (pings + 1)
         /\ ReceiverWaiting' /\ "RxDone" \in r_irq' => r_heard'[Len(r_heard')] = 3 * pongs + 1
         /\ ReadOk(r_pc, r_call, r_ret, r_got)' => r_heard'[r_got'] = r_calls' - 1
<1>1. /\ UNCHANGED <<r_aired, r_pc, r_call, r_irq_seen, r_expired,
                     r_got, r_ret, r_calls>>
      /\ r_mode \in {"RX_SINGLE", "RX_CONTINUOUS"} /\ r_received' = Append(r_received, good)
      /\ r_mode' = IF r_mode = "RX_SINGLE" THEN "STDBY" ELSE r_mode
  BY DEF R!ChipReceives, R!driverVars
<1>2. s_tx_slot = 3 * pings + 1 /\ pongs = pings /\ s_tx_slot \in Nat
  BY PingUnderWay, Counters
<1>3. RP!IInv'
  BY ReceiverKeeps DEF IInv
<1>4. pongs' = pongs
  BY <1>1 DEF pongs
<1>5. r_mode' = "RX_CONTINUOUS" /\ r_pc # "tx_next"
  BY <1>1 DEF IInv, ReceiverTurn, RP!Careful, RP!IInv, RP!Sending
<1>6. ReceiverTurn'
  <2>1. r_end # "starting"
    <3> SUFFICES ASSUME r_end = "starting" PROVE FALSE
      OBVIOUS
    <3>1. r_mode = "SLEEP"
      BY Counters DEF IInv, ReceiverTurn
    <3> QED
      BY <1>1, <3>1
  <2> QED
    BY <1>1, <1>4, <1>5, <2>1 DEF IInv, ReceiverTurn, RP!Careful
<1>7. /\ r_heard \in Seq(Nat) /\ Len(r_heard) = Len(r_received) /\ r_received \in Seq(BOOLEAN)
  BY DEF IInv, Heard, RP!IInv, RP!TypeOK
<1>8. /\ r_heard' \in Seq(Nat) /\ Len(r_heard') = Len(r_heard) + 1
      /\ r_heard'[Len(r_heard) + 1] = s_tx_slot
      /\ \A i \in 1..Len(r_heard): r_heard'[i] = r_heard[i]
      /\ DOMAIN r_heard' = 1..(Len(r_heard) + 1)
  BY <1>2, <1>7
<1>9. Len(r_received') = Len(r_received) + 1
  BY <1>1, <1>7
<1>10. \A i \in DOMAIN r_heard': r_heard'[i] + 2 <= 3 * (pings + 1)
  <2> SUFFICES ASSUME NEW i \in DOMAIN r_heard' PROVE r_heard'[i] + 2 <= 3 * (pings + 1)
    OBVIOUS
  <2>1. CASE i = Len(r_heard) + 1
    <3>1. r_heard'[i] = 3 * pings + 1
      BY <1>2, <1>8, <2>1
    <3> QED
      BY <3>1, Counters
  <2>2. CASE i # Len(r_heard) + 1
    <3>1. i \in DOMAIN r_heard
      BY <1>8, <2>2, Counters
    <3>2. r_heard[i] + 2 <= 3 * pings /\ r_heard[i] \in Nat
      BY <1>7, <3>1 DEF IInv, Heard
    <3>3. r_heard'[i] = r_heard[i]
      BY <1>8, <3>1, Counters
    <3>4. r_heard[i] + 2 <= 3 * (pings + 1)
      <4>1. pings \in Nat
        BY Counters
      <4> QED
        BY <3>2, <4>1, RoundLater
    <3> QED
      BY <3>3, <3>4
  <2> QED
    BY <2>1, <2>2
<1>11. r_heard'[Len(r_heard')] = 3 * pongs + 1
  BY <1>2, <1>8
<1>12. ASSUME ReadOk(r_pc, r_call, r_ret, r_got)' PROVE r_heard'[r_got'] = r_calls' - 1
  <2>1. ReadOk(r_pc, r_call, r_ret, r_got)
    BY <1>1, <1>12 DEF ReadOk
  <2>2. r_heard[r_got] = r_calls - 1
    BY <2>1 DEF IInv, RoundsMatch
  <2>3. r_got \in 1..Len(r_heard)
    BY <2>1, Numbers DEF ReadOk, S!Blank
  <2> QED
    BY <1>1, <1>8, <2>2, <2>3
<1>13. Len(r_heard') = Len(r_received')
  BY <1>7, <1>8, <1>9
<1> QED
  BY <1>1, <1>3, <1>4, <1>6, <1>8, <1>10, <1>11, <1>12, <1>13

LEMMA PongHeard ==
  ASSUME IInv, r_mode = "TX", NEW good \in BOOLEAN, S!ChipReceives(good),
         s_heard' = Append(s_heard, r_tx_slot)
  PROVE  /\ SP!IInv' /\ SenderTurn' /\ pings' = pings /\ s_calls' = s_calls
         /\ s_heard' \in Seq(Nat) /\ Len(s_heard') = Len(s_received')
         /\ \A i \in DOMAIN s_heard': s_heard'[i] <= 3 * (pongs + 1)
         /\ SP!Waiting' /\ "RxDone" \in s_irq' => s_heard'[Len(s_heard')] = 3 * pings
         /\ ReadOk(s_pc, s_call, s_ret, s_got)' => s_heard'[s_got'] = s_calls'
<1>1. /\ UNCHANGED <<s_aired, s_pc, s_call, s_irq_seen, s_expired,
                     s_got, s_ret, s_calls>>
      /\ s_mode \in {"RX_SINGLE", "RX_CONTINUOUS"} /\ s_received' = Append(s_received, good)
      /\ s_mode' = IF s_mode = "RX_SINGLE" THEN "STDBY" ELSE s_mode
  BY DEF S!ChipReceives, S!driverVars
<1>2. r_tx_slot = 3 * (pongs + 1) /\ pings = pongs + 1 /\ r_tx_slot \in Nat
  BY PongUnderWay, Counters
<1>3. SP!IInv'
  BY SenderKeeps DEF IInv
<1>4. pings' = pings
  BY <1>1 DEF pings
<1>5. s_mode' = "RX_CONTINUOUS" /\ s_pc # "tx_next"
  BY <1>1 DEF IInv, SenderTurn, SP!Careful, SP!IInv, SP!Sending
<1>6. SenderTurn'
  BY <1>1, <1>4, <1>5 DEF IInv, SenderTurn, SP!Careful
<1>7. /\ s_heard \in Seq(Nat) /\ Len(s_heard) = Len(s_received) /\ s_received \in Seq(BOOLEAN)
  BY DEF IInv, Heard, SP!IInv, SP!TypeOK
<1>8. /\ s_heard' \in Seq(Nat) /\ Len(s_heard') = Len(s_heard) + 1
      /\ s_heard'[Len(s_heard) + 1] = r_tx_slot
      /\ \A i \in 1..Len(s_heard): s_heard'[i] = s_heard[i]
      /\ DOMAIN s_heard' = 1..(Len(s_heard) + 1)
  BY <1>2, <1>7
<1>9. Len(s_received') = Len(s_received) + 1
  BY <1>1, <1>7
<1>10. \A i \in DOMAIN s_heard': s_heard'[i] <= 3 * (pongs + 1)
  <2> SUFFICES ASSUME NEW i \in DOMAIN s_heard' PROVE s_heard'[i] <= 3 * (pongs + 1)
    OBVIOUS
  <2>1. CASE i = Len(s_heard) + 1
    <3>1. s_heard'[i] = 3 * (pongs + 1)
      BY <1>2, <1>8, <2>1
    <3>2. 3 * (pongs + 1) <= 3 * (pongs + 1)
      BY Counters
    <3> QED
      BY <3>1, <3>2
  <2>2. CASE i # Len(s_heard) + 1
    <3>1. i \in DOMAIN s_heard
      BY <1>8, <2>2, Counters
    <3>2. s_heard[i] <= 3 * pongs /\ s_heard[i] \in Nat
      BY <1>7, <3>1 DEF IInv, Heard
    <3>3. s_heard'[i] = s_heard[i]
      BY <1>8, <3>1, Counters
    <3>4. pongs \in Nat
      BY Counters
    <3>5. s_heard[i] <= 3 * (pongs + 1)
      BY <3>2, <3>4, RoundLater
    <3> QED
      BY <3>3, <3>5
  <2> QED
    BY <2>1, <2>2
<1>11. s_heard'[Len(s_heard')] = 3 * pings
  BY <1>2, <1>8
<1>12. ASSUME ReadOk(s_pc, s_call, s_ret, s_got)' PROVE s_heard'[s_got'] = s_calls'
  <2>1. ReadOk(s_pc, s_call, s_ret, s_got)
    BY <1>1, <1>12 DEF ReadOk
  <2>2. s_heard[s_got] = s_calls
    BY <2>1 DEF IInv, RoundsMatch
  <2>3. s_got \in 1..Len(s_heard)
    BY <2>1, Numbers DEF ReadOk, S!Blank
  <2> QED
    BY <1>1, <1>8, <2>2, <2>3
<1>13. Len(s_heard') = Len(s_received')
  BY <1>7, <1>8, <1>9
<1> QED
  BY <1>1, <1>3, <1>4, <1>6, <1>8, <1>10, <1>11, <1>12, <1>13

LEMMA PingOnAirStep == IInv /\ PingOnAir => IInv'
<1> SUFFICES ASSUME IInv, PingOnAir PROVE IInv'
  OBVIOUS
<1>1. /\ S!ChipTransmits /\ UNCHANGED <<air, s_end, s_heard, r_end>>
      /\ \/ \E good \in BOOLEAN: R!ChipReceives(good) /\ r_heard' = Append(r_heard, s_tx_slot)
         \/ ReceiverStays
  BY DEF PingOnAir, ReceiverStays
<1>2. /\ s_mode = "TX" /\ s_mode' = "STDBY" /\ s_aired' = Append(s_aired, s_tx_slot)
      /\ UNCHANGED <<s_rx_slot, s_tx_slot, s_received, s_pc, s_call, s_irq_seen,
                     s_expired, s_got, s_ret, s_calls>>
  BY <1>1 DEF S!ChipTransmits, S!driverVars
<1>3. /\ s_call.op = "send_payload" /\ s_tx_slot = s_calls /\ s_calls = 3 * pings + 1
      /\ pongs = pings /\ ~SP!Waiting
  BY <1>2, PingUnderWay
<1>4. pings' = pings + 1 /\ s_aired'[pings + 1] = s_calls
  <2>1. s_aired \in Seq(0..MaxCalls) /\ s_calls \in 0..MaxCalls
    BY DEF IInv, SP!IInv, SP!TypeOK
  <2> QED
    BY <1>2, <1>3, <2>1 DEF pings
<1>5. SP!IInv'
  BY <1>1, SenderKeeps DEF IInv
<1>6. SenderTurn'
  <2>1. SP!Careful'
    <3>1. s_pc # "tx_next"
      BY <1>2 DEF IInv, SP!IInv, SP!Sending
    <3> QED
      BY <1>2, <3>1 DEF SP!Careful
  <2>2. s_calls' = 3 * pings' - 2 /\ pings' # 0 /\ s_call'.op = "send_payload"
    BY <1>2, <1>3, <1>4, Counters
  <2>3. s_aired'[pings'] = 3 * pings' - 2
    BY <1>3, <1>4, Counters
  <2> QED
    BY <2>1, <2>2, <2>3 DEF SenderTurn
<1>7. ~SP!Waiting'
  BY <1>2, <1>3 DEF SP!Waiting, SP!Returned
<1>8. ~ReadOk(s_pc, s_call, s_ret, s_got)'
  BY <1>2, <1>3 DEF ReadOk
<1>9. /\ RP!IInv' /\ ReceiverTurn' /\ pongs' = pongs /\ r_calls' = r_calls
      /\ r_heard' \in Seq(Nat) /\ Len(r_heard') = Len(r_received')
      /\ \A i \in DOMAIN r_heard': r_heard'[i] + 2 <= 3 * (pings + 1)
      /\ ReceiverWaiting' /\ "RxDone" \in r_irq' => r_heard'[Len(r_heard')] = 3 * pongs + 1
      /\ ReadOk(r_pc, r_call, r_ret, r_got)' => r_heard'[r_got'] = r_calls' - 1
  <2>1. ASSUME NEW good \in BOOLEAN, R!ChipReceives(good), r_heard' = Append(r_heard, s_tx_slot)
        PROVE  <1>9!:
    BY <1>1, <1>2, <2>1, PingHeard
  <2>2. CASE ReceiverStays
    <3>1. /\ RP!IInv' /\ ReceiverTurn' /\ pongs' = pongs
          /\ ReceiverWaiting' <=> ReceiverWaiting
          /\ ReadOk(r_pc, r_call, r_ret, r_got)' <=> ReadOk(r_pc, r_call, r_ret, r_got)
      BY <2>2, ReceiverStill
    <3>2. UNCHANGED <<r_heard, r_received, r_calls, r_irq, r_got>>
      BY <2>2 DEF ReceiverStays, r_radio
    <3>3. \A i \in DOMAIN r_heard: r_heard[i] + 2 <= 3 * (pings + 1)
      <4> SUFFICES ASSUME NEW i \in DOMAIN r_heard PROVE r_heard[i] + 2 <= 3 * (pings + 1)
        OBVIOUS
      <4>1. r_heard[i] + 2 <= 3 * pings /\ r_heard[i] \in Nat
        BY DEF IInv, Heard
      <4>2. pings \in Nat
        BY Counters
      <4> QED
        BY <4>1, <4>2, RoundLater
    <3> QED
      BY <3>1, <3>2, <3>3 DEF IInv, Heard, InRound, RoundsMatch
  <2> QED
    BY <1>1, <2>1, <2>2
<1>10. Counts'
  <2>1. pongs' = pings /\ pings' = pings + 1 /\ pings' = pongs' + 1 /\ s_calls' = 3 * pings + 1
    BY <1>2, <1>3, <1>4, <1>9
  <2>2. pings <= pings + 1 /\ pings + 1 <= pings + 1 /\ 3 * pings + 1 # 3 * (pings + 1) + 1
    BY Counters, NextRound
  <2>3. pongs' <= pings' /\ pings' <= pongs' + 1
    BY <2>1, <2>2
  <2>4. s_calls' # 3 * pings' + 1
    BY <2>1, <2>2
  <2>5. r_calls' = 3 * pongs' + 3 => pings' = pongs' + 1
    BY <2>1
  <2> QED
    BY <2>3, <2>4, <2>5 DEF Counts
<1>11. Heard'
  <2>1. \A i \in DOMAIN s_heard': s_heard'[i] <= 3 * pongs'
    BY <1>1, <1>9 DEF IInv, Heard
  <2> QED
    BY <1>1, <1>2, <1>4, <1>9, <2>1 DEF IInv, Heard
<1>12. InRound'
  BY <1>7, <1>9 DEF InRound
<1>13. RoundsMatch'
  BY <1>8, <1>9 DEF RoundsMatch
<1>14. PassedMeansAnswered'
  BY <1>1, <1>9 DEF IInv, PassedMeansAnswered, pongs, MaxCalls
<1> QED
  BY <1>5, <1>6, <1>9, <1>10, <1>11, <1>12, <1>13, <1>14 DEF IInv

LEMMA PongOnAirStep == IInv /\ PongOnAir => IInv'
<1> SUFFICES ASSUME IInv, PongOnAir PROVE IInv'
  OBVIOUS
<1>1. /\ R!ChipTransmits /\ UNCHANGED <<air, r_end, r_heard, s_end>>
      /\ \/ \E good \in BOOLEAN: S!ChipReceives(good) /\ s_heard' = Append(s_heard, r_tx_slot)
         \/ SenderStays
  BY DEF PongOnAir, SenderStays
<1>2. /\ r_mode = "TX" /\ r_mode' = "STDBY" /\ r_aired' = Append(r_aired, r_tx_slot)
      /\ UNCHANGED <<r_rx_slot, r_tx_slot, r_received, r_pc, r_call, r_irq_seen,
                     r_expired, r_got, r_ret, r_calls>>
  BY <1>1 DEF R!ChipTransmits, R!driverVars
<1>3. /\ r_call.op = "send_payload" /\ r_tx_slot = r_calls /\ r_calls = 3 * pongs + 3
      /\ pings = pongs + 1 /\ ~ReceiverWaiting /\ r_end # "starting"
  BY <1>2, PongUnderWay
<1>4. pongs' = pongs + 1 /\ r_aired'[pongs + 1] = r_calls
  <2>1. r_aired \in Seq(0..MaxCalls) /\ r_calls \in 0..MaxCalls
    BY DEF IInv, RP!IInv, RP!TypeOK
  <2> QED
    BY <1>2, <1>3, <2>1 DEF pongs
<1>5. RP!IInv'
  BY <1>1, ReceiverKeeps DEF IInv
<1>6. ReceiverTurn'
  <2>1. RP!Careful'
    <3>1. r_pc # "tx_next"
      BY <1>2 DEF IInv, RP!IInv, RP!Sending
    <3> QED
      BY <1>2, <3>1 DEF RP!Careful
  <2>2. r_calls' = 3 * pongs' /\ pongs' # 0 /\ r_call'.op = "send_payload"
    <3>1. r_calls' = 3 * pongs + 3 /\ r_call'.op = "send_payload"
      BY <1>2, <1>3
    <3>2. 3 * (pongs + 1) = 3 * pongs + 3 /\ pongs + 1 # 0
      BY Counters
    <3> QED
      BY <1>4, <3>1, <3>2
  <2>3. r_aired'[pongs'] = 3 * pongs'
    BY <1>3, <1>4, Counters
  <2>4. r_end' # "starting"
    BY <1>1, <1>3
  <2> QED
    BY <2>1, <2>2, <2>3, <2>4 DEF ReceiverTurn
<1>7. ~ReceiverWaiting'
  BY <1>2, <1>3 DEF ReceiverWaiting, RP!Waiting, RP!Returned
<1>8. ~ReadOk(r_pc, r_call, r_ret, r_got)'
  BY <1>2, <1>3 DEF ReadOk
<1>9. /\ SP!IInv' /\ SenderTurn' /\ pings' = pings /\ s_calls' = s_calls
      /\ s_heard' \in Seq(Nat) /\ Len(s_heard') = Len(s_received')
      /\ \A i \in DOMAIN s_heard': s_heard'[i] <= 3 * (pongs + 1)
      /\ SP!Waiting' /\ "RxDone" \in s_irq' => s_heard'[Len(s_heard')] = 3 * pings
      /\ ReadOk(s_pc, s_call, s_ret, s_got)' => s_heard'[s_got'] = s_calls'
  <2>1. ASSUME NEW good \in BOOLEAN, S!ChipReceives(good), s_heard' = Append(s_heard, r_tx_slot)
        PROVE  <1>9!:
    BY <1>1, <1>2, <2>1, PongHeard
  <2>2. CASE SenderStays
    <3>1. /\ SP!IInv' /\ SenderTurn' /\ pings' = pings
          /\ SP!Waiting' <=> SP!Waiting
          /\ ReadOk(s_pc, s_call, s_ret, s_got)' <=> ReadOk(s_pc, s_call, s_ret, s_got)
      BY <2>2, SenderStill
    <3>2. UNCHANGED <<s_heard, s_received, s_calls, s_irq, s_got>>
      BY <2>2 DEF SenderStays, s_radio
    <3>3. \A i \in DOMAIN s_heard: s_heard[i] <= 3 * (pongs + 1)
      <4> SUFFICES ASSUME NEW i \in DOMAIN s_heard PROVE s_heard[i] <= 3 * (pongs + 1)
        OBVIOUS
      <4>1. s_heard[i] <= 3 * pongs /\ s_heard[i] \in Nat
        BY DEF IInv, Heard
      <4>2. pongs \in Nat
        BY Counters
      <4> QED
        BY <4>1, <4>2, RoundLater
    <3> QED
      BY <3>1, <3>2, <3>3 DEF IInv, Heard, InRound, RoundsMatch
  <2> QED
    BY <1>1, <2>1, <2>2
<1>10. Counts'
  <2>1. pings' = pongs + 1 /\ pongs' = pongs + 1 /\ r_calls' = 3 * pongs + 3
    BY <1>2, <1>3, <1>4, <1>9
  <2>2. pongs + 1 <= pongs + 1 /\ pongs + 1 <= (pongs + 1) + 1 /\ 3 * pongs + 3 # 3 * (pongs + 1) + 3
    BY Counters, NextRound
  <2>3. pongs' <= pings' /\ pings' <= pongs' + 1
    BY <2>1, <2>2
  <2>4. s_calls' = 3 * pings' + 1 => pongs' = pings'
    BY <2>1
  <2>5. r_calls' # 3 * pongs' + 3
    BY <2>1, <2>2
  <2> QED
    BY <2>3, <2>4, <2>5 DEF Counts
<1>11. Heard'
  <2>1. \A i \in DOMAIN r_heard': r_heard'[i] + 2 <= 3 * pings'
    BY <1>1, <1>9 DEF IInv, Heard
  <2> QED
    BY <1>1, <1>2, <1>4, <1>9, <2>1 DEF IInv, Heard
<1>12. InRound'
  BY <1>7, <1>9 DEF InRound
<1>13. RoundsMatch'
  BY <1>8, <1>9 DEF RoundsMatch
<1>14. PassedMeansAnswered'
  <2> SUFFICES ASSUME s_end = "passed" PROVE FALSE
    BY <1>1 DEF PassedMeansAnswered
  <2>1. pongs = ROUNDS /\ r_calls = 3 * ROUNDS
    BY DEF IInv, PassedMeansAnswered, pongs, MaxCalls
  <2> QED
    BY <1>3, <2>1, RoundsAssumption
<1> QED
  BY <1>5, <1>6, <1>9, <1>10, <1>11, <1>12, <1>13, <1>14 DEF IInv

-----------------------------------------------------------------------------
(* The theorems.                                                           *)

LEMMA InitIInv == Init => IInv
<1> SUFFICES ASSUME Init PROVE IInv
  OBVIOUS
<1>1. /\ S!Init /\ s_end = "running" /\ s_heard = <<>>
      /\ R!Init /\ r_end = "starting" /\ r_heard = <<>>
  BY DEF Init
<1>2. SP!Init /\ RP!Init
  BY <1>1 DEF S!Init, R!Init, SP!Init, RP!Init, S!Blank, R!Blank, SP!Blank, RP!Blank
<1>3. SP!IInv /\ RP!IInv
  BY <1>2, SP!InitIInv, RP!InitIInv, Parameters
<1>4. /\ s_mode = "SLEEP" /\ s_irq = {} /\ s_aired = <<>> /\ s_received = <<>> /\ s_pc = "idle"
      /\ s_call.op = "read_last_payload" /\ s_ret = "none" /\ s_calls = 0
  BY <1>2 DEF SP!Init
<1>5. /\ r_mode = "SLEEP" /\ r_irq = {} /\ r_aired = <<>> /\ r_received = <<>> /\ r_pc = "idle"
      /\ r_call.op = "read_last_payload" /\ r_ret = "none" /\ r_calls = 0
  BY <1>2 DEF RP!Init
<1>6. pings = 0 /\ pongs = 0 /\ <<>> \in Seq(Nat) /\ DOMAIN <<>> = {}
  BY <1>4, <1>5, EmptySeq DEF pings, pongs
<1>7. SenderTurn /\ ReceiverTurn
  BY <1>4, <1>5, <1>6 DEF SenderTurn, ReceiverTurn, SP!Careful, RP!Careful
<1>8. Counts /\ Heard /\ InRound
  BY <1>1, <1>4, <1>5, <1>6 DEF Counts, Heard, InRound
<1>9. RoundsMatch /\ PassedMeansAnswered
  BY <1>1, <1>4, <1>5 DEF RoundsMatch, ReadOk, PassedMeansAnswered
<1> QED
  BY <1>3, <1>7, <1>8, <1>9 DEF IInv

LEMMA IInvStep == IInv /\ [Next]_vars => IInv'
<1> SUFFICES ASSUME IInv, [Next]_vars PROVE IInv'
  OBVIOUS
<1>1. CASE UNCHANGED vars
  <2>1. SenderStays /\ ReceiverStays
    BY <1>1 DEF vars, sender, receiver, SenderStays, ReceiverStays
  <2>2. ReceiverTurn' /\ RP!IInv' /\ (ReceiverWaiting' <=> ReceiverWaiting)
        /\ (ReadOk(r_pc, r_call, r_ret, r_got)' <=> ReadOk(r_pc, r_call, r_ret, r_got))
    BY <2>1, ReceiverStill
  <2>3. UNCHANGED <<r_heard, r_received, r_aired, r_irq, r_calls, r_got>>
    BY <2>1 DEF ReceiverStays, r_radio
  <2> QED
    BY <2>1, <2>2, <2>3, ReceiverAlone DEF IInv, Counts, InRound, RoundsMatch
<1> QED
  BY <1>1, SenderCallsStep, SenderEndsStep, SenderDrivesStep, SenderExpiresStep,
     ReceiverStartsStep, ReceiverCallsStep, ReceiverEndsStep, ReceiverDrivesStep,
     ReceiverExpiresStep, PingOnAirStep, PongOnAirStep
     DEF Next, SenderStep, ReceiverStep

LEMMA Inductive == Spec => []IInv
BY InitIInv, IInvStep, PTL DEF Spec

\* The pong read in a round is the answer to that round's ping, and the ping read
\* is that round's, whatever flags and frames the round before has left behind
\* (run_sender, run_receiver).
THEOREM RoundsMatchCorrect == Spec => []RoundsMatch
BY Inductive, PTL DEF IInv

\* A sender that reports "test passed" has had every ping answered, and the
\* receiver has made all of its calls.
THEOREM PassedMeansAnsweredCorrect == Spec => []PassedMeansAnswered
BY Inductive, PTL DEF IInv
=============================================================================
