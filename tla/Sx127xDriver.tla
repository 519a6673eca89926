---------------------------- MODULE Sx127xDriver ----------------------------
(***************************************************************************)
(* The driver's send and receive sequences (src/sx127x_driver.c) and the   *)
(* packet functions right above them (read_last_packet in                  *)
(* src/sx127x_rx_utils.c, sx1278_poll_and_read_packet and                  *)
(* sx_1278_send_packet in src/sx127x_utils.c), one register access at a    *)
(* time, against a chip that goes on receiving and transmitting between    *)
(* any two of them.                                                        *)
(*                                                                         *)
(* One thread makes the calls: pc is where it stands, call what it is      *)
(* doing.  Accesses are taken together only where the radio is in standby, *)
(* so that nothing can come between them.  The chip's part (mode, irq, the *)
(* FIFO) is modelled from how the driver uses it: interrupt flags stay set *)
(* until they are cleared, a transmission or a single reception ends in    *)
(* standby, leaving a mode abandons what was going on in it.  What is sent *)
(* and what is received share the FIFO: initialize_sx_1278 gives both the  *)
(* base address 0 (src/sx127x_config.c:170-181).                           *)
(***************************************************************************)
EXTENDS Naturals, Sequences

CONSTANTS
  MaxCalls,      \* calls the application makes
  MaxFrames,     \* frames that reach the chip
  SpiFaults,     \* whether register accesses may fail: a set of Booleans
  CrcErrors      \* a frame may arrive damaged

ASSUME BoundsAssumption == MaxCalls \in Nat /\ MaxFrames \in Nat
ASSUME FaultsAssumption == SpiFaults \subseteq BOOLEAN /\ CrcErrors \in BOOLEAN

VARIABLES
  spi_fails,     \* register accesses may fail, in this behaviour
  mode,          \* RegOpMode
  irq,           \* RegIrqFlags
  rx_slot,       \* what the FIFO has at FifoRxCurrentAddr, 0 before the first frame
  tx_slot,       \* the frame loaded at the FIFO's base, 0 when undefined
  aired,         \* frames transmitted, in order
  received,      \* frames received so far, with their integrity
  pc, call,      \* the driver's place and the call it serves
  irq_seen,      \* data: the flags as read
  expired,       \* elapsed_us > timeout_us
  got, ret,      \* what the call returned
  calls          \* calls made so far

chipVars == <<mode, irq, rx_slot, tx_slot, aired, received>>
driverVars == <<pc, call, irq_seen, expired, got, ret, calls, spi_fails>>
vars == <<chipVars, driverVars>>

Flags == {"RxDone", "CrcErr", "TxDone"}
Modes == {"SLEEP", "STDBY", "TX", "RX_SINGLE", "RX_CONTINUOUS"}

\* Contents a read can produce besides a received frame: none, because no byte
\* was copied (a buffer of zeros once read_last_packet owns it), or bytes that the
\* node itself has loaded to send where a received frame was.
Blank == 0
Own == MaxFrames + 1

\* The calls that are counted; "listen" is the receive loop's re-arming.
Ops ==
  {"send_payload", "poll_for_irq_flag", "read_last_payload", "read_last_packet",
   "poll_and_read_packet"}

-----------------------------------------------------------------------------
(* The chip.                                                               *)

\* A frame arrives while the radio listens: FifoRxCurrentAddr moves to it.  The first
\* one after the radio began to listen is written to the FIFO's base.
ChipReceives(good) ==
  /\ mode \in {"RX_SINGLE", "RX_CONTINUOUS"}
  /\ Len(received) < MaxFrames
  /\ received' = Append(received, good)
  /\ rx_slot' = Len(received) + 1
  /\ irq' = irq \cup {"RxDone"} \cup IF good THEN {} ELSE {"CrcErr"}
  /\ mode' = IF mode = "RX_SINGLE" THEN "STDBY" ELSE mode
  /\ tx_slot' = Blank
  /\ UNCHANGED <<aired, driverVars>>

\* A single reception without a preamble within the symbol timeout is over, long
\* before the driver's own timeout when symbols are short.  (The driver never
\* looks at the flag that tells so.)
ChipGivesUp ==
  /\ mode = "RX_SINGLE"
  /\ mode' = "STDBY"
  /\ UNCHANGED <<irq, rx_slot, tx_slot, aired, received, driverVars>>

ChipTransmits ==
  /\ mode = "TX"
  /\ aired' = Append(aired, tx_slot)
  /\ irq' = irq \cup {"TxDone"}
  /\ mode' = "STDBY"
  /\ UNCHANGED <<rx_slot, tx_slot, received, driverVars>>

\* The poll's time is up.
TimerExpires ==
  /\ pc \in {"poll", "clock"}
  /\ ~expired
  /\ expired' = TRUE
  /\ UNCHANGED <<chipVars, pc, call, irq_seen, got, ret, calls, spi_fails>>

-----------------------------------------------------------------------------
(* Register accesses.  A failed one leaves the register as it was.         *)

switch_mode(m) == mode' = m /\ UNCHANGED <<irq, rx_slot, tx_slot, aired, received>>
clear_irq == irq' = {} /\ UNCHANGED <<mode, rx_slot, tx_slot, aired, received>>

Goto(l) == pc' = l /\ UNCHANGED <<got, ret>>
Return(code) == pc' = "idle" /\ ret' = code /\ UNCHANGED got

\* At pc = l, the access either works and control goes on, or fails.
At(l) == pc = l /\ UNCHANGED <<call, calls, irq_seen, expired, spi_fails>>
Fails == spi_fails /\ UNCHANGED chipVars

-----------------------------------------------------------------------------
(* Calls.                                                                  *)

\* The application calls op; frame and next are send_payload's arguments.
Call(op, next) ==
  /\ pc = "idle"
  /\ calls < MaxCalls
  /\ calls' = calls + 1
  /\ call' = [op |-> op, next |-> next, frame |-> calls + 1]
  /\ got' = Blank
  /\ ret' = "none"
  /\ expired' = FALSE
  /\ irq_seen' = {}
  /\ pc' = CASE op = "send_payload" -> "tx_stdby"
             [] op = "poll_for_irq_flag" -> "poll"
             [] op = "poll_and_read_packet" -> "rx_single"
             [] OTHER -> "rd_stdby"
  /\ UNCHANGED <<chipVars, spi_fails>>

\* The receive loop is started, or begins its next round.
Listen ==
  /\ pc = "idle"
  /\ pc' \in {"ls_mode", "ls_clear"}
  /\ call' = [op |-> "listen", next |-> "SLEEP", frame |-> calls]
  /\ got' = Blank
  /\ ret' = "none"
  /\ expired' = FALSE
  /\ irq_seen' = {}
  /\ UNCHANGED <<chipVars, calls, spi_fails>>

-----------------------------------------------------------------------------
(* start_rx_loop up to its poll.                                           *)

ListenFirst ==
  /\ At("ls_mode")
  /\ \/ switch_mode("RX_CONTINUOUS") /\ Goto("ls_clear")
     \/ Fails /\ Return("SX_ERROR")

ListenClear ==
  /\ At("ls_clear")
  /\ \/ clear_irq /\ Goto("ls_start")
     \/ Fails /\ Return("SX_ERROR")

ListenStart ==
  /\ At("ls_start")
  /\ \/ switch_mode("RX_CONTINUOUS") /\ Return("SX_OK")
     \/ Fails /\ Return("SX_ERROR")

-----------------------------------------------------------------------------
(* sx1278_send_payload.                                                    *)

SendStdby ==
  /\ At("tx_stdby")
  /\ \/ switch_mode("STDBY") /\ Goto("tx_load")
     \/ Fails /\ Return("SX_ERROR")

\* (Mutant of SendLoad: a failure while loading is not looked at.)
LoadUnchecked ==
  /\ At("tx_load")
  /\ tx_slot' = call.frame \/ (spi_fails /\ tx_slot' \in {tx_slot, Blank})
  /\ rx_slot' \in {rx_slot, Own}
  /\ Goto("tx_clear")
  /\ UNCHANGED <<mode, irq, aired, received>>

\* FIFO pointer, payload length and payload; a failure among them leaves what is
\* loaded undefined.  A received frame at the base is overwritten; one that a
\* continuous reception put further up may escape.
SendLoad ==
  /\ At("tx_load")
  /\ \/ tx_slot' = call.frame /\ Goto("tx_clear")
     \/ spi_fails /\ tx_slot' \in {tx_slot, Blank} /\ Return("SX_ERROR")
  /\ rx_slot' \in {rx_slot, Own}
  /\ UNCHANGED <<mode, irq, aired, received>>

\* (Mutant of SendClear: the flags of an earlier transmission stay.)
SendKeepsFlags == At("tx_clear") /\ UNCHANGED chipVars /\ Goto("tx_start")

SendClear ==
  /\ At("tx_clear")
  /\ \/ clear_irq /\ Goto("tx_start")
     \/ Fails /\ Return("SX_ERROR")

SendStart ==
  /\ At("tx_start")
  /\ \/ switch_mode("TX") /\ Goto("poll")
     \/ Fails /\ Return("SX_ERROR")

SendClearDone ==
  /\ At("tx_done")
  /\ \/ clear_irq /\ Goto("tx_next")
     \/ Fails /\ Return("SX_ERROR")

SendNext ==
  /\ At("tx_next")
  /\ \/ switch_mode(call.next) /\ Return("SX_OK")
     \/ Fails /\ Return("SX_ERROR")

-----------------------------------------------------------------------------
(* poll_for_irq_flag: look at the flags, then at the clock, then again.    *)

PollMask == IF call.op = "send_payload" THEN "TxDone" ELSE "RxDone"

\* The flags are cleared on the way out only where the caller asked for it.
PollLeaves(cleared) ==
  IF call.op = "send_payload" /\ cleared THEN clear_irq ELSE UNCHANGED chipVars

PollReturns(code) ==
  CASE call.op = "poll_and_read_packet" ->
         IF code = "SX_OK" THEN Goto("rx_stdby")
                           ELSE pc' = "cleanup" /\ ret' = code /\ UNCHANGED got
    [] call.op = "send_payload" /\ code = "SX_OK" -> Goto("tx_done")
    [] OTHER -> Return(code)

\* The clean-up write is allowed to fail: its result is not looked at.
PollFlag ==
  /\ At("poll")
  /\ \/ PollMask \in irq /\ PollLeaves(TRUE) /\ PollReturns("SX_OK")
     \/ PollMask \in irq /\ spi_fails /\ PollLeaves(FALSE) /\ PollReturns("SX_OK")
     \/ PollMask \notin irq /\ UNCHANGED chipVars /\ Goto("clock")
     \/ spi_fails /\ \E c \in BOOLEAN: PollLeaves(c) /\ PollReturns("SX_ERROR")

\* (Mutant of PollClock: no look at the clock.)
PollForever == At("clock") /\ UNCHANGED chipVars /\ Goto("poll")

PollClock ==
  /\ At("clock")
  /\ \/ ~expired /\ UNCHANGED chipVars /\ Goto("poll")
     \/ expired /\ PollLeaves(TRUE) /\ PollReturns("SX_TIMEOUT")
     \/ expired /\ spi_fails /\ PollLeaves(FALSE) /\ PollReturns("SX_TIMEOUT")

-----------------------------------------------------------------------------
(* sx1278_poll_and_read_packet around read_last_packet around              *)
(* sx1278_read_last_payload.                                               *)

RxSingle ==
  /\ At("rx_single")
  /\ \/ switch_mode("RX_SINGLE") /\ Goto("poll")
     \/ Fails /\ pc' = "cleanup" /\ ret' = "SX_ERROR" /\ UNCHANGED got

RxStdby ==
  /\ At("rx_stdby")
  /\ \/ switch_mode("STDBY") /\ Goto("rd_stdby")
     \/ Fails /\ pc' = "cleanup" /\ ret' = "SX_ERROR" /\ UNCHANGED got

\* (Mutant of CleanupClear: the flags stay.)
CleanupKeepsFlags == At("cleanup") /\ UNCHANGED chipVars /\ Goto("cl_stdby")

\* Two writes end every reception, and neither result is looked at.  After a
\* timeout the radio may still be receiving between them.
CleanupClear ==
  /\ At("cleanup")
  /\ clear_irq \/ Fails
  /\ Goto("cl_stdby")

CleanupStdby ==
  /\ At("cl_stdby")
  /\ switch_mode("STDBY") \/ Fails
  /\ Goto("idle")

\* sx1278_read_last_payload ends: to its caller, or into read_last_packet,
\* which does not look at the code.
ReadReturns(code, content) ==
  /\ got' = content
  /\ ret' = code
  /\ pc' = IF call.op = "read_last_payload" THEN "idle" ELSE "parse"

\* (Mutant of ReadStdby: the radio goes on listening while it is read.)
ReadWhileListening == At("rd_stdby") /\ UNCHANGED chipVars /\ Goto("rd_irq")

ReadStdby ==
  /\ At("rd_stdby")
  /\ \/ switch_mode("STDBY") /\ Goto("rd_irq")
     \/ Fails /\ ReadReturns("SX_ERROR", Blank)

ReadIrq ==
  /\ pc = "rd_irq"
  /\ UNCHANGED <<call, calls, expired, spi_fails>>
  /\ \/ irq_seen' = irq /\ Goto("rd_check") /\ UNCHANGED chipVars
     \/ Fails /\ UNCHANGED irq_seen /\ ReadReturns("SX_ERROR", Blank)

ClearOnError == clear_irq \/ Fails

\* (Mutant of ReadCheck: the CRC flag is not looked at.)
ReadIgnoringCrc ==
  /\ At("rd_check")
  /\ \/ "RxDone" \notin irq_seen /\ ClearOnError /\ ReadReturns("SX_INVALID_STATE", Blank)
     \/ "RxDone" \in irq_seen /\ UNCHANGED chipVars /\ Goto("rd_len")

ReadCheck ==
  /\ At("rd_check")
  /\ \/ /\ "RxDone" \notin irq_seen
        /\ ClearOnError
        /\ ReadReturns("SX_INVALID_STATE", Blank)
     \/ /\ {"RxDone", "CrcErr"} \subseteq irq_seen
        /\ ClearOnError
        /\ ReadReturns("SX_INVALID_CRC", Blank)
     \/ /\ "RxDone" \in irq_seen /\ "CrcErr" \notin irq_seen
        /\ UNCHANGED chipVars
        /\ Goto("rd_len")

\* The number of bytes; when it cannot be read it stays 0 and nothing tells.
ReadLen ==
  /\ At("rd_len")
  /\ UNCHANGED chipVars
  /\ \/ Goto("rd_fifo")
     \/ spi_fails /\ Goto("rd_none")

\* (Mutant of ReadFifo: the FIFO pointer is left behind the frame.)
ReadPastFrame == At("rd_fifo") /\ ClearOnError /\ ReadReturns("SX_OK", rx_slot + 1)

\* FIFO pointer, payload, flags cleared (whose result is not looked at).
ReadFifo ==
  /\ At("rd_fifo")
  /\ \/ ClearOnError /\ ReadReturns("SX_OK", rx_slot)
     \/ spi_fails /\ ClearOnError /\ ReadReturns("SX_ERROR", Blank)

ReadNothing ==
  /\ At("rd_none")
  /\ \/ ClearOnError /\ ReadReturns("SX_OK", Blank)
     \/ spi_fails /\ ClearOnError /\ ReadReturns("SX_ERROR", Blank)

\* read_last_packet parses whatever the buffer holds and reports success.
ParsePacket ==
  /\ At("parse")
  /\ ClearOnError
  /\ ret' = "SX_OK"
  /\ UNCHANGED got
  /\ pc' = IF call.op = "read_last_packet" THEN "idle" ELSE "cleanup"

-----------------------------------------------------------------------------
Init ==
  /\ spi_fails \in SpiFaults
  /\ mode = "SLEEP"
  /\ irq = {}
  /\ rx_slot = Blank
  /\ tx_slot = Blank
  /\ aired = <<>>
  /\ received = <<>>
  /\ pc = "idle"
  /\ call = [op |-> "read_last_payload", next |-> "SLEEP", frame |-> 0]
  /\ irq_seen = {}
  /\ expired = FALSE
  /\ got = Blank
  /\ ret = "none"
  /\ calls = 0

ChipStep ==
  \/ \E good \in {TRUE} \cup {~CrcErrors}: ChipReceives(good)
  \/ ChipGivesUp
  \/ ChipTransmits

DriverStep ==
  \/ ListenFirst \/ ListenClear \/ ListenStart
  \/ SendStdby \/ SendLoad \/ SendClear \/ SendStart \/ SendClearDone \/ SendNext
  \/ PollFlag \/ PollClock
  \/ RxSingle \/ RxStdby \/ CleanupClear \/ CleanupStdby
  \/ ReadStdby \/ ReadIrq \/ ReadCheck \/ ReadLen \/ ReadFifo \/ ReadNothing
  \/ ParsePacket

Next ==
  \/ ChipStep
  \/ TimerExpires
  \/ DriverStep
  \/ Listen
  \/ \E op \in Ops, next \in {"SLEEP", "RX_CONTINUOUS"}:
       (op # "send_payload" => next = "SLEEP") /\ Call(op, next)

Spec == Init /\ [][Next]_vars

\* The driver's thread runs and the clock moves; the chip owes nothing.
FairSpec == Spec /\ WF_vars(DriverStep) /\ WF_vars(TimerExpires)

-----------------------------------------------------------------------------
Labels ==
  {"idle", "ls_mode", "ls_clear", "ls_start", "tx_stdby", "tx_load", "tx_clear",
   "tx_start", "tx_done", "tx_next", "poll", "clock", "rx_single", "rx_stdby", "cleanup",
   "cl_stdby", "rd_stdby", "rd_irq", "rd_check", "rd_len", "rd_fifo", "rd_none", "parse"}

\* SX_ERROR stands for the code the SPI port came back with.
Codes ==
  {"none", "SX_OK", "SX_ERROR", "SX_TIMEOUT", "SX_INVALID_STATE", "SX_INVALID_CRC"}

\* Registers and locals have their types; a read never yields a frame that has
\* not arrived.
TypeOK ==
  /\ spi_fails \in SpiFaults
  /\ mode \in Modes
  /\ irq \subseteq Flags
  /\ rx_slot \in 0..Len(received) \cup {Own}
  /\ tx_slot \in 0..MaxCalls
  /\ aired \in Seq(0..MaxCalls)
  /\ received \in Seq(BOOLEAN) /\ Len(received) <= MaxFrames
  /\ pc \in Labels
  /\ call \in [op: Ops \cup {"listen"}, next: Modes, frame: 0..MaxCalls]
  /\ irq_seen \subseteq Flags
  /\ expired \in BOOLEAN
  /\ got \in 0..Len(received) \cup {Own}
  /\ ret \in Codes
  /\ calls \in 0..MaxCalls

Returned(op, code) == pc = "idle" /\ call.op = op /\ ret = code

\* send_payload's SX_OK means that this call put its frame on the air, once, and
\* that nothing has gone out after it: no flag or buffer of an earlier call that
\* failed is mistaken for this one's.
SentIsAired ==
  Returned("send_payload", "SX_OK") =>
    {i \in DOMAIN aired: aired[i] = call.frame} = {Len(aired)}

\* Half-loaded buffers never go out.
NothingUndefinedAired == \A i \in DOMAIN aired: aired[i] # Blank

\* Unless accesses fail, read_last_payload's SX_OK means that the caller has the
\* last frame that arrived, and that it arrived intact.
ReadIsLastGoodFrame ==
  ~spi_fails /\ Returned("read_last_payload", "SX_OK") =>
    /\ got = Len(received)
    /\ got # Blank
    /\ received[got]

\* Whatever reaches the packet layer as a received frame's content arrived intact;
\* the node's own bytes reach it only when accesses fail, although what is sent is
\* loaded over what was received.
NoDamagedContent ==
  /\ got \notin {Blank, Own} => received[got]
  /\ got = Own => spi_fails

\* The flags that the last frame has raised.
LastFlags == {"RxDone"} \cup IF received[Len(received)] THEN {} ELSE {"CrcErr"}

\* Unless accesses fail, the radio is in standby after a reception, whatever came of
\* it, and its flags are cleared, with one exception: an answer that came after the
\* timeout, between the two writes, is still flagged, and is the frame to be read.
ReceptionEndsClean ==
  ~spi_fails /\ pc = "idle" /\ call.op = "poll_and_read_packet" /\ ret # "none" =>
    /\ mode = "STDBY"
    /\ irq # {} =>
         /\ ret = "SX_TIMEOUT"
         /\ rx_slot = Len(received) /\ rx_slot # Blank
         /\ irq = LastFlags

\* read_last_payload's SX_OK never comes with bytes that the node has itself loaded
\* to send.  Not so when accesses fail: see section 5 of the README.
PayloadIsReceived == Returned("read_last_payload", "SX_OK") => got # Own

\* poll_and_read_packet's SX_OK means that a packet was received.  Not so when it was
\* damaged, or when accesses fail: see section 5 of the README.
PacketIsReceived == Returned("poll_and_read_packet", "SX_OK") => got # Blank

\* Every call comes back.
CallsReturn == []<>(pc = "idle")
=============================================================================
