# Formal model of the LoRa driver and its networking layer

TLA+ modules for the SX1278 driver in `src/`, the TLC configurations that check them, and
TLAPS proofs. Paths such as `src/rx_packet_handler.c` are relative to the repository's root;
`PROJECT.json` maps every definition to the lines it models.

## 1. Inventory

| Component | State | Operations | Talks to |
|---|---|---|---|
| `packet` | none of its own: structs and payloads on the heap | construct, classify, compare, serialise, parse, copy, free | everything above the driver |
| `network_data_operations` | none | `data_to_packet_array`, `packet_array_to_data` | application, `send_burst` |
| `rx_packet_handler` | one context: addresses, the running capture (flag, ack_id, array, index), the (ack_id, number) pair received last | init, set remote, reset, `rx_packet_handler` | called by the receive loop, calls the application's command and end call-backs |
| `sx127x_rx_utils` | the packet in hand, a static receive buffer | `start_rx_loop`, `read_last_packet` | driver below, handler above |
| `sx127x_utils` | retry counter, place in the burst, a static transmit buffer | `send_burst`, `send_packet_ensure_ack`, `sx1278_poll_and_read_packet`, `sx_1278_send_packet`, channel scan | driver and config below |
| `sx127x_driver` | none of its own: the chip's mode, flags and FIFO | `sx1278_send_payload`, `sx1278_read_last_payload`, `poll_for_irq_flag` | chip over `spi_port`, `sx127x_timer` |
| `sx127x_config` | remembered bandwidth and spreading factor, next to the chip's registers | initialise, set bandwidth, set spreading factor, switch channel | chip over `spi_port` |
| `spi_port`, `sx127x_timer`, `logger` | call-backs | forward | application |
| example `burst` | a sender's task, a receiver's task with a loop of its own | send one burst, receive one burst | `send_burst`, `rx_packet_handler` |
| example `pingpong` | the round | send a ping and wait for the pong, five times; the reverse | `sx127x_driver` only |

What is hard here:

* **Nodes are concurrent and radios half-duplex.** A frame reaches only the radios that listen at
  that moment; a receiver that reads, acknowledges or handles a frame hears nothing. Any frame may be
  lost or damaged, acknowledgements too, and nothing in a frame tells an acknowledgement
  from the packet it acknowledges when both are empty.
* **The acknowledgement precedes the handling.** `start_rx_loop` acknowledges a frame before
  `rx_packet_handler` sees it, so the sender's view runs ahead of the host's.
* **The duplicate filter remembers one packet**, and starts with a value that a packet can have.
* **Captures outlive senders.** A sender that gives up leaves the host in the middle of a capture.
* **The chip runs on its own** between any two register accesses: frames arrive, transmissions end,
  flags stay set until cleared, and timeouts race with them.
* **Every register access may fail**, and several results are not looked at.
* **Two copies of the configuration**, in the driver and in the chip.
* **One struct for all packets received.** The loop parses every frame into it, so whatever is kept has
  to be copied, payload included; senders free packets one by one as they are acknowledged.
* **Programs that end.** The burst example's receiver is gone after END; the ping-pong example stops at
  the first failure, on one side only.

What makes each component correct: the handler hands over exactly the fragments of one transfer, in
order, once (`CaptureSession`); sender and host together implement a reliable transfer (`Transfer`);
a success code of the driver means that this call's frame was aired, or, where register accesses
work, that the last intact frame was read; the remembered configuration is the chip's, and the radio is on a channel of the plan;
serialising, fragmenting and their inverses lose nothing; freed memory is not touched and what is
captured keeps its contents; the examples' two sides end, and what they report is true.

## 2. Modules

```
Packet ──── RxPacketHandler ──── RxPacketHandler_proofs
   │             │   └─ refines CaptureSession
   └──────── LoraLink ─ refines Transfer        (INSTANCE RxPacketHandler)
                 ├─── LoraLink_proofs
                 └─── BurstExample ──── BurstExample_proofs   (with LoraLink_proofs)
Sx127xDriver ── Sx127xDriver_proofs     Channels
   └──── PingPong ── PingPong_proofs       └────── Sx127xConfig ── Sx127xConfig_proofs
      (two INSTANCEs each)
Fragmentation ── Fragmentation_proofs   PacketHeap ── PacketHeap_proofs
```

* **`Packet`** The frame (`packet.c`, `packet.h`). `check_packet_type` looks at the payload only to
  see whether it is empty, so a payload is an opaque value or `NoPayload`. `UINT8_MAX` is a
  parameter: with 3 or 4 in place of 255 the END number, the capacity `UINT8_MAX - 1` of the
  capture array and the overflow of sequence numbers come within reach of TLC.
* **`RxPacketHandler`** One context. The variables are the fields of `rx_handler_ctx_t` (the two
  call-back pointers are what `upcall` records, `host_addr` is a parameter); `ret` is the return
  value. One action per path through `rx_packet_handler`, and one for each other
  function. The copies made by `copy_packet` are the packets themselves.
* **`CaptureSession`** What the handler promises. The refinement maps a running capture to an open
  session and the first `captured_n` array entries to its items.
* **`LoraLink`** Sender, host and bystanders on one air. `s_pc`, `idx` and `attempt` are the sender's
  place in `send_burst` and `send_packet_ensure_ack`; `mode` and `fifo` are each node's radio as
  far as frames go; `pc` and `rx_p` its place in `start_rx_loop`. The host's handler is the module
  above. Each step is what a node does between two moments at which its radio's
  state matters to the others. `faults`, chosen from `FaultSets` at the start, is what may go wrong.
* **`BurstExample`** The burst example: `LoraLink`'s sender, radios and air, with the example's own
  receive loop as the host. `MayFail` is a register access whose result the loop drops; a
  receiver that calls the null command call-back is in state `panic`.
* **`Transfer`** What the link promises: a transfer is handed over at most once, whole and in order,
  and reported `SX_OK` only when handed over. The refinement counts a call-back as made from
  the moment at which the packet that causes it has been acknowledged and the
  handler is about to be called (`InHand`), because that is when the sender may learn of it.
* **`Sx127xDriver`** One register access a step, for the calls of `sx127x_driver.c`, `read_last_packet`,
  `sx1278_poll_and_read_packet` and the head of `start_rx_loop`. Accesses are one step only where the radio is in
  standby and nothing can come between them (the four that load a frame, those that fetch one). The chip (`ChipReceives`, `ChipTransmits`) is modelled from how
  the driver uses it. Frames sent carry the number of the call that sent them and frames received
  their position, so it can be told which frame was aired or read. Both share the FIFO, whose base addresses
  `initialize_sx_1278` sets to 0: loading a frame may leave the node's own bytes (`Own`) where a received frame
  was, and receiving one undoes what was loaded. `SX_ERROR` is whatever the SPI port returned.
* **`PingPong`** Both programs of the example, one call of the driver after the other, over two copies of
  `Sx127xDriver`; a frame transmitted by one is received by the other if it listens. The strings of all
  rounds are alike, but the model's frames carry the call that sent them (`s_heard`, `r_heard`).
* **`Channels`** The channel plan's arithmetic, and the time a frame takes on the air: the chip's formula,
  which reproduces the table at `README.md:143`. The 64-bit shift of the code is rearranged to fit TLC's
  integers; the value is the same.
* **`Sx127xConfig`** Configuration and channel scan. One thread writes these registers, so a call is one
  step to one of its outcomes, one for each choice of accesses that fail; `Then` and
  `Always` say whether the code goes on after a failure. Registers written only with constants
  appear as accesses that may fail. Of the modem's registers the bandwidth, coding rate, header
  mode and spreading factor are kept. Modes are named, so a chip in FSK sleep differs from one in LoRa sleep.
* **`Fragmentation`** Bytes: fragmentation, serialisation through the two static buffers, parsing,
  reassembly. Addresses take two bytes, whatever a byte's range. For no data the C library may answer `malloc(0)` with
  NULL; the call fails then and leaves nothing to send (`Built` has both outcomes).
* **`PacketHeap`** Who owns packets: blocks of memory, live or freed, through `copy_packet`, `parse_packet`,
  `free_packet` and their callers on both sides. What the handler does with a packet is left open
  (`RxPacketHandler` says it), so any packet may be captured, given away or dropped. A block is never
  given out twice, so that a stale pointer stays recognisable.
* `MC*` modules give the constants of the runs their values.

Definitions marked "Mutant of ..." are slips a programmer could have made; each property is shown to
fail when one of them takes the place of the definition it names.

## 3. Runs

| Run | Question | Bounds |
|---|---|---|
| `RxHandlerAny` | Does the handler implement a session whatever arrives, and whenever it is reset, re-initialised or re-targeted? | `UINT8_MAX = 3`: two slots; any packet from two remotes |
| `LinkLossy` | Is a lossy link, used within its rules, a reliable transfer? Can the duplicate filter lock out a fragment? Does everything arrive when the air loses nothing? | up to three transfers, up to three fragments; four attempts per packet as in the code |
| `LinkFaults` | What survives failing accesses, a restart of the host and an application that goes on after a failure? Is there always a verdict? | two transfers of two fragments, two attempts, one restart |
| `Burst` | Does the burst example, which ignores most results, keep its promises: no null call-back, no false report, both tasks end? What survives a third node's acknowledgements? | one burst of two fragments, three attempts |
| `PingPong` | Can rounds be mixed up by stale flags or buffers? Does either side hang? Does the test pass on a perfect air? | five rounds, as in the code |
| `Driver` | Does a send's success mean that its frame went out, even if accesses fail? Does a read's success mean the last intact frame, where they work (`spi_fails` is chosen at the start)? What do they leave behind, and do they return? | three calls and two frames |
| `Config` | Is the radio on a channel of the plan, is the remembered configuration the chip's, and does every frame fit the driver's timeout, with failing accesses and a chip that may refuse to leave LoRa mode? | bandwidths from 125 kHz, the ends of the ranges of factors and coding rates, a few channels, some arguments out of range |
| `Fragments` | Do data survive the byte level? | eight bytes of two values, two to a packet, bytes up to 5 |
| `Memory` | Is freed memory ever touched, and does what is captured stay what it was? | a burst of one fragment, two attempts, four packets received, the loop started twice |

The rules under which `LinkLossy` holds are in `MCLoraLink`: `GoodIds` has no ack_id 0, no command
followed by another packet number 0 with its ack_id, and bursts that fit the capture array; the application stops
after a failed transfer; no third node; no failing access. Each rule is needed: the runs of section 5
and the variations listed there drop them one at a time. `Burst` leaves the third node out of all
properties but `NothingMixed` and `AllReported` (`Undisturbed`) for the same reason.

The bounds suffice because of how little the code remembers: the handler keeps one pair of numbers and
compares indices by equality, so two transfers show every interaction of a
transfer with the one before; three fragments give a first, a middle and a last one; two slots
in the capture array give an empty, a partial and a full one. Two attempts already give a lost
first and a successful second one; `LinkLossy` has the code's own number, four. In memory, a struct is
shared by the packet before and the packet after; four packets are a whole burst with two fragments,
or a capture that outlives a run of the loop. In the driver three
calls suffice to have a stale flag or frame of one call met by the next and looked at by a third.

### Fairness

`LoraLink!Fairness`: weak fairness of the sender's program, of the application's next
submission and of each node's receive loop. These are tasks that a preemptive scheduler keeps running
(`examples/esp32c3_6/burst/main/main.c` creates one task for each role). No fault has to happen, and
none has to stop happening: a verdict is due although every frame is lost. Without faults
a poll times out only when no node has anything left to do with the last frame (`AirQuiet`): it
stands for 3000 ms exceeding what a receiver needs for one frame.
`BurstExample!BurstSpec`: the same, with the example's `rx_task` as the host's loop.
`Sx127xDriver!FairSpec`: the calling thread runs and the clock moves; the chip owes nothing.
`PingPong!Spec`: both programs run and both clocks move. Only with `air = "perfect"` does the air owe a
frame (`PerfectAir`), and then the polls do not expire; `PerfectPasses` speaks of that case alone. It
includes that the receiver listens when the first ping goes out.

## 4. Proofs

`RxPacketHandler_proofs`, for every `UINT8_MAX` above 1, every set of addresses, ack_ids and payloads,
and every set of packets that may arrive. The invariant is

    IInv == TypeOK /\ CapturedInOrder /\ IdleIsReset

`CapturedInOrder` alone is not inductive: when a capture opens, it has to be known that the index is 0, and
when it grows, that its type keeps it within the array; `IdleIsReset` and `TypeOK` supply that.

* `TypeCorrect`, `CaptureCorrect`: the conjuncts of `IInv`.
* `DeliveryCorrect`: what the end call-back is given is in order and without a gap, because only a
  closing END makes the call-back, with a capture that satisfies the invariant.
* `GrowthCorrect`: a step of a running capture adds a fragment or nothing.
* `LockoutFree`: with `NoAcksArrive`, strengthened by "the pair received last, when it has the capture's
  ack_id, has a number other than the one waited for".
* `ImplementsSessionCorrect`: every step of the handler is a step of `CaptureSession` or a stutter,
  one case per action.

`Sx127xConfig_proofs` begins with the channel plan, for every channel of every bandwidth: the programmed divider is exact (`FrfExact`, all
centres are multiples of 31250 Hz), a counted channel lies in 863 - 865 MHz with both edges
(`ChannelInBand`), channels do not overlap (`ChannelsDisjoint`), and the divider survives the split
into three registers (`ChannelSurvivesRegisters`).

`Sx127xDriver_proofs`, for any number of calls and frames, any choice of failing accesses, and any step of
the chip between two accesses. The invariant is

    IInv == TypeOK /\ Places /\ Sending /\ Reading /\ Receiving

None of the promises about a code that is returned is inductive: it speaks of the end of a call, and what
makes it true is what held at every place on the way. `Places` ties the place of control to the call that
can be there. `Sending` says, place by place, what is loaded in the FIFO, whether the done
flag is clear, and that the call's frame is not yet on the air or is there once, as the last one: the flag
that ends a poll is therefore this call's. `Reading` says that the flags describe the frame at the received
address, that this is the node's own bytes only when accesses fail or no frame is flagged, and that the radio is in
standby, so unable to replace it, from the moment the flags are looked at. `Receiving` follows the flags through the two
writes that end a reception: between them the radio may still listen, but only after a timeout, and what it hears is then
the last frame (`Late`).

* `TypeCorrect`: a conjunct of `IInv`. `ReceptionIsCleanedUp`: from `Receiving`.
* `SuccessMeansAired`, `OnlyWholeFramesAired`: from `Sending`.
* `ReadIsLatest`, `DamagedIsWithheld`: from `Reading`.

The last part of the module is for programs built on the driver that stop at the first failure: what is being transmitted is the
last call's frame (`Careful`), and a step within a call never makes a frame appear that the chip has not flagged (`Advances`).

`PingPong_proofs`, for any number of rounds, on either air, with failing accesses. The module takes the driver's
lemmas twice, once for each node, so that no register access is looked at again; `SenderKeeps`, `SenderAdvances` and
their counterparts carry them over. The invariant is

    IInv == SP!IInv /\ RP!IInv /\ SenderTurn /\ ReceiverTurn /\ Counts /\ Heard /\ InRound /\ RoundsMatch /\ PassedMeansAnswered

`RoundsMatch` is about two frames; what makes it true is counting. With `pings` and `pongs` for the frames aired, `SenderTurn` and
`ReceiverTurn` say which call of which round each program is at and that a frame is aired once, even one whose
call has timed out. Who sends has read, and what was read had been aired (`Heard`), so pings and pongs differ by at most one
(`Counts`). A frame on its way therefore belongs to the round that the other node waits in, and since the flags
were cleared before that wait began, what is flagged during it is that frame (`InRound`).

* `RoundsMatchCorrect`, `PassedMeansAnsweredCorrect`: conjuncts of `IInv`.

`LoraLink_proofs`, for any nodes, workloads, numbers of attempts, bystanders and any faults: the types of the
sender's, the loops' and the handler's state (`TypeCorrect`), from the assumptions that sender, host and
bystanders are different nodes, that what a FIFO holds besides packets is no packet, and that a transfer has at
least one fragment. `HandlerStepTypes` covers all paths through the handler; it and the lemmas on frames that are put on
the air are what the rest builds on.

Its second part is the link used within its rules. The hypotheses are

* `HandlerRules`: no ack_id is 0, which the handler's cleared fields already have; a framed transfer fits the
  capture array, and an unframed one is a single packet; a command's ack_id differs from the next transfer's. Nothing
  in the code enforces this, and section 5 lists what happens without each part. Two framed transfers may share an ack_id.
* `RadiosWork`: frames are lost, damaged or late, but no register access fails, the host does not restart, and no
  third node answers. Without the last, see the run `LinkBystander`.
* `StopOnFailure`: the application submits nothing after a transfer that failed.

The constants of `LinkLossy` satisfy all three. The invariant is

    LockInv == Types /\ Radios /\ Results /\ DeliveredSoFar /\ Positions

`LockStep` is not inductive: it says what the host has, not what is on its way to it. `Positions` adds that. The
sender being at packet i of transfer j, the host is up to date, one packet behind, or two behind and
about to handle the first of them (`Place`; the first packet of a transfer follows the last one of the
transfer before); what is in a FIFO or waits for its acknowledgement is packet i, its acknowledgement, or noise; and an
acknowledgement of packet i is on its way only when the host has the packet or is about to handle it (`Taken`, `OnAir`).
`Radios` says who can hear whom: a frame in a FIFO that nobody is polling would be a second packet on its way. `Results`
ties the verdicts to the positions, `DeliveredSoFar` the call-backs to the transfers. From it:

* `LockStepCorrect`, `NoFragmentIsACommand`, `NeverLockedOut`: the safety invariants of `LinkLossy`.
* `ImplementsTransferCorrect`: every step of the link is a step of `Transfer` or a stutter, one case per action:
  a verdict is a report, and the acknowledgement of a transfer's last packet is where it is handed over; everything
  else stutters.
* `OkMeansHandedCorrect`: what `LinkBystander` refutes next to a third node holds without one.

The third part of `LoraLink_proofs` is the link with every fault there is. The hypothesis `OwnIds` (framed transfers have different
ack_ids, sequence numbers do not repeat within one, an unframed transfer is one packet) is needed, see section 5; the
constants of `LinkFaults` satisfy it.

* `NothingMixedCorrect`, bystanders included. The invariant `MixInv` says that whatever carries a payload, in a FIFO or
  in a loop's hand, is a packet of some transfer (`Traffic`), and that the captured packets are
  the first ones of the transfer whose ack_id the capture has. An acknowledgement looks like an empty packet
  of its number and may open or close a capture, so nothing is said of packets without a payload.
* `BurstHandedOnceCorrect`, with no bystander (`Alone`). `OnceInv` adds that a running capture belongs to a transfer
  later than all that were handed over (`CaptureIsNew`), and that whatever the host has still to handle is noise, or was
  sent after all of those and belongs to no transfer earlier than the capture's (`Coming`). What a failed transfer
  left on its way therefore cannot bring it back once a later one was handed over.

`BurstExample_proofs`, for a burst of any length, any number of attempts, and any frames and radio accesses that
fail. The hypotheses are `HandlerRules` and `SingleBurst`, that one framed burst is sent: the example sends one with ack_id 1. Both
properties are about a run without a neighbour (`Undisturbed`). The proof shares the lemmas on the handler with
the lock step, and needs another invariant:

    IInv == Undisturbed => BurstInv

`rx_task` goes on after an access that failed, so an old frame may stay in the host's FIFO, the radio may listen while
a packet is in hand, and a packet may be handled that was not acknowledged: `Radios` and `OnAir` do not hold. What does is that
the host waits for a packet c (`Ready`), that whatever it has received is noise, packet c or the one before it, and that
nothing older than the packet in hand is left in the FIFO (`Received`). The sender is past a packet, or an acknowledgement of it
is on its way, only when the host has the packet, or has it in hand with its radio off and empty (`Given`, `Sent`).

* `NullNeverCalledCorrect`: the host hands over END or nothing, because data is taken only with BEGIN taken before it.
* `SentIsHandedCorrect`: `SX_OK` is said of the last packet, so the host has it or is about to hand the burst over.

The rest of `Sx127xConfig_proofs` is about the configuration, for any arguments of the calls and any choice of failing accesses, scans of any number of
channels included. A call is a set of outcomes, so the invariant is a set of radios, `IInv == radio \in Settled`, and each
call is shown to lead from `Settled` into `Settled`, by way of the weaker `Steady` while it tunes. `Settled` holds the types, the
remembered factor, the plan (`OnChannel`), and `WideEnough`: the chip's bandwidth is never above the driver's. The
frequency alone does not put a channel in the band; that its half-width is at most the one the plan was laid out with does.

* `TypeCorrect`, `RememberedFactorCorrect`, `OnPlanCorrect`.
* `InBandCorrect`, `FramesFitTimeoutCorrect`, with the hypothesis `NoNarrowBand`: 62.5 kHz is not asked for. The run
  `ConfigReinit` shows the first violated without it, and section 5 says how the second is.

A scan goes through its channels by a recursive function. Its existence and that all its values are
`Settled` are proved by induction over the natural numbers (`Induction`, derived from the least element of a set of
numbers, `LeastNumber`).

`PacketHeap_proofs`, for bursts of any number of fragments, any number of attempts, of packets received and of runs of
the loop. The hypothesis is `~RetryBurst`: the application does not send a failed burst's array again; section 5 has what
happens when it does. The invariant is

    Owned == Types /\ Phases /\ InUse /\ Apart /\ Contents

`NoMisuse` says nothing of who may use a block later. `InUse` does: the structs that somebody will still use, at this place of
control (`Structs`: what was captured, the commands the application keeps, the packet in hand while it will be parsed into, and what is
left of a burst while it is being sent), are live, each with a live payload of its own or with none. `Apart` says that no two of those
holders have one struct, so that freeing one leaves the others sound, and `Contents` that what is captured holds what
was received. Every memory operation (`copy_packet`, `parse_packet`, `free_packet`, and the loops that free an array) has a lemma on what it
does to a memory in which a set of structs is sound (`Sound`, `Kept`); a step is then a few of these lemmas in a row.

* `OwnershipCorrect`: the invariant. `NoMisuseCorrect`, `CapturedKeepContentsCorrect`: from it.

`Fragmentation_proofs`, for any data, any width of a byte, any packet size that fits a byte, any addresses of two bytes and any buffers that hold
the largest packet (the assumptions of `Fragmentation`). The invariant `Carried` says that `tx_buffer` has its length and holds bytes, that
`rx_buffer` is clear, and that what is on the air are the bytes of the packet sent and nothing of an earlier one.

* `ParsedAsSentCorrect`: `parse_packet` inverts `packet_to_bytestream` on every packet that `data_to_packet_array` makes.
* `DataIsReassembledCorrect`: the fragments of a sequence, one after the other, are the sequence. `FlattenSeq` is recursive; that it
  has a value, and which, is proved by induction on the number of fragments.
* `FramesAreCapturableCorrect`: a fragment's number is below `UINT8_MAX` when the burst fits, so `%` does not change it.

Each of `LockInv`, `OnceInv`, `Owned` and the `IInv`s of the configuration and of both examples was also model-checked on the constants of its run before it was proved.

What stays with TLC: all liveness, because the prover has no rule for fairness and `ENABLED`: `CallsReturn` of the driver,
`OkIsDelivered`, `EverythingArrives` and `AllReported` of the link, `BothEnd` of the burst example, `ProgramsEnd` and `PerfectPasses`
of the ping-pong. Every invariant, action property and refinement that a passing run checks has a theorem.

## 5. Where the code and its documents differ

Three runs show one each; TLC ends them with a counterexample.

| Run | What happens | Says otherwise |
|---|---|---|
| `LinkBystander` | a node that overhears a packet acknowledges it for its addressee | README.md:220 |
| `LinkForeignEnd` | after a burst that was given up, the fragments of the next one become commands, and its END closes the capture left open, which is handed over as it is | README.md:11, 15 |
| `ConfigReinit` | re-initialisation after 62.5 kHz leaves the band | README.md:128 |

There are others. Where a configuration is named, it shows the counterexample after the change
given; the workloads are in `MCLoraLink`.

| What happens | Where to see it | Says otherwise |
|---|---|---|
| a burst is reassembled with fragments of an aborted one that had its ack_id | `LinkFaults.cfg`, `Workloads <- SameIdTwice`, property `NothingMixed` | README.md:11 |
| a burst, or a command, with ack_id 0 is acknowledged and never handed over | `LinkBystander.cfg`, `Bystanders = {}`, `Workloads <- ZeroId` or `ZeroCommand` | README.md:166, 169 |
| the second of two commands with one ack_id is dropped as a duplicate | the same, `RepeatedCommand` | README.md:14 |
| `send_burst` of an unframed array, or of a burst with fragment number 255, times out on a perfect air | `LinkLossy.cfg`, `FaultSets = {{}}`, `Workloads <- Unframed` or `TooLong`, property `EverythingArrives` | README.md:220, 11 |
| next to a node that acknowledges in its name, the example's receiver gets data without BEGIN and calls its null command call-back | `Burst.cfg`, `NullNeverCalled` without `Undisturbed` | |
| a failed burst's array, sent again, is one of freed packets | `Memory.cfg`, `RetryBurst = TRUE`, property `NoMisuse` | |
| a packet of acknowledgement type, which is ignored, makes the next fragment count as a duplicate | `RxHandlerAny.cfg`, property `NoFragmentLockout` | rx_packet_handler.c:61, README.md:14 |
| a damaged frame is a received packet of zeros | `Driver.cfg`, `SpiFaults = {FALSE}`, property `PacketIsReceived` | README.md:222, 250 |
| a send that fails after loading its frame over a received one leaves RxDone set, and the next read returns the node's own bytes with `SX_OK` | `Driver.cfg`, property `PayloadIsReceived` | README.md:114-115 |
| `sx1278_read_last_payload` returns `SX_OK` with nothing read when the length cannot be read | `ReadLen`, `ReadNothing` in `Sx127xDriver` | README.md:212 |
| initialisation succeeds without the spreading factor: its write's code is overwritten | `sx_1278_set_spreading_factor` in `Sx127xConfig` | README.md:203, 247 |
| at 62.5 kHz and spreading factor 12 a full frame takes 3358 ms, so every send times out after 3000 ms | `Config.cfg`, 62500 in `SomeBandwidths`, property `FramesFitTimeout` | |
| a scan succeeds with unmeasured channels, or outside FSK mode | `MeasureChannel`, `switch_to_fsk` in `Sx127xConfig` | README.md:223 |

`sx1278_poll_and_read_packet` clears the flags before it leaves reception. An answer that arrives between the two
writes, after the timeout, leaves RxDone set when the call returns; no document speaks of it, and `ReceptionEndsClean` states
it as the one exception. The two writes in the other order would not have it. The library's own callers clear the
flags once more before they look at them.

Noted while reading and not modelled: the frame diagram (README.md:157) has no payload length byte, which
the code sends at offset 6; `poll_for_irq_flag` takes milliseconds, not microseconds
(README.md:213); `SX_NOT_INITIALIZED` (README.md:253) is `SX_UNIT_UNITIALIZED` in the code.

## 6. Not modelled

* Failing allocations other than that of no bytes (`Fragmentation`), whose results the library does not look at, and
  the size of the heap. Nobody frees an acknowledgement's struct, a payload that the next frame replaces, the struct
  `packet_array_to_data` describes packets in, or what was captured unless the application does; `PacketHeap`
  has these blocks and no limit on them.
* A length byte that disagrees with the frame, and implicit headers on the air: frames carry their length.
* Time on air in the protocol: a timeout may strike at any moment instead. `FramesFitTimeout` relates frame
  and timeout by the chip's formula.
* Other traffic on the channel than that of the nodes of the model, and a host that has several remotes on
  the air at once (the handler's own model has them).
* RSSI values, and the array a scan returns.
* `logger`, `spi_port` and `sx127x_timer`, which forward to call-backs; a call-back that fails is a failing
  access of the modules above.
* The examples' glue to the ESP-IDF (`esp_spi_write`, `esp_spi_read`, pins and tasks' start-up). Read and
  not modelled: when no buffer can be had, `esp_spi_read` releases a bus that it has not acquired.

## 7. Plan

Done: the handler with its refinement and proofs; the link on top of it; the driver with its
proofs, the link's proofs with and without failures; the configuration and the channel plan, the byte
level, memory, and both examples, all with theirs. Next, in this order:

1. Several senders to one host, `rx_handler_set_remote_addr` included.
2. `LoraLink` over a radio with the driver's own steps, or a proof that the link's radio abstracts
   `Sx127xDriver`.
