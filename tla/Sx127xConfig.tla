---------------------------- MODULE Sx127xConfig ----------------------------
(***************************************************************************)
(* Configuration of the radio (src/sx127x_config.c) and the channel scan   *)
(* (src/sx127x_utils.c): the chip's registers next to the two values the   *)
(* driver remembers about them, lora_bandwidth_hz and spreading_factor.    *)
(*                                                                         *)
(* The calls come from one thread and nothing else writes these registers, *)
(* so a call is one step; what it may do is the set of its outcomes, one   *)
(* for each choice of the register accesses that fail.  The SPI port is    *)
(* handed over by the first initialize_sx_1278; calls made before it reach *)
(* no register and are left out.                                           *)
(***************************************************************************)
EXTENDS Channels, Sequences

CONSTANTS
  SomeBandwidths, Factors, SomeChannels,   \* arguments of the calls
  SomeRates,                               \* coding rates 4 / (4 + cr)
  SpiFails,                                \* a register access may fail
  ModeStuck                                \* the chip may refuse to leave LoRa mode

ASSUME ArgumentAssumption ==
  /\ SomeBandwidths \subseteq Bandwidths /\ SomeRates \subseteq 1..4
  /\ Factors \subseteq Nat /\ SomeChannels \subseteq Nat
ASSUME FaultsAssumption == SpiFails \in BOOLEAN /\ ModeStuck \in BOOLEAN

VARIABLE radio   \* registers, remembered values, and how the last call ended

vars == <<radio>>

\* A register's value when it has not been written since power-on.
Unset == 0

Registers == {"op_mode", "frf_msb", "frf_mid", "frf_lsb", "modem_config1", "modem_config2"}

-----------------------------------------------------------------------------
(* Register accesses, and sequences of them.                               *)

\* What modem_config1 says: bandwidth, coding rate, and whether frames have a
\* header.  Of modem_config2 only the spreading factor is kept.
Modem(bw, cr, explicit) == [bw |-> bw, cr |-> cr, explicit |-> explicit]

\* What may come of writing v to register r.
WriteReg(s, r, v) ==
  {[s EXCEPT !.regs[r] = v, !.ret = "SX_OK"]}
    \cup IF SpiFails THEN {[s EXCEPT !.ret = "SX_ERROR"]} ELSE {}

\* A read, or a write to a register that is written with constants only.
Access(s) ==
  {[s EXCEPT !.ret = "SX_OK"]} \cup IF SpiFails THEN {[s EXCEPT !.ret = "SX_ERROR"]} ELSE {}

\* Op after S, for the outcomes of S that are successes.
Then(S, Op(_)) == UNION {IF s.ret = "SX_OK" THEN Op(s) ELSE {s} : s \in S}

\* Op after S whatever came of S.
Always(S, Op(_)) == UNION {Op(s) : s \in S}

switch_mode(s, m) == WriteReg(s, "op_mode", m)

-----------------------------------------------------------------------------
(* The calls.                                                              *)

\* tuned says how the last attempt to set the frequency ended.
sx_1278_switch_to_nth_channel(s, n) ==
  LET b == FrfByte(channel_frf(n, s.lora_bandwidth_hz))
      Mid(t) == WriteReg(t, "frf_mid", b.frf_mid)
      Lsb(t) == WriteReg(t, "frf_lsb", b.frf_lsb)
  IN IF n >= calculate_channel_num(s.lora_bandwidth_hz)
       THEN {[s EXCEPT !.ret = "SX_INVALID_ARGUMENT"]}
       ELSE {[t EXCEPT !.tuned = t.ret] : t \in Then(Then(WriteReg(s, "frf_msb", b.frf_msb), Mid), Lsb)}

\* (Mutant of RememberFactor: remembered whether or not it was written.)
RememberAnyway(s, sf) == [s EXCEPT !.spreading_factor = sf]

RememberFactor(s, sf) ==
  IF s.ret = "SX_OK" THEN [s EXCEPT !.spreading_factor = sf] ELSE s

\* (Mutant of ValidFactor: the upper bound is off by one.)
OneFactorMore(sf) == 6 <= sf /\ sf <= 13

ValidFactor(sf) == 6 <= sf /\ sf <= 12

\* The code of the register write is overwritten by that of the last mode
\* switch.
sx_1278_set_spreading_factor(s, sf) ==
  LET Write(t) ==
        IF ValidFactor(sf)
          THEN Always({RememberFactor(u, sf) : u \in WriteReg(t, "modem_config2", sf)},
                      LAMBDA u: switch_mode(u, "LORA_SLEEP"))
          ELSE {[t EXCEPT !.ret = "SX_INVALID_ARGUMENT"]}
  IN Then(switch_mode(s, "LORA_STDBY"), Write)

\* (Mutant of Rebanded: the frequency is not set again.)
KeepFrequency(s, bw) == {[s EXCEPT !.lora_bandwidth_hz = bw]}

\* With another bandwidth channel 0 lies elsewhere.
Rebanded(s, bw) == sx_1278_switch_to_nth_channel([s EXCEPT !.lora_bandwidth_hz = bw], 0)

Asleep(s) == switch_mode(s, "LORA_SLEEP")

\* Only a failure to tune is reported; a bandwidth that could not be written is
\* not remembered, and the mode switch's code is returned.
sx1278_set_bandwidth(s, bw, cr, explicit) ==
  LET Write(t) == WriteReg(t, "modem_config1", Modem(bw, cr, explicit))
      Tune(t) == IF t.ret = "SX_OK" THEN Then(Rebanded(t, bw), Asleep) ELSE Asleep(t)
  IN Then(switch_mode(s, "LORA_STDBY"), LAMBDA t: Always(Write(t), Tune))

\* Version check, FIFO addresses, channel 0, power and protection, bandwidth
\* 125 kHz, coding rate 4/5 and explicit headers, the spreading factor in use, timeout, preamble and sync word.
initialize_sx_1278(s) ==
  LET Version(t) == {[t EXCEPT !.ret = "SX_OK"]}
                      \cup IF SpiFails THEN {[t EXCEPT !.ret = c] : c \in {"SX_ERROR", "SX_INVALID_RESPONSE"}}
                                       ELSE {}
      Sleep(t) == switch_mode(t, "LORA_SLEEP")
      Standby(t) == switch_mode(t, "LORA_STDBY")
      Channel0(t) == sx_1278_switch_to_nth_channel(t, 0)
      Bandwidth(t) == WriteReg(t, "modem_config1", Modem(125000, 1, TRUE))
      Factor(t) == sx_1278_set_spreading_factor(t, t.spreading_factor)
      Mode == Then(Then(Then(Version(s), Sleep), Access), Standby)
      Configured == Then(Then(Then(Then(Mode, Channel0), Access), Bandwidth), Factor)
  IN {[t EXCEPT !.ready = TRUE] : t \in Then(Configured, Access)}

\* Leaves LoRa mode through sleep and looks whether the chip followed; when it
\* did not, the code of the last register read, SX_OK, is returned all the same.
switch_to_fsk(s) ==
  LET FskSleep(t) ==
        switch_mode(t, "FSK_SLEEP") \cup IF ModeStuck THEN {[t EXCEPT !.ret = "SX_OK"]} ELSE {}
  IN Then(Then(switch_mode(s, "LORA_SLEEP"), FskSleep), Access)

\* Receiving in FSK and in LoRa mode is the same mode number: a chip that did
\* not leave LoRa mode stays in it.
Receiver(s) ==
  WriteReg(s, "op_mode", IF s.regs["op_mode"] = "FSK_SLEEP" THEN "FSK_RX" ELSE "LORA_RX")

\* One channel: tuned to, and its RSSI read; a failure is the next one's affair.
MeasureChannel(s, n) == Then(sx_1278_switch_to_nth_channel(s, n), Access)

sx_1278_get_channel_rssis(s) ==
  LET channel_n == calculate_channel_num(s.lora_bandwidth_hz)
      Begin == Then(switch_to_fsk(s), Receiver)
      Begun == {t \in Begin : t.ret = "SX_OK"}
      Scan[i \in 0..channel_n] ==
        IF i = 0 THEN Begun ELSE Always(Scan[i - 1], LAMBDA t: MeasureChannel(t, i - 1))
  IN (Begin \ Begun) \cup Always(Scan[channel_n], Asleep)

-----------------------------------------------------------------------------
Init ==
  radio = [regs |-> [r \in Registers |->
                      CASE r = "op_mode" -> "POWER_ON"
                        [] r = "modem_config1" -> Modem(Unset, Unset, TRUE)
                        [] OTHER -> Unset],
           lora_bandwidth_hz |-> 125000, spreading_factor |-> 12, tuned |-> "never",
           ready |-> FALSE, ret |-> "none"]

Initialize == radio' \in initialize_sx_1278(radio)

SetFactor ==
  /\ radio.ready
  /\ \E sf \in Factors: radio' \in sx_1278_set_spreading_factor(radio, sf)

SetBandwidth ==
  /\ radio.ready
  /\ \E bw \in SomeBandwidths, cr \in SomeRates, explicit \in BOOLEAN:
       radio' \in sx1278_set_bandwidth(radio, bw, cr, explicit)

SwitchChannel ==
  /\ radio.ready
  /\ \E n \in SomeChannels: radio' \in sx_1278_switch_to_nth_channel(radio, n)

ScanChannels ==
  /\ radio.ready
  /\ radio' \in sx_1278_get_channel_rssis(radio)

Next == Initialize \/ SetFactor \/ SetBandwidth \/ SwitchChannel \/ ScanChannels

Spec == Init /\ [][Next]_vars

-----------------------------------------------------------------------------
\* SX_ERROR stands for the code the SPI port came back with.
Codes == {"none", "SX_OK", "SX_ERROR", "SX_INVALID_ARGUMENT", "SX_INVALID_RESPONSE"}

\* Registers hold nothing but what the chip can be asked for; in particular no
\* spreading factor outside 6..12 reaches it.
TypeOK ==
  /\ radio.regs["op_mode"] \in {"POWER_ON", "LORA_SLEEP", "LORA_STDBY", "LORA_RX", "FSK_SLEEP", "FSK_RX"}
  /\ \A r \in {"frf_msb", "frf_mid", "frf_lsb"}: radio.regs[r] \in 0..255
  /\ radio.regs["modem_config1"] \in
       [bw: Bandwidths \cup {Unset}, cr: 0..4, explicit: BOOLEAN]
  /\ radio.regs["modem_config2"] \in 6..12 \cup {Unset}
  /\ radio.lora_bandwidth_hz \in Bandwidths
  /\ radio.spreading_factor \in 6..12
  /\ radio.ret \in Codes /\ radio.tuned \in Codes \cup {"never"}

\* What the driver remembers of the spreading factor is what the chip has, once
\* it has been given one, through every sequence of calls and failures: a
\* restored configuration (initialize_sx_1278) restores the right one.
RememberedFactorIsOnChip ==
  radio.regs["modem_config2"] \in {Unset, radio.spreading_factor}

Tuned(n) == FrfOf(radio.regs) = channel_frf(n, radio.lora_bandwidth_hz)

\* While tuning does not fail the chip sits on the centre of one of the
\* channels that calculate_channel_num counts with the bandwidth in use: a
\* change of bandwidth leaves no frequency of the old channel plan behind.
OnPlan ==
  radio.tuned = "SX_OK" =>
    \E n \in 0..calculate_channel_num(radio.lora_bandwidth_hz) - 1: Tuned(n)

\* The channel the chip is tuned to lies in the band 863 - 865 MHz from edge to
\* edge, at the bandwidth the chip has been given.
InBand ==
  radio.tuned = "SX_OK" =>
    LET f == Frequency(FrfOf(radio.regs))
        half == radio.regs["modem_config1"].bw \div 2
    IN lora_frequency_lf <= f - half /\ f + half <= lora_frequency_hf

\* Every frame of the packet layer goes out within the time that the driver gives
\* a transmission, and an acknowledgement within the time it waits for one, with
\* whatever modem settings the calls and their failures leave on the chip.  (At
\* the bandwidths of SomeBandwidths: 62.5 kHz is too slow for it, see README.)
FramesFitTimeout ==
  LET m == radio.regs["modem_config1"]
      sf == radio.regs["modem_config2"]
  IN m.bw # Unset /\ sf # Unset =>
       TimeOnAir(max_frame_size, sf, m.bw, m.cr, m.explicit) <= 1000 * PHY_TIMEOUT_MSEC
=============================================================================
