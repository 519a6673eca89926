------------------------- MODULE Sx127xConfig_proofs -------------------------
(***************************************************************************)
(* Proofs about the channel plan's arithmetic, for every channel of every  *)
(* bandwidth, and about the radio's configuration, for any arguments of    *)
(* the calls and whatever register accesses fail.                          *)
(***************************************************************************)
EXTENDS Sx127xConfig, WellFoundedInduction, TLAPS

-----------------------------------------------------------------------------
(* The channel plan.                                                       *)

\* Every bandwidth is a multiple of 62500 Hz and every channel centre one of
\* 31250 Hz, the step on which the synthesizer is exact.
LEMMA CentreOnStep ==
  ASSUME NEW bw \in Bandwidths, NEW n \in Nat
  PROVE  \E k \in Nat: raw_freq(n, bw) = 31250 * k
<1>1. CASE bw = 62500
  <2>1. raw_freq(n, bw) = 31250 * (27617 + 2 * n)
    BY SMT, <1>1 DEF raw_freq, lora_frequency_lf
  <2> QED BY SMT, <2>1
<1>2. CASE bw = 125000
  <2>1. raw_freq(n, bw) = 31250 * (27618 + 4 * n)
    BY SMT, <1>2 DEF raw_freq, lora_frequency_lf
  <2> QED BY SMT, <2>1
<1>3. CASE bw = 250000
  <2>1. raw_freq(n, bw) = 31250 * (27620 + 8 * n)
    BY SMT, <1>3 DEF raw_freq, lora_frequency_lf
  <2> QED BY SMT, <2>1
<1>4. CASE bw = 500000
  <2>1. raw_freq(n, bw) = 31250 * (27624 + 16 * n)
    BY SMT, <1>4 DEF raw_freq, lora_frequency_lf
  <2> QED BY SMT, <2>1
<1> QED BY SMT, <1>1, <1>2, <1>3, <1>4 DEF Bandwidths

\* On that step the divider is exact: nothing is lost to the integer division.
LEMMA FrfOnStep ==
  ASSUME NEW k \in Nat
  PROVE  Frf(31250 * k) = 512 * k
<1>1. (31250 * k) \div 15625 = 2 * k /\ (31250 * k) % 15625 = 0
  BY SMT
<1> QED BY SMT, <1>1 DEF Frf

\* The divider programmed for a channel stands for exactly the channel's centre
\* frequency (sx_1278_switch_to_nth_channel).
THEOREM FrfExact ==
  ASSUME NEW bw \in Bandwidths, NEW n \in Nat
  PROVE  Frequency(channel_frf(n, bw)) = raw_freq(n, bw)
<1>1. PICK k \in Nat: raw_freq(n, bw) = 31250 * k
  BY SMT, CentreOnStep
<1>2. channel_frf(n, bw) = 512 * k
  BY SMT, <1>1, FrfOnStep DEF channel_frf
<1>3. (512 * k) \div 512 = k /\ (512 * k) % 512 = 0
  BY SMT
<1> QED BY SMT, <1>1, <1>2, <1>3 DEF Frequency

\* A channel that calculate_channel_num counts lies in the band 863 - 865 MHz,
\* both its edges included.
THEOREM ChannelInBand ==
  ASSUME NEW bw \in Bandwidths, NEW n \in Nat, n < calculate_channel_num(bw)
  PROVE  /\ lora_frequency_lf <= raw_freq(n, bw) - bw \div 2
         /\ raw_freq(n, bw) + bw \div 2 <= lora_frequency_hf
<1>1. CASE bw = 62500
  BY SMT, <1>1 DEF raw_freq, calculate_channel_num, lora_frequency_lf, lora_frequency_hf
<1>2. CASE bw = 125000
  BY SMT, <1>2 DEF raw_freq, calculate_channel_num, lora_frequency_lf, lora_frequency_hf
<1>3. CASE bw = 250000
  BY SMT, <1>3 DEF raw_freq, calculate_channel_num, lora_frequency_lf, lora_frequency_hf
<1>4. CASE bw = 500000
  BY SMT, <1>4 DEF raw_freq, calculate_channel_num, lora_frequency_lf, lora_frequency_hf
<1> QED BY SMT, <1>1, <1>2, <1>3, <1>4 DEF Bandwidths

\* Channels do not overlap.
THEOREM ChannelsDisjoint ==
  ASSUME NEW bw \in Bandwidths, NEW m \in Nat, NEW n \in Nat, m < n
  PROVE  raw_freq(m, bw) + bw \div 2 <= raw_freq(n, bw) - bw \div 2
<1>1. CASE bw = 62500   BY SMT, <1>1 DEF raw_freq, lora_frequency_lf
<1>2. CASE bw = 125000  BY SMT, <1>2 DEF raw_freq, lora_frequency_lf
<1>3. CASE bw = 250000  BY SMT, <1>3 DEF raw_freq, lora_frequency_lf
<1>4. CASE bw = 500000  BY SMT, <1>4 DEF raw_freq, lora_frequency_lf
<1> QED BY SMT, <1>1, <1>2, <1>3, <1>4 DEF Bandwidths

\* A divider that fits 24 bits survives being split into the three registers.
LEMMA BytesRecompose ==
  ASSUME NEW frf \in Nat, frf < 16777216
  PROVE  FrfOf(FrfByte(frf)) = frf
<1> DEFINE a == frf \div 65536
           b == (frf \div 256) % 256
           c == frf % 256
           q == frf \div 256
<1>1. a \in Nat /\ a < 256 /\ q \in Nat /\ b \in Nat /\ c \in Nat
  BY SMT
<1>2. q \div 256 = a
  BY SMT
<1>3. frf = 256 * q + c /\ q = 256 * (q \div 256) + (q % 256)
  BY SMT
<1>4. a % 256 = a
  BY SMT, <1>1
<1> QED BY SMT, <1>2, <1>3, <1>4 DEF FrfOf, FrfByte

\* Every channel's divider reaches the chip unchanged through the three bytes
\* that are written for it.
THEOREM ChannelSurvivesRegisters ==
  ASSUME NEW bw \in Bandwidths, NEW n \in Nat, n < calculate_channel_num(bw)
  PROVE  FrfOf(FrfByte(channel_frf(n, bw))) = channel_frf(n, bw)
<1>1. PICK k \in Nat: raw_freq(n, bw) = 31250 * k
  BY SMT, CentreOnStep
<1>2. raw_freq(n, bw) <= 865000000
  <2>1. raw_freq(n, bw) \in Nat /\ bw \div 2 \in Nat
    BY SMT DEF raw_freq, lora_frequency_lf, Bandwidths
  <2> QED BY SMT, <2>1, ChannelInBand DEF lora_frequency_hf
<1>3. k <= 27680
  BY SMT, <1>1, <1>2
<1>4. channel_frf(n, bw) = 512 * k
  BY SMT, <1>1, FrfOnStep DEF channel_frf
<1>5. channel_frf(n, bw) \in Nat /\ channel_frf(n, bw) < 16777216
  BY SMT, <1>3, <1>4
<1> QED BY SMT, <1>5, BytesRecompose

-----------------------------------------------------------------------------
(* Induction over the natural numbers, in terms of sets.                   *)

LEMMA LeastNumber ==
  ASSUME NEW T, T \subseteq Nat, T # {}
  PROVE  \E x \in T: \A y \in T: x <= y
<1> DEFINE R == OpToRel(<, Nat)
<1>1. IsWellFoundedOn(R, Nat)
  BY Zenon, NatLessThanWellFounded
<1>2. \A x, y \in Nat: <<y, x>> \in R <=> y < x
  BY DEF OpToRel
<1> HIDE DEF R
<1>3. PICK x \in T: \A y \in T: <<y, x>> \notin R
  BY <1>1, WFMin
<1>4. \A y \in T: x \in Nat /\ y \in Nat /\ ~(y < x)
  BY <1>2, <1>3
<1>5. \A y \in T: x <= y
  BY <1>4
<1> QED
  BY <1>5

LEMMA Induction ==
  ASSUME NEW S, 0 \in S, \A n \in Nat: n \in S => n + 1 \in S
  PROVE  Nat \subseteq S
<1> SUFFICES ASSUME Nat \ S # {} PROVE FALSE
  OBVIOUS
<1>1. PICK x \in Nat \ S: \A y \in Nat \ S: x <= y
  BY LeastNumber
<1>2. x - 1 \in Nat /\ (x - 1) + 1 = x /\ ~(x <= x - 1)
  OBVIOUS
<1>3. x - 1 \in S
  BY <1>1, <1>2
<1> QED
  BY <1>2, <1>3

OpModes == {"POWER_ON", "LORA_SLEEP", "LORA_STDBY", "LORA_RX", "FSK_SLEEP", "FSK_RX"}
ModemSettings == [bw: Bandwidths \cup {Unset}, cr: 0..4, explicit: BOOLEAN]

RegisterFiles ==
  {f \in [Registers -> OpModes \cup Nat \cup ModemSettings]:
     /\ f["op_mode"] \in OpModes
     /\ \A r \in {"frf_msb", "frf_mid", "frf_lsb"}: f[r] \in 0..255
     /\ f["modem_config1"] \in ModemSettings
     /\ f["modem_config2"] \in 6..12 \cup {Unset}}

Radios ==
  [regs: RegisterFiles, lora_bandwidth_hz: Bandwidths, spreading_factor: 6..12,
   tuned: Codes \cup {"never"}, ready: BOOLEAN, ret: Codes]

-----------------------------------------------------------------------------
(* What holds of the radio between any two register accesses, and what     *)
(* holds between two calls.                                                *)

\* The bandwidth of 62.5 kHz is not asked for.
NoNarrowBand == 62500 \notin SomeBandwidths

FactorKept(s) == s.regs["modem_config2"] \in {Unset, s.spreading_factor}

\* The chip's bandwidth is never above the one the channel plan is laid out for,
\* and wide enough for a frame to go out in time.
WideEnough(s) ==
  LET m == s.regs["modem_config1"]
  IN /\ s.lora_bandwidth_hz >= 125000
     /\ m.bw <= s.lora_bandwidth_hz
     /\ m.bw # Unset => m.bw >= 125000 /\ m.cr \in 1..4

Steady == {s \in Radios: FactorKept(s) /\ (NoNarrowBand => WideEnough(s))}

OnChannel(s) ==
  s.tuned = "SX_OK" =>
    \E n \in 0..calculate_channel_num(s.lora_bandwidth_hz) - 1:
      FrfOf(s.regs) = channel_frf(n, s.lora_bandwidth_hz)

Settled == {s \in Steady: OnChannel(s)}

IInv == radio \in Settled

-----------------------------------------------------------------------------
(* Register accesses.                                                      *)

\* The divider, register by register.
LEMMA Divider ==
  ASSUME NEW f
  PROVE  FrfOf(f) = 65536 * f["frf_msb"] + 256 * f["frf_mid"] + f["frf_lsb"]
BY DEF FrfOf

\* The values that fit register r.
Fits(r, v) ==
  /\ v \in OpModes \cup Nat \cup ModemSettings
  /\ r = "op_mode" => v \in OpModes
  /\ r \in {"frf_msb", "frf_mid", "frf_lsb"} => v \in 0..255
  /\ r = "modem_config1" => v \in ModemSettings
  /\ r = "modem_config2" => v \in 6..12 \cup {Unset}

\* g is the register file f with v in register r.
Overwrites(f, r, v, g) ==
  g \in RegisterFiles /\ g[r] = v /\ \A q \in Registers \ {r}: g[q] = f[q]

LEMMA Overwritten ==
  ASSUME NEW f \in RegisterFiles, NEW r \in Registers, NEW v, Fits(r, v)
  PROVE  Overwrites(f, r, v, [f EXCEPT ![r] = v])
<1> PICK g: g = [f EXCEPT ![r] = v]
  OBVIOUS
<1> PICK V: V = OpModes \cup Nat \cup ModemSettings
  OBVIOUS
<1>1. f \in [Registers -> V]
  BY DEF RegisterFiles
<1>2. v \in V
  BY DEF Fits
<1>3. g \in [Registers -> V] /\ g[r] = v /\ \A q \in Registers \ {r}: g[q] = f[q]
  BY <1>1, <1>2
<1>4. g["op_mode"] \in OpModes
  BY <1>3 DEF Fits, RegisterFiles, Registers
<1>5. \A q \in {"frf_msb", "frf_mid", "frf_lsb"}: g[q] \in 0..255
  <2> TAKE q \in {"frf_msb", "frf_mid", "frf_lsb"}
  <2>1. q \in Registers
    BY DEF Registers
  <2>2. f[q] \in 0..255
    BY DEF RegisterFiles
  <2>3. q = r => v \in 0..255
    BY DEF Fits
  <2> QED
    BY <1>3, <2>1, <2>2, <2>3
<1>6. g["modem_config1"] \in ModemSettings
  BY <1>3 DEF Fits, RegisterFiles, Registers
<1>7. g["modem_config2"] \in 6..12 \cup {Unset}
  BY <1>3 DEF Fits, RegisterFiles, Registers
<1> QED
  BY <1>3, <1>4, <1>5, <1>6, <1>7 DEF Overwrites, RegisterFiles

\* What comes of writing a value that the register can hold.
LEMMA WriteResult ==
  ASSUME NEW s \in Radios, NEW r \in Registers, NEW v,
         NEW f \in RegisterFiles, f = [s.regs EXCEPT ![r] = v],
         NEW t \in WriteReg(s, r, v)
  PROVE  /\ t \in Radios
         /\ t.lora_bandwidth_hz = s.lora_bandwidth_hz /\ t.spreading_factor = s.spreading_factor
         /\ t.tuned = s.tuned /\ t.ready = s.ready
         /\ \/ t.ret = "SX_OK" /\ t.regs = f
            \/ t.ret = "SX_ERROR" /\ t.regs = s.regs
<1>1. \/ t = [s EXCEPT !.regs[r] = v, !.ret = "SX_OK"]
      \/ t = [s EXCEPT !.ret = "SX_ERROR"]
  BY DEF WriteReg
<1>2. CASE t = [s EXCEPT !.regs[r] = v, !.ret = "SX_OK"]
  BY <1>2 DEF Radios, Codes
<1>3. CASE t = [s EXCEPT !.ret = "SX_ERROR"]
  BY <1>3 DEF Radios, Codes
<1> QED
  BY <1>1, <1>2, <1>3

\* The mode is of no importance to the rest.
LEMMA SwitchSettled ==
  ASSUME NEW s \in Settled, NEW m \in OpModes
  PROVE  switch_mode(s, m) \subseteq Settled
<1> SUFFICES ASSUME NEW t \in switch_mode(s, m) PROVE t \in Settled
  OBVIOUS
<1>1. /\ s \in Radios /\ s.regs \in RegisterFiles
  BY DEF Settled, Steady, Radios
<1>2. /\ t \in Radios
      /\ t.lora_bandwidth_hz = s.lora_bandwidth_hz /\ t.spreading_factor = s.spreading_factor
      /\ t.tuned = s.tuned
      /\ \A r \in Registers \ {"op_mode"}: t.regs[r] = s.regs[r]
  <2>1. "op_mode" \in Registers /\ Fits("op_mode", m)
    BY DEF Registers, Fits
  <2>2. PICK f: f = [s.regs EXCEPT !["op_mode"] = m]
    OBVIOUS
  <2>3. f \in RegisterFiles /\ \A r \in Registers \ {"op_mode"}: f[r] = s.regs[r]
    BY <1>1, <2>1, <2>2, Overwritten DEF Overwrites
  <2>4. t \in WriteReg(s, "op_mode", m)
    BY DEF switch_mode
  <2>5. /\ t \in Radios
        /\ t.lora_bandwidth_hz = s.lora_bandwidth_hz /\ t.spreading_factor = s.spreading_factor
        /\ t.tuned = s.tuned
        /\ t.regs = f \/ t.regs = s.regs
    BY <1>1, <2>1, <2>2, <2>3, <2>4, WriteResult
  <2> QED
    BY <2>3, <2>5
<1>3. FactorKept(t) /\ (NoNarrowBand => WideEnough(t))
  BY <1>2 DEF Settled, Steady, FactorKept, WideEnough, Registers
<1>4. OnChannel(t)
  <2>1. FrfOf(t.regs) = FrfOf(s.regs)
    <3>1. \A r \in {"frf_msb", "frf_mid", "frf_lsb"}: t.regs[r] = s.regs[r]
      BY <1>2 DEF Registers
    <3> QED
      BY <3>1, Divider
  <2> QED
    BY <1>2, <2>1 DEF Settled, OnChannel
<1> QED
  BY <1>2, <1>3, <1>4 DEF Settled, Steady

LEMMA SettledResult ==
  ASSUME NEW s \in Settled, NEW c \in Codes
  PROVE  [s EXCEPT !.ret = c] \in Settled
BY DEF Settled, Steady, Radios, FactorKept, WideEnough, OnChannel

LEMMA AccessSettled ==
  ASSUME NEW s \in Settled
  PROVE  Access(s) \subseteq Settled
BY SettledResult DEF Access, Codes

-----------------------------------------------------------------------------
(* The calls.                                                              *)

DividerBytes == {"frf_msb", "frf_mid", "frf_lsb"}

OnlyByteChanged(s, r, v, t) ==
  /\ t \in Radios
  /\ t.lora_bandwidth_hz = s.lora_bandwidth_hz /\ t.spreading_factor = s.spreading_factor
  /\ \A q \in Registers \ {r}: t.regs[q] = s.regs[q]
  /\ t.ret = "SX_OK" => t.regs[r] = v

LEMMA ByteWritten ==
  ASSUME NEW s \in Radios, NEW r \in DividerBytes, NEW v \in 0..255,
         NEW t \in WriteReg(s, r, v)
  PROVE  OnlyByteChanged(s, r, v, t)
<1>1. s.regs \in RegisterFiles /\ r \in Registers
  BY DEF Radios, Registers, DividerBytes
<1>2. PICK f: f = [s.regs EXCEPT ![r] = v]
  OBVIOUS
<1>3. f \in RegisterFiles /\ f[r] = v /\ \A q \in Registers \ {r}: f[q] = s.regs[q]
  <2>1. Fits(r, v)
    BY DEF Fits, DividerBytes
  <2>2. Overwrites(s.regs, r, v, f)
    BY <1>1, <1>2, <2>1, Overwritten
  <2> QED
    BY <2>2 DEF Overwrites
<1>4. /\ t \in Radios
      /\ t.lora_bandwidth_hz = s.lora_bandwidth_hz /\ t.spreading_factor = s.spreading_factor
      /\ \/ t.ret = "SX_OK" /\ t.regs = f
         \/ t.ret = "SX_ERROR" /\ t.regs = s.regs
  BY <1>1, <1>2, <1>3, WriteResult
<1>5. CASE t.regs = f
  BY <1>3, <1>4, <1>5 DEF OnlyByteChanged
<1>6. CASE t.ret = "SX_ERROR" /\ t.regs = s.regs
  BY <1>4, <1>6 DEF OnlyByteChanged
<1> QED
  BY <1>4, <1>5, <1>6

\* Whatever was programmed before, a channel that is accepted is tuned to as a
\* whole, or is known not to be.
LEMMA TuneSettles ==
  ASSUME NEW s \in Steady, NEW n \in Nat,
         s \in Settled \/ n < calculate_channel_num(s.lora_bandwidth_hz)
  PROVE  sx_1278_switch_to_nth_channel(s, n) \subseteq Settled
<1> DEFINE frf == channel_frf(n, s.lora_bandwidth_hz)
           b == FrfByte(frf)
           Mid(t) == WriteReg(t, "frf_mid", b.frf_mid)
           Lsb(t) == WriteReg(t, "frf_lsb", b.frf_lsb)
           M == WriteReg(s, "frf_msb", b.frf_msb)
<1>s. s \in Radios /\ s.lora_bandwidth_hz \in Bandwidths /\ s.regs \in RegisterFiles
  BY DEF Steady, Radios
<1>1. CASE n >= calculate_channel_num(s.lora_bandwidth_hz)
  <2>1. s \in Settled
    <3>1. calculate_channel_num(s.lora_bandwidth_hz) \in Int
      BY <1>s DEF calculate_channel_num, lora_frequency_hf, lora_frequency_lf, Bandwidths
    <3> QED
      BY <1>1, <3>1
  <2>2. sx_1278_switch_to_nth_channel(s, n) = {[s EXCEPT !.ret = "SX_INVALID_ARGUMENT"]}
    BY <1>1 DEF sx_1278_switch_to_nth_channel
  <2> QED
    BY <2>1, <2>2, SettledResult DEF Codes
<1>2. CASE ~(n >= calculate_channel_num(s.lora_bandwidth_hz))
  <2> SUFFICES ASSUME NEW y \in sx_1278_switch_to_nth_channel(s, n)
               PROVE  y \in Settled
    OBVIOUS
  <2>b. /\ b.frf_msb \in 0..255 /\ b.frf_mid \in 0..255 /\ b.frf_lsb \in 0..255
        /\ FrfOf(b) = frf
    <3>1. frf \in Int
      BY <1>s DEF channel_frf, Frf, raw_freq, lora_frequency_lf, Bandwidths
    <3>2. \A k \in Int: k % 256 \in 0..255
      OBVIOUS
    <3>3. frf \div 65536 \in Int /\ frf \div 256 \in Int
      BY <3>1
    <3>4. n < calculate_channel_num(s.lora_bandwidth_hz)
      BY <1>2, <1>s
         DEF calculate_channel_num, lora_frequency_hf, lora_frequency_lf, Bandwidths
    <3>5. FrfOf(b) = frf
      BY <1>s, <3>4, ChannelSurvivesRegisters
    <3> HIDE DEF frf
    <3>6. /\ b.frf_msb = (frf \div 65536) % 256
          /\ b.frf_mid = (frf \div 256) % 256
          /\ b.frf_lsb = frf % 256
      BY DEF FrfByte
    <3> HIDE DEF b
    <3> QED
      BY <3>1, <3>2, <3>3, <3>5, <3>6
  <2>1. sx_1278_switch_to_nth_channel(s, n)
          = {[t EXCEPT !.tuned = t.ret] : t \in Then(Then(M, Mid), Lsb)}
    BY <1>2 DEF sx_1278_switch_to_nth_channel
  <2> HIDE DEF b
  <2>2. PICK z \in Then(Then(M, Mid), Lsb): y = [z EXCEPT !.tuned = z.ret]
    BY <2>1
  <2>3. PICK u \in Then(M, Mid): z \in IF u.ret = "SX_OK" THEN Lsb(u) ELSE {u}
    BY <2>2 DEF Then
  <2>4. PICK t \in M: u \in IF t.ret = "SX_OK" THEN Mid(t) ELSE {t}
    BY <2>3 DEF Then
  <2> HIDE DEF Mid, Lsb, M
  <2>5. /\ t \in Radios
        /\ t.lora_bandwidth_hz = s.lora_bandwidth_hz /\ t.spreading_factor = s.spreading_factor
        /\ \A q \in Registers \ {"frf_msb"}: t.regs[q] = s.regs[q]
        /\ t.ret = "SX_OK" => t.regs["frf_msb"] = b.frf_msb
    <3>1. OnlyByteChanged(s, "frf_msb", b.frf_msb, t)
      BY <1>s, <2>4, <2>b, ByteWritten DEF M, DividerBytes
    <3> QED
      BY <3>1 DEF OnlyByteChanged
  <2>6. /\ u \in Radios
        /\ u.lora_bandwidth_hz = s.lora_bandwidth_hz /\ u.spreading_factor = s.spreading_factor
        /\ \A q \in Registers \ {"frf_msb", "frf_mid"}: u.regs[q] = s.regs[q]
        /\ u.ret = "SX_OK" => u.regs["frf_msb"] = b.frf_msb /\ u.regs["frf_mid"] = b.frf_mid
    <3>1. CASE t.ret = "SX_OK"
      <4>1. u \in WriteReg(t, "frf_mid", b.frf_mid)
        BY <2>4, <3>1 DEF Mid
      <4>2. /\ u \in Radios
            /\ u.lora_bandwidth_hz = t.lora_bandwidth_hz
            /\ u.spreading_factor = t.spreading_factor
            /\ \A q \in Registers \ {"frf_mid"}: u.regs[q] = t.regs[q]
            /\ u.ret = "SX_OK" => u.regs["frf_mid"] = b.frf_mid
        <5>1. PICK v \in 0..255: v = b.frf_mid
          BY <2>b
        <5>2. t \in Radios /\ u \in WriteReg(t, "frf_mid", v) /\ "frf_mid" \in DividerBytes
          BY <2>5, <4>1, <5>1 DEF DividerBytes
        <5>3. OnlyByteChanged(t, "frf_mid", v, u)
          BY <5>2, ByteWritten
        <5> QED
          BY <5>1, <5>3 DEF OnlyByteChanged
      <4> QED
        BY <2>5, <3>1, <4>2 DEF Registers
    <3>2. CASE t.ret # "SX_OK"
      BY <2>4, <2>5, <3>2
    <3> QED
      BY <3>1, <3>2
  <2>7. /\ z \in Radios
        /\ z.lora_bandwidth_hz = s.lora_bandwidth_hz /\ z.spreading_factor = s.spreading_factor
        /\ \A q \in Registers \ {"frf_msb", "frf_mid", "frf_lsb"}: z.regs[q] = s.regs[q]
        /\ z.ret = "SX_OK" => /\ z.regs["frf_msb"] = b.frf_msb
                              /\ z.regs["frf_mid"] = b.frf_mid
                              /\ z.regs["frf_lsb"] = b.frf_lsb
    <3>1. CASE u.ret = "SX_OK"
      <4>1. z \in WriteReg(u, "frf_lsb", b.frf_lsb)
        BY <2>3, <3>1 DEF Lsb
      <4>2. /\ z \in Radios
            /\ z.lora_bandwidth_hz = u.lora_bandwidth_hz
            /\ z.spreading_factor = u.spreading_factor
            /\ \A q \in Registers \ {"frf_lsb"}: z.regs[q] = u.regs[q]
            /\ z.ret = "SX_OK" => z.regs["frf_lsb"] = b.frf_lsb
        <5>1. PICK v \in 0..255: v = b.frf_lsb
          BY <2>b
        <5>2. u \in Radios /\ z \in WriteReg(u, "frf_lsb", v) /\ "frf_lsb" \in DividerBytes
          BY <2>6, <4>1, <5>1 DEF DividerBytes
        <5>3. OnlyByteChanged(u, "frf_lsb", v, z)
          BY <5>2, ByteWritten
        <5> QED
          BY <5>1, <5>3 DEF OnlyByteChanged
      <4> QED
        BY <2>6, <3>1, <4>2 DEF Registers
    <3>2. CASE u.ret # "SX_OK"
      BY <2>3, <2>6, <3>2
    <3> QED
      BY <3>1, <3>2
  <2>8. /\ y \in Radios /\ y.regs = z.regs /\ y.tuned = z.ret
        /\ y.lora_bandwidth_hz = s.lora_bandwidth_hz /\ y.spreading_factor = s.spreading_factor
    BY <2>2, <2>7 DEF Radios
  <2>9. y \in Steady
    <3>1. /\ y.regs["modem_config1"] = s.regs["modem_config1"]
          /\ y.regs["modem_config2"] = s.regs["modem_config2"]
      BY <2>7, <2>8 DEF Registers
    <3> QED
      BY <2>8, <3>1 DEF Steady, FactorKept, WideEnough
  <2>10. OnChannel(y)
    <3> SUFFICES ASSUME y.tuned = "SX_OK"
                 PROVE  FrfOf(y.regs) = channel_frf(n, y.lora_bandwidth_hz)
                        /\ n \in 0..calculate_channel_num(y.lora_bandwidth_hz) - 1
      BY DEF OnChannel
    <3>1. FrfOf(y.regs) = FrfOf(b)
      BY <2>7, <2>8, Divider
    <3>2. n \in 0..calculate_channel_num(s.lora_bandwidth_hz) - 1
      BY <1>2, <1>s
         DEF calculate_channel_num, lora_frequency_hf, lora_frequency_lf, Bandwidths
    <3> QED
      BY <2>8, <2>b, <3>1, <3>2
  <2> QED
    BY <2>9, <2>10 DEF Settled
<1> QED
  BY <1>1, <1>2

\* Sequences of register accesses, when each keeps a set of states.
LEMMA ModesSettled ==
  ASSUME NEW S, S \subseteq Settled, NEW m \in OpModes
  PROVE  UNION {IF s.ret = "SX_OK" THEN switch_mode(s, m) ELSE {s} : s \in S} \subseteq Settled
<1>1. \A s \in S: switch_mode(s, m) \subseteq Settled
  BY SwitchSettled
<1> QED
  BY <1>1

LEMMA AccessesSettled ==
  ASSUME NEW S, S \subseteq Settled
  PROVE  UNION {IF s.ret = "SX_OK" THEN Access(s) ELSE {s} : s \in S} \subseteq Settled
<1>1. \A s \in S: Access(s) \subseteq Settled
  BY AccessSettled
<1> QED
  BY <1>1

LEMMA FactorSettled ==
  ASSUME NEW s \in Settled, NEW sf \in Nat
  PROVE  sx_1278_set_spreading_factor(s, sf) \subseteq Settled
<1> SUFFICES ASSUME NEW y \in sx_1278_set_spreading_factor(s, sf) PROVE y \in Settled
  OBVIOUS
<1>0. y \in UNION {IF t.ret = "SX_OK"
                     THEN IF ValidFactor(sf)
                            THEN UNION {switch_mode(u, "LORA_SLEEP") :
                                          u \in {RememberFactor(v, sf) :
                                                   v \in WriteReg(t, "modem_config2", sf)}}
                            ELSE {[t EXCEPT !.ret = "SX_INVALID_ARGUMENT"]}
                     ELSE {t} : t \in switch_mode(s, "LORA_STDBY")}
  BY DEF sx_1278_set_spreading_factor, Then, Always
<1>1. PICK t \in switch_mode(s, "LORA_STDBY"):
        y \in IF t.ret = "SX_OK"
                THEN IF ValidFactor(sf)
                       THEN UNION {switch_mode(u, "LORA_SLEEP") :
                                     u \in {RememberFactor(v, sf) :
                                              v \in WriteReg(t, "modem_config2", sf)}}
                       ELSE {[t EXCEPT !.ret = "SX_INVALID_ARGUMENT"]}
                ELSE {t}
  BY <1>0
<1>2. t \in Settled
  BY SwitchSettled DEF OpModes
<1>3. CASE t.ret # "SX_OK" \/ ~ValidFactor(sf)
  BY <1>1, <1>2, <1>3, SettledResult DEF Codes
<1>4. CASE t.ret = "SX_OK" /\ ValidFactor(sf)
  <2>1. PICK v \in WriteReg(t, "modem_config2", sf):
          y \in switch_mode(RememberFactor(v, sf), "LORA_SLEEP")
    BY <1>1, <1>4
  <2>2. t \in Radios /\ t.regs \in RegisterFiles
    BY <1>2 DEF Settled, Steady, Radios
  <2>3. PICK f: f = [t.regs EXCEPT !["modem_config2"] = sf]
    OBVIOUS
  <2>4. /\ f \in RegisterFiles /\ f["modem_config2"] = sf
        /\ \A q \in Registers \ {"modem_config2"}: f[q] = t.regs[q]
    <3>1. "modem_config2" \in Registers /\ Fits("modem_config2", sf)
      BY <1>4 DEF Registers, Fits, ValidFactor
    <3>2. Overwrites(t.regs, "modem_config2", sf, f)
      BY <2>2, <2>3, <3>1, Overwritten
    <3> QED
      BY <3>2 DEF Overwrites
  <2>5. /\ v \in Radios
        /\ v.lora_bandwidth_hz = t.lora_bandwidth_hz /\ v.spreading_factor = t.spreading_factor
        /\ v.tuned = t.tuned
        /\ \/ v.ret = "SX_OK" /\ v.regs = f
           \/ v.ret = "SX_ERROR" /\ v.regs = t.regs
    BY <2>2, <2>3, <2>4, WriteResult DEF Registers
  <2>6. PICK w: w = RememberFactor(v, sf)
    OBVIOUS
  <2>7. /\ w \in Radios /\ w.lora_bandwidth_hz = t.lora_bandwidth_hz /\ w.tuned = t.tuned
        /\ w.regs = v.regs
        /\ w.spreading_factor = IF v.ret = "SX_OK" THEN sf ELSE t.spreading_factor
    BY <1>4, <2>5, <2>6 DEF RememberFactor, Radios, ValidFactor
  <2>8. \A q \in Registers \ {"modem_config2"}: w.regs[q] = t.regs[q]
    BY <2>4, <2>5, <2>7
  <2>9. FactorKept(w)
    BY <1>2, <2>4, <2>5, <2>7 DEF FactorKept, Settled, Steady
  <2>10. NoNarrowBand => WideEnough(w)
    BY <1>2, <2>7, <2>8 DEF Settled, Steady, WideEnough, Registers
  <2>11. OnChannel(w)
    <3>1. \A q \in {"frf_msb", "frf_mid", "frf_lsb"}: w.regs[q] = t.regs[q]
      BY <2>8 DEF Registers
    <3>2. FrfOf(w.regs) = FrfOf(t.regs)
      BY <3>1, Divider
    <3> QED
      BY <1>2, <2>7, <3>2 DEF Settled, OnChannel
  <2>12. w \in Settled
    BY <2>7, <2>9, <2>10, <2>11 DEF Settled, Steady
  <2> QED
    BY <2>1, <2>6, <2>12, SwitchSettled DEF OpModes
<1> QED
  BY <1>1, <1>3, <1>4

LEMMA SameSettled ==
  ASSUME NEW s \in Settled, NEW t \in Radios, t.regs = s.regs, t.tuned = s.tuned,
         t.lora_bandwidth_hz = s.lora_bandwidth_hz, t.spreading_factor = s.spreading_factor
  PROVE  t \in Settled
BY DEF Settled, Steady, FactorKept, WideEnough, OnChannel

\* The modem's settings, either written or not.
LEMMA ModemWritten ==
  ASSUME NEW s \in Settled, NEW m \in ModemSettings, NEW t \in WriteReg(s, "modem_config1", m)
  PROVE  /\ t \in Radios
         /\ t.lora_bandwidth_hz = s.lora_bandwidth_hz /\ FactorKept(t) /\ OnChannel(t)
         /\ \/ t.ret = "SX_OK" /\ t.regs["modem_config1"] = m
            \/ t.ret = "SX_ERROR" /\ t \in Settled
<1>1. s \in Radios /\ s.regs \in RegisterFiles
  BY DEF Settled, Steady, Radios
<1>2. PICK f: f = [s.regs EXCEPT !["modem_config1"] = m]
  OBVIOUS
<1>3. /\ f \in RegisterFiles /\ f["modem_config1"] = m
      /\ \A q \in Registers \ {"modem_config1"}: f[q] = s.regs[q]
  <2>1. "modem_config1" \in Registers /\ Fits("modem_config1", m)
    BY DEF Registers, Fits
  <2>2. Overwrites(s.regs, "modem_config1", m, f)
    BY <1>1, <1>2, <2>1, Overwritten
  <2> QED
    BY <2>2 DEF Overwrites
<1>4. /\ t \in Radios
      /\ t.lora_bandwidth_hz = s.lora_bandwidth_hz /\ t.spreading_factor = s.spreading_factor
      /\ t.tuned = s.tuned
      /\ \/ t.ret = "SX_OK" /\ t.regs = f
         \/ t.ret = "SX_ERROR" /\ t.regs = s.regs
  BY <1>1, <1>2, <1>3, WriteResult DEF Registers
<1>5. \A q \in {"modem_config2", "frf_msb", "frf_mid", "frf_lsb"}: t.regs[q] = s.regs[q]
  BY <1>3, <1>4 DEF Registers
<1>6. FactorKept(t)
  BY <1>4, <1>5 DEF Settled, Steady, FactorKept
<1>7. OnChannel(t)
  <2>1. FrfOf(t.regs) = FrfOf(s.regs)
    BY <1>5, Divider
  <2> QED
    BY <1>4, <2>1 DEF Settled, OnChannel
<1>8. t.regs = s.regs => t \in Settled
  BY <1>4, SameSettled
<1> QED
  BY <1>3, <1>4, <1>6, <1>7, <1>8

LEMMA BandwidthSettled ==
  ASSUME NEW s \in Settled, NEW bw \in SomeBandwidths, NEW cr \in 1..4, NEW explicit \in BOOLEAN
  PROVE  sx1278_set_bandwidth(s, bw, cr, explicit) \subseteq Settled
<1> SUFFICES ASSUME NEW y \in sx1278_set_bandwidth(s, bw, cr, explicit) PROVE y \in Settled
  OBVIOUS
<1> DEFINE m == Modem(bw, cr, explicit)
           Tune(u) ==
             IF u.ret = "SX_OK"
               THEN UNION {IF v.ret = "SX_OK" THEN switch_mode(v, "LORA_SLEEP") ELSE {v} :
                             v \in sx_1278_switch_to_nth_channel(
                                     [u EXCEPT !.lora_bandwidth_hz = bw], 0)}
               ELSE switch_mode(u, "LORA_SLEEP")
<1>0. y \in UNION {IF t.ret = "SX_OK"
                     THEN UNION {Tune(u) : u \in WriteReg(t, "modem_config1", m)}
                     ELSE {t} : t \in switch_mode(s, "LORA_STDBY")}
  BY DEF sx1278_set_bandwidth, Then, Always, Rebanded, Asleep
<1>1. PICK t \in switch_mode(s, "LORA_STDBY"):
        y \in IF t.ret = "SX_OK"
                THEN UNION {Tune(u) : u \in WriteReg(t, "modem_config1", m)}
                ELSE {t}
  BY <1>0
<1>2. t \in Settled
  BY SwitchSettled DEF OpModes
<1>3. CASE t.ret = "SX_OK"
  <2>1. PICK u \in WriteReg(t, "modem_config1", m): y \in Tune(u)
    BY <1>1, <1>3
  <2>b. /\ bw \in Bandwidths /\ (NoNarrowBand => bw >= 125000)
        /\ m \in ModemSettings /\ m.bw = bw /\ m.cr = cr
    BY ArgumentAssumption DEF NoNarrowBand, Bandwidths, Modem, ModemSettings
  <2>2. /\ u \in Radios /\ FactorKept(u)
        /\ \/ u.ret = "SX_OK" /\ u.regs["modem_config1"] = m
           \/ u.ret = "SX_ERROR" /\ u \in Settled
    BY <1>2, <2>b, ModemWritten
  <2> HIDE DEF m
  <2>3. CASE u.ret = "SX_OK" /\ u.regs["modem_config1"] = m
    <3>1. PICK w: w = [u EXCEPT !.lora_bandwidth_hz = bw]
      OBVIOUS
    <3>2. /\ w \in Radios /\ w.lora_bandwidth_hz = bw /\ w.regs = u.regs
          /\ w.spreading_factor = u.spreading_factor
      BY <2>2, <2>b, <3>1 DEF Radios
    <3>3. w \in Steady
      <4>1. FactorKept(w)
        BY <2>2, <3>2 DEF FactorKept
      <4>2. NoNarrowBand => WideEnough(w)
        BY <2>3, <2>b, <3>2 DEF WideEnough, Bandwidths
      <4> QED
        BY <3>2, <4>1, <4>2 DEF Steady
    <3>4. 0 < calculate_channel_num(w.lora_bandwidth_hz)
      BY <2>b, <3>2 DEF calculate_channel_num, lora_frequency_hf, lora_frequency_lf, Bandwidths
    <3>5. sx_1278_switch_to_nth_channel(w, 0) \subseteq Settled
      BY <3>3, <3>4, TuneSettles
    <3>6. y \in UNION {IF v.ret = "SX_OK" THEN switch_mode(v, "LORA_SLEEP") ELSE {v} :
                         v \in sx_1278_switch_to_nth_channel(w, 0)}
      BY <2>1, <2>3, <3>1
    <3> QED
      BY <3>5, <3>6, ModesSettled DEF OpModes
  <2>4. CASE u.ret = "SX_ERROR" /\ u \in Settled
    BY <2>1, <2>4, SwitchSettled DEF OpModes
  <2> QED
    BY <2>2, <2>3, <2>4
<1>4. CASE t.ret # "SX_OK"
  BY <1>1, <1>2, <1>4
<1> QED
  BY <1>3, <1>4

LEMMA InitializeSettled ==
  ASSUME NEW s \in Settled
  PROVE  initialize_sx_1278(s) \subseteq Settled
<1> DEFINE V == {[s EXCEPT !.ret = "SX_OK"]}
                  \cup IF SpiFails
                         THEN {[s EXCEPT !.ret = c] : c \in {"SX_ERROR", "SX_INVALID_RESPONSE"}}
                         ELSE {}
           A == UNION {IF t.ret = "SX_OK" THEN switch_mode(t, "LORA_SLEEP") ELSE {t} : t \in V}
           B == UNION {IF t.ret = "SX_OK" THEN Access(t) ELSE {t} : t \in A}
           C == UNION {IF t.ret = "SX_OK" THEN switch_mode(t, "LORA_STDBY") ELSE {t} : t \in B}
           D == UNION {IF t.ret = "SX_OK" THEN sx_1278_switch_to_nth_channel(t, 0) ELSE {t} :
                         t \in C}
           E == UNION {IF t.ret = "SX_OK" THEN Access(t) ELSE {t} : t \in D}
           F == UNION {IF t.ret = "SX_OK"
                         THEN WriteReg(t, "modem_config1", Modem(125000, 1, TRUE)) ELSE {t} :
                         t \in E}
           G == UNION {IF t.ret = "SX_OK"
                         THEN sx_1278_set_spreading_factor(t, t.spreading_factor) ELSE {t} :
                         t \in F}
           H == UNION {IF t.ret = "SX_OK" THEN Access(t) ELSE {t} : t \in G}
<1>0. initialize_sx_1278(s) = {[t EXCEPT !.ready = TRUE] : t \in H}
  BY DEF initialize_sx_1278, Then
<1>1. V \subseteq Settled
  BY SettledResult DEF Codes
<1> HIDE DEF V
<1>2. A \subseteq Settled
  BY <1>1, ModesSettled DEF OpModes
<1> HIDE DEF A
<1>3. B \subseteq Settled
  BY <1>2, AccessesSettled
<1> HIDE DEF B
<1>4. C \subseteq Settled
  BY <1>3, ModesSettled DEF OpModes
<1> HIDE DEF C
<1>5. D \subseteq Settled
  <2>1. \A t \in C: sx_1278_switch_to_nth_channel(t, 0) \subseteq Settled
    BY <1>4, TuneSettles DEF Settled
  <2> QED
    BY <1>4, <2>1
<1> HIDE DEF D
<1>6. E \subseteq Settled
  BY <1>5, AccessesSettled
<1> HIDE DEF E
<1>7. F \subseteq Settled
  <2> DEFINE m == Modem(125000, 1, TRUE)
  <2>1. m \in ModemSettings /\ m.bw = 125000 /\ m.cr = 1
    BY DEF Modem, ModemSettings, Bandwidths
  <2> HIDE DEF m
  <2>2. ASSUME NEW t \in E, NEW u \in WriteReg(t, "modem_config1", m)
        PROVE  u \in Settled
    <3>1. t \in Settled
      BY <1>6
    <3>2. /\ u \in Radios
          /\ u.lora_bandwidth_hz = t.lora_bandwidth_hz /\ FactorKept(u) /\ OnChannel(u)
          /\ \/ u.ret = "SX_OK" /\ u.regs["modem_config1"] = m
             \/ u.ret = "SX_ERROR" /\ u \in Settled
      BY <2>1, <3>1, ModemWritten
    <3>3. CASE u.regs["modem_config1"] = m
      <4>1. NoNarrowBand => WideEnough(u)
        BY <2>1, <3>1, <3>2, <3>3 DEF WideEnough, Settled, Steady
      <4> QED
        BY <3>2, <4>1 DEF Settled, Steady
    <3> QED
      BY <3>2, <3>3
  <2>3. F = UNION {IF t.ret = "SX_OK" THEN WriteReg(t, "modem_config1", m) ELSE {t} : t \in E}
    BY DEF m
  <2> HIDE DEF F
  <2>4. \A t \in E: WriteReg(t, "modem_config1", m) \subseteq Settled
    BY <2>2
  <2> QED
    BY <1>6, <2>3, <2>4
<1> HIDE DEF F
<1>8. G \subseteq Settled
  <2>1. \A t \in F: t.spreading_factor \in Nat
    BY <1>7 DEF Settled, Steady, Radios
  <2>2. \A t \in F: sx_1278_set_spreading_factor(t, t.spreading_factor) \subseteq Settled
    BY <1>7, <2>1, FactorSettled
  <2> QED
    BY <1>7, <2>2
<1> HIDE DEF G
<1>9. H \subseteq Settled
  BY <1>8, AccessesSettled
<1> HIDE DEF H
<1>10. ASSUME NEW t \in H PROVE [t EXCEPT !.ready = TRUE] \in Settled
  <2>1. t \in Settled
    BY <1>9
  <2>2. PICK u: u = [t EXCEPT !.ready = TRUE]
    OBVIOUS
  <2>3. /\ u \in Radios /\ u.regs = t.regs /\ u.tuned = t.tuned
        /\ u.lora_bandwidth_hz = t.lora_bandwidth_hz /\ u.spreading_factor = t.spreading_factor
    BY <2>1, <2>2 DEF Settled, Steady, Radios
  <2> QED
    BY <2>1, <2>2, <2>3, SameSettled
<1> QED
  BY <1>0, <1>10

-----------------------------------------------------------------------------
(* The channel scan.                                                       *)

LEMMA MeasureSettled ==
  ASSUME NEW s \in Settled, NEW n \in Nat
  PROVE  MeasureChannel(s, n) \subseteq Settled
<1>1. sx_1278_switch_to_nth_channel(s, n) \subseteq Settled
  BY TuneSettles DEF Settled
<1> QED
  BY <1>1, AccessesSettled DEF MeasureChannel, Then

\* The states after each channel, from those in which the scan begins.
Scans(B, n, f) ==
  f = [i \in 0..n |-> IF i = 0 THEN B ELSE UNION {MeasureChannel(t, i - 1) : t \in f[i - 1]}]

LEMMA ScanExists ==
  ASSUME NEW B, NEW n \in Nat
  PROVE  \E f: Scans(B, n, f)
<1> DEFINE S == {k \in Nat: \E f: Scans(B, k, f)}
<1>1. 0 \in S
  <2>1. Scans(B, 0, [i \in 0..0 |-> B])
    BY DEF Scans
  <2> QED
    BY <2>1
<1>2. ASSUME NEW k \in Nat, k \in S
      PROVE  k + 1 \in S
  <2>1. PICK f: Scans(B, k, f)
    BY <1>2
  <2> DEFINE g == [i \in 0..k + 1 |->
                     IF i = k + 1 THEN UNION {MeasureChannel(t, k) : t \in f[k]} ELSE f[i]]
  <2>2. ASSUME NEW i \in 0..k + 1
        PROVE  g[i] = IF i = 0 THEN B ELSE UNION {MeasureChannel(t, i - 1) : t \in g[i - 1]}
    <3>1. CASE i = k + 1
      <4>1. i # 0 /\ i - 1 = k /\ k \in 0..k + 1 /\ k # k + 1
        BY <3>1
      <4>2. g[i - 1] = f[k]
        BY <4>1
      <4>3. g[i] = UNION {MeasureChannel(t, k) : t \in f[k]}
        BY <3>1
      <4> QED
        BY <4>1, <4>2, <4>3
    <3>2. CASE i # k + 1
      <4>1. i \in 0..k /\ g[i] = f[i]
        BY <3>2
      <4>2. i # 0 => i - 1 \in 0..k + 1 /\ i - 1 # k + 1 /\ g[i - 1] = f[i - 1]
        BY <4>1
      <4>3. f[i] = IF i = 0 THEN B ELSE UNION {MeasureChannel(t, i - 1) : t \in f[i - 1]}
        BY <2>1, <4>1 DEF Scans
      <4> QED
        BY <4>1, <4>2, <4>3
    <3> QED
      BY <3>1, <3>2
  <2>3. DOMAIN g = 0..k + 1 /\ g = [i \in 0..k + 1 |-> g[i]]
    OBVIOUS
  <2> HIDE DEF g
  <2>4. Scans(B, k + 1, g)
    BY <2>2, <2>3 DEF Scans
  <2> QED
    BY <2>4
<1> QED
  <2>1. Nat \subseteq S
    <3> HIDE DEF S
    <3> QED
      BY <1>1, <1>2, Induction
  <2> QED
    BY <2>1

LEMMA ScanSettled ==
  ASSUME NEW B, B \subseteq Settled, NEW n \in Nat, NEW f, Scans(B, n, f)
  PROVE  f[n] \subseteq Settled
<1> DEFINE S == {k \in Nat: k <= n => f[k] \subseteq Settled}
<1>1. 0 \in S
  <2>1. f[0] = B
    BY DEF Scans
  <2> QED
    BY <2>1
<1>2. ASSUME NEW k \in Nat, k \in S
      PROVE  k + 1 \in S
  <2> SUFFICES ASSUME k + 1 <= n
               PROVE  f[k + 1] \subseteq Settled
    OBVIOUS
  <2>1. f[k] \subseteq Settled
    BY <1>2
  <2>2. k + 1 \in 0..n /\ k + 1 # 0 /\ (k + 1) - 1 = k
    OBVIOUS
  <2>3. f[k + 1] = UNION {MeasureChannel(t, k) : t \in f[k]}
    <3>1. f[k + 1] = UNION {MeasureChannel(t, (k + 1) - 1) : t \in f[(k + 1) - 1]}
      <4>1. \A i \in 0..n: i # 0 => f[i] = UNION {MeasureChannel(t, i - 1) : t \in f[i - 1]}
        BY DEF Scans
      <4> QED
        BY <2>2, <4>1
    <3> QED
      BY <2>2, <3>1
  <2>4. \A t \in f[k]: MeasureChannel(t, k) \subseteq Settled
    BY <2>1, MeasureSettled
  <2> QED
    BY <2>3, <2>4
<1> QED
  <2>1. Nat \subseteq S
    <3> HIDE DEF S
    <3> QED
      BY <1>1, <1>2, Induction
  <2> QED
    BY <2>1

LEMMA RssisSettled ==
  ASSUME NEW s \in Settled
  PROVE  sx_1278_get_channel_rssis(s) \subseteq Settled
<1> DEFINE A == switch_mode(s, "LORA_SLEEP")
           FskSleep(t) ==
             switch_mode(t, "FSK_SLEEP") \cup IF ModeStuck THEN {[t EXCEPT !.ret = "SX_OK"]} ELSE {}
           C == UNION {IF t.ret = "SX_OK" THEN FskSleep(t) ELSE {t} : t \in A}
           D == UNION {IF t.ret = "SX_OK" THEN Access(t) ELSE {t} : t \in C}
           E == UNION {IF t.ret = "SX_OK" THEN Receiver(t) ELSE {t} : t \in D}
           Begun == {t \in E : t.ret = "SX_OK"}
           n == calculate_channel_num(s.lora_bandwidth_hz)
           scan == CHOOSE f: Scans(Begun, n, f)
<1>0. sx_1278_get_channel_rssis(s)
        = (E \ Begun) \cup UNION {switch_mode(t, "LORA_SLEEP") : t \in scan[n]}
  BY DEF sx_1278_get_channel_rssis, switch_to_fsk, Then, Always, Asleep, Scans
<1>1. A \subseteq Settled
  BY SwitchSettled DEF OpModes
<1> HIDE DEF A
<1>2. C \subseteq Settled
  <2>1. \A t \in A: switch_mode(t, "FSK_SLEEP") \subseteq Settled
    BY <1>1, SwitchSettled DEF OpModes
  <2>2. \A t \in A: [t EXCEPT !.ret = "SX_OK"] \in Settled
    BY <1>1, SettledResult DEF Codes
  <2>3. \A t \in A: FskSleep(t) \subseteq Settled
    BY <2>1, <2>2
  <2> HIDE DEF FskSleep
  <2> QED
    BY <1>1, <2>3
<1> HIDE DEF C
<1>3. D \subseteq Settled
  BY <1>2, AccessesSettled
<1> HIDE DEF D
<1>4. E \subseteq Settled
  <2>1. \A t \in D: Receiver(t) \subseteq Settled
    <3> TAKE t \in D
    <3>1. Receiver(t) = switch_mode(t, IF t.regs["op_mode"] = "FSK_SLEEP" THEN "FSK_RX" ELSE "LORA_RX")
      BY DEF Receiver, switch_mode
    <3>2. (IF t.regs["op_mode"] = "FSK_SLEEP" THEN "FSK_RX" ELSE "LORA_RX") \in OpModes
      BY DEF OpModes
    <3> QED
      BY <1>3, <3>1, <3>2, SwitchSettled
  <2> QED
    BY <1>3, <2>1
<1> HIDE DEF E
<1>5. n \in Nat
  <2>1. s.lora_bandwidth_hz \in Bandwidths
    BY DEF Settled, Steady, Radios
  <2> QED
    BY <2>1 DEF calculate_channel_num, lora_frequency_hf, lora_frequency_lf, Bandwidths
<1> HIDE DEF n
<1>6. Begun \subseteq Settled
  BY <1>4
<1> HIDE DEF Begun
<1>7. Scans(Begun, n, scan)
  BY <1>5, ScanExists
<1> HIDE DEF scan
<1>8. scan[n] \subseteq Settled
  BY <1>5, <1>6, <1>7, ScanSettled
<1>9. \A t \in scan[n]: switch_mode(t, "LORA_SLEEP") \subseteq Settled
  BY <1>8, SwitchSettled DEF OpModes
<1> QED
  BY <1>0, <1>4, <1>9

-----------------------------------------------------------------------------
(* The invariant.                                                          *)

LEMMA InitSettled == Init => IInv
<1> SUFFICES ASSUME Init PROVE radio \in Settled
  BY DEF IInv
<1>1. /\ radio.regs = [r \in Registers |->
                         CASE r = "op_mode" -> "POWER_ON"
                           [] r = "modem_config1" -> Modem(Unset, Unset, TRUE)
                           [] OTHER -> Unset]
      /\ radio.lora_bandwidth_hz = 125000 /\ radio.tuned = "never"
  BY DEF Init
<1>2. Modem(Unset, Unset, TRUE) \in ModemSettings
  BY DEF Modem, ModemSettings, Unset
<1>3. /\ radio.regs["op_mode"] = "POWER_ON"
      /\ radio.regs["modem_config1"] = Modem(Unset, Unset, TRUE)
      /\ \A r \in {"frf_msb", "frf_mid", "frf_lsb", "modem_config2"}: radio.regs[r] = 0
      /\ DOMAIN radio.regs = Registers
  <2> DEFINE v(r) == CASE r = "op_mode" -> "POWER_ON"
                       [] r = "modem_config1" -> Modem(Unset, Unset, TRUE)
                       [] OTHER -> Unset
  <2>1. /\ v("op_mode") = "POWER_ON" /\ v("modem_config1") = Modem(Unset, Unset, TRUE)
        /\ \A r \in {"frf_msb", "frf_mid", "frf_lsb", "modem_config2"}: v(r) = 0
    BY DEF Unset
  <2>2. radio.regs = [r \in Registers |-> v(r)]
    BY <1>1
  <2> HIDE DEF v
  <2> QED
    BY <2>1, <2>2 DEF Registers
<1>4. radio.regs \in [Registers -> OpModes \cup Nat \cup ModemSettings]
  <2>1. \A r \in Registers: radio.regs[r] \in OpModes \cup Nat \cup ModemSettings
    <3>1. "POWER_ON" \in OpModes /\ 0 \in Nat
      BY DEF OpModes
    <3> QED
      BY <1>2, <1>3, <3>1 DEF Registers
  <2>2. radio.regs = [r \in Registers |-> radio.regs[r]]
    BY <1>1
  <2> QED
    BY <2>1, <2>2
<1>5. radio.regs \in RegisterFiles
  <2>1. radio.regs["op_mode"] \in OpModes
    BY <1>3 DEF OpModes
  <2>2. /\ \A r \in {"frf_msb", "frf_mid", "frf_lsb"}: radio.regs[r] \in 0..255
        /\ radio.regs["modem_config2"] \in 6..12 \cup {Unset}
    BY <1>3 DEF Unset
  <2>3. radio.regs["modem_config1"] \in ModemSettings
    BY <1>2, <1>3
  <2> QED
    BY <1>4, <2>1, <2>2, <2>3 DEF RegisterFiles
<1>6. radio \in Radios
  BY <1>5 DEF Init, Radios, Bandwidths, Codes
<1>7. FactorKept(radio) /\ WideEnough(radio) /\ OnChannel(radio)
  BY <1>1, <1>3 DEF FactorKept, WideEnough, OnChannel, Modem, Registers, Unset
<1> QED
  BY <1>6, <1>7 DEF Settled, Steady

LEMMA NextSettled == IInv /\ [Next]_vars => IInv'
<1> SUFFICES ASSUME radio \in Settled, [Next]_vars PROVE radio' \in Settled
  BY DEF IInv
<1>1. CASE Initialize
  BY <1>1, InitializeSettled DEF Initialize
<1>2. CASE SetFactor
  BY <1>2, FactorSettled, ArgumentAssumption DEF SetFactor
<1>3. CASE SetBandwidth
  BY <1>3, BandwidthSettled, ArgumentAssumption DEF SetBandwidth
<1>4. CASE SwitchChannel
  BY <1>4, TuneSettles, ArgumentAssumption DEF SwitchChannel, Settled
<1>5. CASE ScanChannels
  BY <1>5, RssisSettled DEF ScanChannels
<1>6. CASE UNCHANGED vars
  BY <1>6 DEF vars
<1> QED
  BY <1>1, <1>2, <1>3, <1>4, <1>5, <1>6 DEF Next

LEMMA SettledInvariant == Spec => []IInv
BY InitSettled, NextSettled, PTL DEF Spec

\* Every register holds what the chip can be asked for, whatever sequence of
\* calls is made and whatever accesses fail; in particular no spreading factor
\* outside 6..12 reaches it (sx_1278_set_spreading_factor).
THEOREM TypeCorrect == Spec => []TypeOK
<1>1. IInv => TypeOK
  BY DEF IInv, Settled, Steady, Radios, RegisterFiles, TypeOK, OpModes, ModemSettings
<1> QED
  BY <1>1, SettledInvariant, PTL

\* The spreading factor that the driver remembers is the one on the chip, once it
\* has been given one, although a failed write is not reported
\* (sx_1278_set_spreading_factor returns the code of the mode switch after it).
THEOREM RememberedFactorCorrect == Spec => []RememberedFactorIsOnChip
<1>1. IInv => RememberedFactorIsOnChip
  BY DEF IInv, Settled, Steady, FactorKept, RememberedFactorIsOnChip
<1> QED
  BY <1>1, SettledInvariant, PTL

\* While the last attempt to tune has not failed, the three bytes of the divider
\* are those of one of the channels of the bandwidth in use: none of the calls
\* that tune (initialize_sx_1278, sx1278_set_bandwidth, the scan) leaves bytes of
\* two channels, or a channel of an earlier bandwidth.
THEOREM OnPlanCorrect == Spec => []OnPlan
<1>1. IInv => OnPlan
  BY DEF IInv, Settled, OnChannel, OnPlan, Tuned
<1> QED
  BY <1>1, SettledInvariant, PTL

\* Without the bandwidth of 62.5 kHz the channel lies in the band from edge to
\* edge at the bandwidth that the chip has.  (With it, it need not: after the
\* radio has been initialised again the chip's bandwidth is 125 kHz again and the
\* driver's is not, initialize_sx_1278.)
THEOREM InBandCorrect ==
  ASSUME NoNarrowBand
  PROVE  Spec => []InBand
<1>1. IInv => InBand
  <2> SUFFICES ASSUME radio \in Settled, radio.tuned = "SX_OK"
               PROVE  LET f == Frequency(FrfOf(radio.regs))
                          half == radio.regs["modem_config1"].bw \div 2
                      IN  lora_frequency_lf <= f - half /\ f + half <= lora_frequency_hf
    BY DEF IInv, InBand
  <2> DEFINE bw == radio.lora_bandwidth_hz
             chip_bw == radio.regs["modem_config1"].bw
  <2>1. PICK n \in 0..calculate_channel_num(bw) - 1: FrfOf(radio.regs) = channel_frf(n, bw)
    BY DEF Settled, OnChannel
  <2>2. bw \in Bandwidths /\ chip_bw \in Bandwidths \cup {Unset} /\ chip_bw <= bw
    BY DEF Settled, Steady, Radios, RegisterFiles, ModemSettings, WideEnough
  <2> HIDE DEF bw, chip_bw
  <2>3. n \in Nat /\ n < calculate_channel_num(bw)
    BY <2>1, <2>2 DEF calculate_channel_num, lora_frequency_hf, lora_frequency_lf, Bandwidths
  <2>4. Frequency(FrfOf(radio.regs)) = raw_freq(n, bw)
    BY <2>1, <2>2, <2>3, FrfExact
  <2>5. /\ lora_frequency_lf <= raw_freq(n, bw) - bw \div 2
        /\ raw_freq(n, bw) + bw \div 2 <= lora_frequency_hf
    BY <2>2, <2>3, ChannelInBand
  <2>6. /\ chip_bw \div 2 \in Int /\ bw \div 2 \in Int /\ chip_bw \div 2 <= bw \div 2
        /\ raw_freq(n, bw) \in Int
    BY <2>2, <2>3 DEF Bandwidths, Unset, raw_freq, lora_frequency_lf
  <2>7. /\ lora_frequency_lf <= raw_freq(n, bw) - chip_bw \div 2
        /\ raw_freq(n, bw) + chip_bw \div 2 <= lora_frequency_hf
    BY <2>5, <2>6 DEF lora_frequency_lf, lora_frequency_hf
  <2> QED
    BY <2>4, <2>7 DEF chip_bw
<1> QED
  BY <1>1, SettledInvariant, PTL

-----------------------------------------------------------------------------
(* Time on air.                                                            *)

WideBandwidths == {125000, 250000, 500000}

\* A quarter of a symbol, in microseconds, and how long it may be; the symbols
\* of the longest frame.
QuarterSymbol(sf, bw) == SymbolTime(sf, bw) \div 4
QuarterBound(sf) == IF sf = 12 THEN 8192 ELSE 4096
CountBound(sf) == IF sf = 12 THEN 32 ELSE 56

LEMMA SymbolsBound ==
  ASSUME NEW sf \in 6..12, NEW cr \in 1..4, NEW explicit \in BOOLEAN
  PROVE  PayloadSymbols(max_frame_size, sf, cr, explicit) \in 0..CountBound(sf)
<1>1. PICK bits: bits = 164 - 4 * sf - IF explicit THEN 0 ELSE 20
  OBVIOUS
<1>2. PICK k: k = (bits + 4 * sf - 1) \div (4 * sf)
  OBVIOUS
<1>3. k \in 0..6 /\ (sf = 12 => k \in 0..3)
  <2>1. bits + 4 * sf - 1 \in {163, 143}
    BY SMT, <1>1
  <2>2. \A b \in {163, 143}:
          /\ b \div 24 \in 0..6 /\ b \div 28 \in 0..6 /\ b \div 32 \in 0..6
          /\ b \div 36 \in 0..6 /\ b \div 40 \in 0..6 /\ b \div 44 \in 0..6
          /\ b \div 48 \in 0..3
    BY SMT
  <2>3. sf \in {6, 7, 8, 9, 10, 11, 12}
    BY SMT
  <2> QED
    BY SMT, <1>2, <2>1, <2>2, <2>3
<1>4. PayloadSymbols(max_frame_size, sf, cr, explicit) = 8 + (cr + 4) * k
  <2>1. 8 * max_frame_size - 4 * sf + 44 - (IF explicit THEN 0 ELSE 20) = bits
    BY SMT, <1>1 DEF max_frame_size
  <2> QED
    BY SMT, <1>2, <2>1 DEF PayloadSymbols
<1>5. \A i \in 0..6: 8 + (cr + 4) * i \in 0..56 /\ (i <= 3 => 8 + (cr + 4) * i \in 0..32)
  BY SMT
<1> QED
  BY SMT, <1>3, <1>4, <1>5 DEF CountBound

LEMMA QuarterSymbolBound ==
  ASSUME NEW sf \in 6..12, NEW bw \in WideBandwidths
  PROVE  QuarterSymbol(sf, bw) \in 0..QuarterBound(sf)
<1>1. PICK p: p = 2 ^ sf
  OBVIOUS
<1>2. PICK d: d = bw \div 62500
  OBVIOUS
<1>3. p \in {64, 128, 256, 512, 1024, 2048, 4096} /\ (sf # 12 => p # 4096)
  <2>0. /\ 2 ^ 6 = 64 /\ 2 ^ 7 = 128 /\ 2 ^ 8 = 256 /\ 2 ^ 9 = 512 /\ 2 ^ 10 = 1024
        /\ 2 ^ 11 = 2048 /\ 2 ^ 12 = 4096
    BY SMT
  <2>1. CASE sf = 6 BY SMT, <1>1, <2>0, <2>1
  <2>2. CASE sf = 7 BY SMT, <1>1, <2>0, <2>2
  <2>3. CASE sf = 8 BY SMT, <1>1, <2>0, <2>3
  <2>4. CASE sf = 9 BY SMT, <1>1, <2>0, <2>4
  <2>5. CASE sf = 10 BY SMT, <1>1, <2>0, <2>5
  <2>6. CASE sf = 11 BY SMT, <1>1, <2>0, <2>6
  <2>7. CASE sf = 12 BY SMT, <1>1, <2>0, <2>7
  <2> QED
    BY SMT, <2>1, <2>2, <2>3, <2>4, <2>5, <2>6, <2>7
<1>4. d \in {2, 4, 8}
  BY SMT, <1>2 DEF WideBandwidths
<1>5. QuarterSymbol(sf, bw) = ((p * 16) \div d) \div 4
  BY <1>1, <1>2 DEF QuarterSymbol, SymbolTime
<1>6. \A e \in {2, 4, 8}: ((p * 16) \div e) \div 4 \in 0..QuarterBound(sf)
  BY SMT, <1>3 DEF QuarterBound
<1> QED
  BY Zenon, <1>4, <1>5, <1>6

LEMMA AirTimeBound ==
  ASSUME NEW sf \in 6..12, NEW bw \in WideBandwidths, NEW cr \in 1..4, NEW explicit \in BOOLEAN
  PROVE  TimeOnAir(max_frame_size, sf, bw, cr, explicit) <= 1000 * PHY_TIMEOUT_MSEC
<1>1. PICK a: a = QuarterSymbol(sf, bw)
  OBVIOUS
<1>2. PICK b: b = PayloadSymbols(max_frame_size, sf, cr, explicit)
  OBVIOUS
<1>3. a \in 0..QuarterBound(sf)
  BY <1>1, QuarterSymbolBound
<1>4. b \in 0..CountBound(sf)
  BY <1>2, SymbolsBound
<1>5. TimeOnAir(max_frame_size, sf, bw, cr, explicit) = a * (113 + 4 * b)
  BY SMT, <1>1, <1>2 DEF TimeOnAir, QuarterSymbol
<1>6. \A x, y, z \in Nat: x <= z => x * y <= z * y
  BY SMT
<1>7. CASE sf = 12
  <2>1. a \in 0..8192 /\ b \in 0..32
    <3>1. QuarterBound(sf) = 8192 /\ CountBound(sf) = 32
      BY <1>7 DEF QuarterBound, CountBound
    <3> QED
      BY <1>3, <1>4, <3>1
  <2>2. a * (113 + 4 * b) <= 8192 * (113 + 4 * b)
    <3>1. a \in Nat /\ 8192 \in Nat /\ a <= 8192 /\ b \in Nat
      BY <2>1
    <3>2. 113 + 4 * b \in Nat
      BY <3>1
    <3> QED
      BY <1>6, <3>1, <3>2
  <2>3. a * (113 + 4 * b) \in Int /\ 8192 * (113 + 4 * b) <= 3000000
    BY SMT, <2>1
  <2> QED
    BY SMT, <1>5, <2>1, <2>2, <2>3 DEF PHY_TIMEOUT_MSEC
<1>8. CASE sf # 12
  <2>1. a \in 0..4096 /\ b \in 0..56
    <3>1. QuarterBound(sf) = 4096 /\ CountBound(sf) = 56
      BY <1>8 DEF QuarterBound, CountBound
    <3> QED
      BY <1>3, <1>4, <3>1
  <2>2. a * (113 + 4 * b) <= 4096 * (113 + 4 * b)
    <3>1. a \in Nat /\ 4096 \in Nat /\ a <= 4096 /\ b \in Nat
      BY <2>1
    <3>2. 113 + 4 * b \in Nat
      BY <3>1
    <3> QED
      BY <1>6, <3>1, <3>2
  <2>3. a * (113 + 4 * b) \in Int /\ 4096 * (113 + 4 * b) <= 3000000
    BY SMT, <2>1
  <2> QED
    BY SMT, <1>5, <2>1, <2>2, <2>3 DEF PHY_TIMEOUT_MSEC
<1> QED
  BY <1>7, <1>8

\* Without the bandwidth of 62.5 kHz, which is too slow for it, every frame goes out within
\* the time that the driver waits for a transmission or a reply, at any spreading
\* factor and coding rate the calls and their failures leave on the chip
\* (sx1278_send_payload, sx1278_poll_and_read_packet).
THEOREM FramesFitTimeoutCorrect ==
  ASSUME NoNarrowBand
  PROVE  Spec => []FramesFitTimeout
<1>1. IInv => FramesFitTimeout
  <2> DEFINE m == radio.regs["modem_config1"]
             sf == radio.regs["modem_config2"]
  <2> SUFFICES ASSUME radio \in Settled, m.bw # Unset, sf # Unset
               PROVE  TimeOnAir(max_frame_size, sf, m.bw, m.cr, m.explicit)
                        <= 1000 * PHY_TIMEOUT_MSEC
    BY DEF IInv, FramesFitTimeout
  <2>1. /\ m \in ModemSettings /\ sf \in 6..12 \cup {Unset}
        /\ m.bw >= 125000 /\ m.cr \in 1..4
    BY DEF Settled, Steady, Radios, RegisterFiles, WideEnough
  <2> HIDE DEF m, sf
  <2>2. m.bw \in WideBandwidths /\ sf \in 6..12 /\ m.explicit \in BOOLEAN
    BY SMT, <2>1 DEF WideBandwidths, ModemSettings, Bandwidths, Unset
  <2> QED
    BY <2>1, <2>2, AirTimeBound
<1> QED
  BY <1>1, SettledInvariant, PTL
=============================================================================
