------------------------------ MODULE Channels ------------------------------
(***************************************************************************)
(* The channel plan of src/sx127x_config.c: the band is cut into channels  *)
(* one bandwidth wide, and channel n is programmed as the 24-bit divider   *)
(* frf of the synthesizer, written to three registers from the most        *)
(* significant byte down.                                                  *)
(***************************************************************************)
EXTENDS Integers

lora_frequency_lf == 863000000
lora_frequency_hf == 865000000

\* get_bw_value over the enumerators of bandwidths, in Hz.
Bandwidths == {62500, 125000, 250000, 500000}

\* (Mutant of calculate_channel_num: the band's margin is left out and its end
\* counted in.)
WithoutMargin(bw) == (lora_frequency_hf - lora_frequency_lf) \div bw + 1

calculate_channel_num(bw) == (lora_frequency_hf - lora_frequency_lf - 2 * bw) \div bw

\* The centre of channel n.
raw_freq(n, bw) == lora_frequency_lf + n * bw + bw \div 2

\* (raw << 19) / FXOSC with FXOSC = 32 MHz is 256 * raw \div 15625; the product
\* is taken apart here so that no intermediate result needs 64 bits.
Frf(raw) == 256 * (raw \div 15625) + (256 * (raw % 15625)) \div 15625

channel_frf(n, bw) == Frf(raw_freq(n, bw))

\* The three bytes, most significant first, and the divider they make up.
FrfByte(frf) ==
  [frf_msb |-> (frf \div 65536) % 256, frf_mid |-> (frf \div 256) % 256, frf_lsb |-> frf % 256]

FrfOf(b) == 65536 * b.frf_msb + 256 * b.frf_mid + b.frf_lsb

\* The frequency, in whole Hz, a divider stands for: one unit is 31250 / 512 Hz.
Frequency(frf) == 31250 * (frf \div 512) + (31250 * (frf % 512)) \div 512

-----------------------------------------------------------------------------
(* Time on air.                                                            *)

\* What a transmission and a reply may take, and the longest frame: seven bytes
\* of header and eight of payload.
PHY_TIMEOUT_MSEC == 3000
max_frame_size == 15

\* One symbol, in microseconds (bandwidths are multiples of 62.5 kHz).
SymbolTime(sf, bw) == ((2 ^ sf) * 16) \div (bw \div 62500)

\* Symbols after the preamble of a frame of n bytes, CRC on, without the chip's
\* low data rate optimisation, which the driver never turns on.
PayloadSymbols(n, sf, cr, explicit) ==
  LET bits == 8 * n - 4 * sf + 44 - IF explicit THEN 0 ELSE 20
  IN 8 + (cr + 4) * ((bits + 4 * sf - 1) \div (4 * sf))

\* In microseconds, with the preamble of 24 + 4.25 symbols.
TimeOnAir(n, sf, bw, cr, explicit) ==
  (SymbolTime(sf, bw) \div 4) * (113 + 4 * PayloadSymbols(n, sf, cr, explicit))
=============================================================================
