-------------------------- MODULE MCFragmentation --------------------------
(***************************************************************************)
(* Data of every length up to MaxLength over two byte values, none to as   *)
(* many fragments as the capture array has slots for, the last one full or *)
(* not.                                                                    *)
(***************************************************************************)
EXTENDS Fragmentation

CONSTANT MaxLength

ShortData == UNION {[1..n -> {1, UINT8_MAX}] : n \in 0..MaxLength}

\* Two addresses that differ in both bytes from their mirror images.
TwoAddresses == {Base, 2 * Base + 1}
=============================================================================
