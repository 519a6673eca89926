------------------------------ MODULE MCBurst ------------------------------
(***************************************************************************)
(* The example as it is built: one burst of two fragments, ack_id 1, three *)
(* of its four attempts per packet.                                        *)
(***************************************************************************)
EXTENDS BurstExample, MCLoraLink
=============================================================================
