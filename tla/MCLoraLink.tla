---------------------------- MODULE MCLoraLink ----------------------------
(***************************************************************************)
(* Bounded instances of LoraLink: at most two transfers of at most three   *)
(* fragments, with sequence numbers up to UINT8_MAX, which leaves the      *)
(* capture array UINT8_MAX - 1 slots.                                      *)
(***************************************************************************)
EXTENDS LoraLink

CONSTANTS MaxJobs, MaxFragments

Burst(id, n) == [framed |-> TRUE, ack_id |-> id, n |-> n]
Command(id) == [framed |-> FALSE, ack_id |-> id, n |-> 1]

\* Fragment i of transfer j carries payload <<j, i>>.
MCPayloads == (1..MaxJobs) \X (1..MaxFragments)

\* What the handler is made for: no ack_id 0, no two transfers in a row of
\* which the first is a command with the second's ack_id, bursts that fit the
\* capture array.  The burst example's constant ACK_ID is among them.
GoodIds ==
  {<<Burst(1, 3), Burst(1, 2)>>, <<Burst(1, 2), Burst(2, 3)>>,
   <<Burst(1, 1), Command(2), Burst(1, 1)>>, <<Command(1), Command(2), Command(1)>>}

\* No two transfers share an ack_id.
DistinctIds ==
  {<<Burst(1, 2), Burst(2, 2)>>, <<Burst(1, 2), Command(2)>>,
   <<Command(1), Burst(2, 2)>>}

OneBurst == {<<Burst(1, 2)>>}
ZeroId == {<<Burst(0, 1)>>}
ZeroCommand == {<<Burst(1, 1), Command(0)>>}
SameIdTwice == {<<Burst(1, 2), Burst(1, 2)>>}
RepeatedCommand == {<<Command(1), Command(1)>>}
Unframed == {<<[framed |-> FALSE, ack_id |-> 1, n |-> 2]>>}
TooLong == {<<Burst(1, UINT8_MAX)>>}
=============================================================================
