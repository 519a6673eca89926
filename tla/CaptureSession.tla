--------------------------- MODULE CaptureSession ---------------------------
(***************************************************************************)
(* What the packet handler promises its application, without saying how    *)
(* packets are filtered: fragments are collected one session at a time, a  *)
(* session only grows, by the fragment that follows the last one and       *)
(* carries the session's id, and the application gets exactly the          *)
(* fragments collected, once, when the session is closed.                  *)
(***************************************************************************)
EXTENDS Naturals, Sequences

CONSTANTS
  Items,         \* packets that carry data
  Ids,           \* session ids
  Capacity       \* most fragments a session holds

VARIABLES
  open,          \* a session is being collected
  session_id,    \* its id
  items,         \* its fragments so far
  upcall         \* the call-back made by the last step

vars == <<open, session_id, items, upcall>>

NoUpcall == [kind |-> "none", items |-> <<>>]
CommandUpcall(p) == [kind |-> "command", items |-> <<p>>]
EndUpcall(s) == [kind |-> "end", items |-> s]

Init ==
  /\ open = FALSE
  /\ session_id = 0
  /\ items = <<>>
  /\ upcall = NoUpcall

Open(id) ==
  /\ ~open
  /\ open' = TRUE
  /\ session_id' = id
  /\ items' = <<>>
  /\ upcall' = NoUpcall

Take(p) ==
  /\ open
  /\ Len(items) < Capacity
  /\ p.ack_id = session_id
  /\ p.sequence_number = Len(items) + 1
  /\ items' = Append(items, p)
  /\ upcall' = NoUpcall
  /\ UNCHANGED <<open, session_id>>

\* A packet outside the session is a command of its own.
Command(p) ==
  /\ ~open \/ p.ack_id # session_id
  /\ upcall' = CommandUpcall(p)
  /\ UNCHANGED <<open, session_id, items>>

Finish ==
  /\ open' = FALSE
  /\ session_id' = 0
  /\ items' = <<>>

Close == open /\ upcall' = EndUpcall(items) /\ Finish

\* The application resets or re-initialises the handler.
Abandon == upcall' = NoUpcall /\ Finish

Ignore == upcall' = NoUpcall /\ UNCHANGED <<open, session_id, items>>

Next ==
  \/ Ignore
  \/ Abandon
  \/ Close
  \/ \E id \in Ids: Open(id)
  \/ \E p \in Items: Take(p) \/ Command(p)

Spec == Init /\ [][Next]_vars
=============================================================================
