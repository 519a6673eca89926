----------------------------- MODULE PacketHeap -----------------------------
(***************************************************************************)
(* Who owns the packets (src/packet.c and its callers).  A packet is a     *)
(* struct that points to a payload buffer; the receive loop parses every   *)
(* frame into the same struct, the handler keeps copies, the sender frees  *)
(* a struct as soon as its packet is acknowledged.  The other modules      *)
(* treat packets as values: this one shows why they may.                   *)
(*                                                                         *)
(* A node may send a burst (send_burst), once, before it starts to receive *)
(* (start_rx_loop).  Which packets the handler takes is the subject of     *)
(* module RxPacketHandler: it may take any here.  Allocations succeed; a   *)
(* block is never given out twice, so that a pointer to a freed one stays  *)
(* recognisable.                                                           *)
(***************************************************************************)
EXTENDS Naturals, Sequences

CONSTANTS
  MaxPackets,    \* packets received
  MaxFragments,  \* fragments of the burst sent
  timeout_n,     \* attempts per packet
  MaxLoops,      \* times the receive loop is started
  RetryBurst     \* the application sends a failed burst again

ASSUME BoundsAssumption == {MaxPackets, MaxFragments, timeout_n, MaxLoops} \subseteq Nat
ASSUME RetryAssumption == RetryBurst \in BOOLEAN

NULL == 0

VARIABLES
  heap,          \* the blocks allocated so far; a pointer is an index
  misused,       \* a freed block has been used or freed
  pc,            \* the thread's place
  loops,         \* times the loop has been started
  rx_p,          \* the struct frames are parsed into
  received,      \* packets parsed into it so far; packet k has content k
  capture,       \* a capture is running
  captured,      \* captured_packet_arr up to captured_n
  contents,      \* what those packets held when they were captured
  commands,      \* packets the command call-back has been given and still has
  p_buf,         \* the sender's packets
  next,          \* the next of them to be acknowledged
  attempt

loopVars == <<loops, received, capture, captured, contents, commands>>
sendVars == <<p_buf, next, attempt>>
vars == <<heap, misused, pc, rx_p, loopVars, sendVars>>

-----------------------------------------------------------------------------
(* Memory, as functions from one to the next.                              *)

Memory(h, m) == [heap |-> h, misused |-> m]
Now == Memory(heap, misused)

\* A new block is the last one of the heap.
malloc(s, content, payload) ==
  Memory(Append(s.heap, [live |-> TRUE, content |-> content, payload |-> payload]), s.misused)
New(s) == Len(s.heap)

Use(s, p) == Memory(s.heap, s.misused \/ ~s.heap[p].live)
free(s, p) == Memory([s.heap EXCEPT ![p].live = FALSE], Use(s, p).misused)

payload(s, p) == s.heap[p].payload
UsePacket(s, p) ==
  IF payload(s, p) = NULL THEN Use(s, p) ELSE Use(Use(s, p), payload(s, p))

free_packet(s, p) ==
  IF payload(s, p) = NULL THEN free(s, p) ELSE free(free(s, payload(s, p)), p)

\* The old payload of p is not freed; an empty packet has none.
parse_packet(s, p, k, empty) ==
  LET buffer == IF empty THEN s ELSE malloc(s, k, NULL)
      there == Use(buffer, p)
  IN Memory([there.heap EXCEPT ![p].content = k,
                               ![p].payload = IF empty THEN NULL ELSE New(buffer)],
            there.misused)

\* The copy is the last block, its payload the one before.
copy_packet(s, p) ==
  LET buffer == malloc(UsePacket(s, p), s.heap[payload(s, p)].content, NULL)
  IN malloc(buffer, s.heap[p].content, New(buffer))

Becomes(s) == heap' = s.heap /\ misused' = s.misused

\* A function of memory applied to each of the packets ps, first to last.
All(F(_, _), s, ps) ==
  LET step[i \in 0..Len(ps)] == IF i = 0 THEN s ELSE F(step[i - 1], ps[i])
  IN step[Len(ps)]

-----------------------------------------------------------------------------
(* start_rx_loop.                                                          *)

\* The application starts the loop, again if it has returned: the handler's
\* context is the same, and a capture goes on.
StartLoop ==
  /\ pc = "idle"
  /\ loops < MaxLoops
  /\ loops' = loops + 1
  /\ LET s == malloc(Now, 0, NULL) IN Becomes(s) /\ rx_p' = New(s)
  /\ pc' = "listen"
  /\ UNCHANGED <<received, capture, captured, contents, commands, sendVars>>

\* One iteration up to the handler: the frame is parsed, its acknowledgement
\* built, sent and forgotten.
ReceiveAndAck(empty) ==
  LET acked == malloc(parse_packet(Now, rx_p, received + 1, empty), received + 1, NULL)
  IN UsePacket(acked, New(acked))

Receives ==
  /\ pc = "listen"
  /\ received < MaxPackets
  /\ received' = received + 1
  /\ UNCHANGED <<pc, loops, rx_p, sendVars>>

\* All that the handler turns away.
ReceiveOther ==
  /\ Receives
  /\ \E empty \in BOOLEAN: Becomes(ReceiveAndAck(empty))
  /\ UNCHANGED <<capture, captured, contents, commands>>

ReceiveBegin ==
  /\ Receives
  /\ ~capture
  /\ Becomes(ReceiveAndAck(TRUE))
  /\ capture' = TRUE
  /\ UNCHANGED <<captured, contents, commands>>

\* (Mutant of ReceiveFragment: the handler keeps rx_p itself, as "rx_p ownership
\* transferred to callee" suggests.)
KeepPacket ==
  /\ Receives
  /\ capture
  /\ Becomes(ReceiveAndAck(FALSE))
  /\ captured' = Append(captured, rx_p)
  /\ contents' = Append(contents, received + 1)
  /\ UNCHANGED <<capture, commands>>

ReceiveFragment ==
  /\ Receives
  /\ capture
  /\ LET copied == copy_packet(ReceiveAndAck(FALSE), rx_p)
     IN Becomes(copied) /\ captured' = Append(captured, New(copied))
  /\ contents' = Append(contents, received + 1)
  /\ UNCHANGED <<capture, commands>>

ReceiveCommand ==
  /\ Receives
  /\ LET copied == copy_packet(ReceiveAndAck(FALSE), rx_p)
     IN Becomes(copied) /\ commands' = commands \cup {New(copied)}
  /\ UNCHANGED <<capture, captured, contents>>

\* END: the application reads the burst in the call-back, as packet_array_to_data
\* does, and may free its packets; the handler forgets them.
ReceiveEnd ==
  /\ Receives
  /\ capture
  /\ LET read == All(UsePacket, ReceiveAndAck(TRUE), captured)
     IN Becomes(read) \/ Becomes(All(free_packet, read, captured))
  /\ capture' = FALSE
  /\ captured' = <<>>
  /\ contents' = <<>>
  /\ UNCHANGED commands

\* The application is done with a command, at any time.
FreeCommand ==
  /\ \E p \in commands:
       /\ Becomes(free_packet(UsePacket(Now, p), p))
       /\ commands' = commands \ {p}
  /\ UNCHANGED <<pc, loops, rx_p, received, capture, captured, contents, sendVars>>

\* An access fails: rx_p and the last payload are freed, and the loop returns.
LoopReturns ==
  /\ pc = "listen"
  /\ Becomes(free_packet(Now, rx_p))
  /\ rx_p' = NULL
  /\ pc' = "idle"
  /\ UNCHANGED <<loopVars, sendVars>>

-----------------------------------------------------------------------------
(* data_to_packet_array and send_burst.                                    *)

\* n fragments with their payloads between BEGIN and END, which have none.
Build ==
  /\ pc = "idle"
  /\ p_buf = <<>>
  /\ loops = 0
  /\ \E n \in 1..MaxFragments:
       LET Fragment(s, k) == LET buffer == malloc(s, k, NULL) IN malloc(buffer, k, New(buffer))
           Empty(s, k) == malloc(s, k, NULL)
           fragments == All(Fragment, Now, [k \in 1..n |-> k])
           framed == Empty(Empty(fragments, 0), n + 1)
           structs == [k \in 1..n |-> New(Now) + 2 * k]
       IN /\ Becomes(framed)
          /\ p_buf' = <<New(framed) - 1>> \o structs \o <<New(framed)>>
  /\ pc' = "send"
  /\ UNCHANGED <<rx_p, loopVars, next, attempt>>

\* send_packet_ensure_ack starts with a struct of its own for the answers.
EnsureAck ==
  /\ pc = "send"
  /\ LET s == malloc(Now, 0, NULL) IN Becomes(s) /\ rx_p' = New(s)
  /\ attempt' = 1
  /\ pc' = "attempt"
  /\ UNCHANGED <<loopVars, p_buf, next>>

AnotherAttempt == attempt < timeout_n

\* One attempt: the packet is described and sent, and what is heard is parsed
\* into rx_p, other nodes' data included.
Attempt ==
  /\ pc = "attempt"
  /\ LET sent == UsePacket(Now, p_buf[next])
     IN \/ Becomes(sent)
        \/ \E empty \in BOOLEAN: Becomes(parse_packet(sent, rx_p, 0, empty))
  /\ \/ AnotherAttempt /\ attempt' = attempt + 1 /\ UNCHANGED pc
     \/ pc' \in {"acked", "given_up"} /\ UNCHANGED attempt
  /\ UNCHANGED <<rx_p, loopVars, p_buf, next>>

\* (Mutant of Acknowledged: the next packet is freed.)
FreeNext ==
  /\ pc = "acked"
  /\ Becomes(free(free_packet(Now, rx_p), p_buf[IF next = Len(p_buf) THEN next ELSE next + 1]))
  /\ rx_p' = NULL
  /\ IF next = Len(p_buf) THEN pc' = "idle" /\ UNCHANGED next
                          ELSE pc' = "send" /\ next' = next + 1
  /\ UNCHANGED <<loopVars, p_buf, attempt>>

\* The struct goes with its acknowledgement, its payload stays.
Acknowledged ==
  /\ pc = "acked"
  /\ Becomes(free(free_packet(Now, rx_p), p_buf[next]))
  /\ rx_p' = NULL
  /\ IF next = Len(p_buf) THEN pc' = "idle" /\ UNCHANGED next
                          ELSE pc' = "send" /\ next' = next + 1
  /\ UNCHANGED <<loopVars, p_buf, attempt>>

\* The burst is over; its array holds freed packets up to this one.
GivenUp ==
  /\ pc = "given_up"
  /\ Becomes(free_packet(Now, rx_p))
  /\ rx_p' = NULL
  /\ \/ pc' = "idle" /\ UNCHANGED next
     \/ RetryBurst /\ pc' = "send" /\ next' = 1
  /\ UNCHANGED <<loopVars, p_buf, attempt>>

-----------------------------------------------------------------------------
Init ==
  /\ heap = <<>> /\ misused = FALSE
  /\ pc = "idle" /\ rx_p = NULL
  /\ loops = 0 /\ received = 0
  /\ capture = FALSE /\ captured = <<>> /\ contents = <<>>
  /\ commands = {}
  /\ p_buf = <<>> /\ next = 1 /\ attempt = 1

Next ==
  \/ StartLoop
  \/ ReceiveOther \/ ReceiveBegin \/ ReceiveFragment \/ ReceiveCommand \/ ReceiveEnd
  \/ FreeCommand
  \/ LoopReturns
  \/ Build \/ EnsureAck \/ Attempt \/ Acknowledged \/ GivenUp

Spec == Init /\ [][Next]_vars

-----------------------------------------------------------------------------
\* No packet or payload is used or freed after it has been freed, whoever frees
\* it: the loop, the sender, or the application what it has been given.
NoMisuse == ~misused

\* A captured packet keeps its addresses and its data while later frames are
\* parsed into the same struct: packets behave as the values that the handler's
\* callers take them for.
CapturedKeepContents ==
  \A i \in DOMAIN captured:
    LET p == captured[i]
    IN /\ heap[p].live /\ heap[p].content = contents[i]
       /\ heap[heap[p].payload].live /\ heap[heap[p].payload].content = contents[i]
=============================================================================
