-------------------------- MODULE PacketHeap_proofs --------------------------
(***************************************************************************)
(* Why no packet is used after it has been freed, and why the captured     *)
(* ones keep what they held: at every moment each packet struct in use has *)
(* one owner, and each payload one struct.                                 *)
(*                                                                         *)
(* The lemmas are about the memory operations: what each of them does to a *)
(* memory in which the structs of a set S are sound.  The invariant says   *)
(* that the structs somebody still has are such a set.                     *)
(***************************************************************************)
EXTENDS PacketHeap, FiniteSets, TLAPS, WellFoundedInduction

Blocks == [live: BOOLEAN, content: Nat, payload: Nat]
Memories == [heap: Seq(Blocks), misused: BOOLEAN]

Live(s, p) == p \in DOMAIN s.heap /\ s.heap[p].live

\* Nothing has gone wrong, and the structs S are live, each with a payload of its
\* own or with none.
Sound(s, S) ==
  /\ s \in Memories
  /\ ~s.misused
  /\ \A p \in S:
       /\ Live(s, p)
       /\ payload(s, p) # NULL => Live(s, payload(s, p)) /\ payload(s, p) \notin S
  /\ \A p, q \in S: payload(s, p) = payload(s, q) /\ payload(s, p) # NULL => p = q

\* From s to t the structs S point to what they did, and it has the contents it had.
Kept(s, t, S) ==
  \A p \in S:
    /\ t.heap[p].content = s.heap[p].content
    /\ payload(t, p) = payload(s, p)
    /\ payload(s, p) # NULL =>
         t.heap[payload(s, p)].content = s.heap[payload(s, p)].content

\* Packet p holds what packet k held when it was received.
Holds(s, p, k) ==
  /\ s.heap[p].content = k
  /\ payload(s, p) # NULL
  /\ s.heap[payload(s, p)].content = k

Keeps(s, ps, ks) == Len(ks) = Len(ps) /\ \A i \in DOMAIN ps: Holds(s, ps[i], ks[i])

Distinct(ps) == \A i, j \in DOMAIN ps: ps[i] = ps[j] => i = j

-----------------------------------------------------------------------------
(* The invariant.                                                          *)

Sending == pc \in {"send", "attempt", "acked", "given_up"}
Parsing == pc \in {"listen", "attempt", "acked", "given_up"}

\* The structs that the handler and the application hold, those the sender has
\* not had acknowledged, and all that somebody will use again.
Captured == {captured[i] : i \in DOMAIN captured}
Pending == {p_buf[i] : i \in next..Len(p_buf)}
Structs ==
  (Captured \cup commands)
    \cup ((IF Parsing THEN {rx_p} ELSE {}) \cup (IF Sending THEN Pending ELSE {}))

Types ==
  /\ pc \in {"idle", "listen", "send", "attempt", "acked", "given_up"}
  /\ loops \in Nat /\ received \in Nat /\ attempt \in Nat
  /\ rx_p \in Nat
  /\ captured \in Seq(Nat) /\ contents \in Seq(Nat)
  /\ commands \subseteq Nat
  /\ p_buf \in Seq(Nat)
  /\ next \in Nat /\ next >= 1

Unsent == p_buf = <<>> => next = 1

\* A burst is sent before anything is received.
Phases ==
  /\ Unsent
  /\ Sending => loops = 0 /\ next <= Len(p_buf)
  /\ pc = "listen" => loops # 0
  /\ loops = 0 => captured = <<>> /\ commands = {}

\* Nobody holds a struct twice, no two the same one.
Apart ==
  /\ Distinct(captured) /\ Distinct(p_buf)
  /\ Captured \cap commands = {}
  /\ Parsing => rx_p \notin Captured \cup commands
  /\ Sending /\ Parsing => rx_p \notin Pending

\* The structs in use are sound, and the captured packets hold what was captured.
InUse == Sound(Now, Structs)
Contents == Keeps(Now, captured, contents)

Owned == Types /\ Phases /\ InUse /\ Apart /\ Contents

-----------------------------------------------------------------------------
(* Induction over the natural numbers, in terms of sets.                   *)

LEMMA LeastNumber ==
  ASSUME NEW T, T \subseteq Nat, T # {}
  PROVE  \E x \in T: \A y \in T: x <= y
<1> DEFINE R == OpToRel(<, Nat)
<1>1. IsWellFoundedOn(R, Nat)
  BY Zenon, NatLessThanWellFounded
<1>2. \A x, y \in Nat: <<y, x>> \in R <=> y < x
  BY DEF OpToRel
<1> HIDE DEF R
<1>3. PICK x \in T: \A y \in T: <<y, x>> \notin R
  BY <1>1, WFMin
<1>4. \A y \in T: x \in Nat /\ y \in Nat /\ ~(y < x)
  BY <1>2, <1>3
<1>5. \A y \in T: x <= y
  BY <1>4
<1> QED
  BY <1>5

LEMMA Induction ==
  ASSUME NEW S, 0 \in S, \A n \in Nat: n \in S => n + 1 \in S
  PROVE  Nat \subseteq S
<1> SUFFICES ASSUME Nat \ S # {} PROVE FALSE
  OBVIOUS
<1>1. PICK x \in Nat \ S: \A y \in Nat \ S: x <= y
  BY LeastNumber
<1>2. x - 1 \in Nat /\ (x - 1) + 1 = x /\ ~(x <= x - 1)
  OBVIOUS
<1>3. x - 1 \in S
  BY <1>1, <1>2
<1> QED
  BY <1>2, <1>3

-----------------------------------------------------------------------------
(* The memory operations.                                                  *)

LEMMA MemoryIs ==
  ASSUME NEW h \in Seq(Blocks), NEW m \in BOOLEAN
  PROVE  Memory(h, m) \in Memories /\ Memory(h, m).heap = h /\ Memory(h, m).misused = m
BY DEF Memory, Memories

\* Fewer structs are sound if more are.
LEMMA SoundOfFewer ==
  ASSUME NEW s, NEW S, NEW T, T \subseteq S, Sound(s, S)
  PROVE  Sound(s, T)
BY DEF Sound

LEMMA KeptOfFewer ==
  ASSUME NEW s, NEW t, NEW S, NEW T, T \subseteq S, Kept(s, t, S)
  PROVE  Kept(s, t, T)
BY DEF Kept

LEMMA KeptTransitive ==
  ASSUME NEW s, NEW t, NEW u, NEW S, Kept(s, t, S), Kept(t, u, S)
  PROVE  Kept(s, u, S)
BY DEF Kept

\* Use(s, p) of what is live changes nothing.
LEMMA UseLive ==
  ASSUME NEW s \in Memories, NEW p, Live(s, p)
  PROVE  Use(s, p) = s
<1>1. s = [heap |-> s.heap, misused |-> s.misused] /\ s.misused \in BOOLEAN
  BY DEF Memories
<1>2. s.misused \/ ~s.heap[p].live <=> s.misused
  BY DEF Live
<1>3. (s.misused \/ ~s.heap[p].live) = s.misused
  BY <1>1, <1>2
<1> QED
  BY <1>1, <1>3 DEF Use, Memory

\* Reading a sound packet changes nothing.
LEMMA UseSound ==
  ASSUME NEW s, NEW S, Sound(s, S), NEW p \in S
  PROVE  UsePacket(s, p) = s
<1>1. s \in Memories /\ Live(s, p) /\ (payload(s, p) # NULL => Live(s, payload(s, p)))
  BY DEF Sound
<1>2. Use(s, p) = s
  BY <1>1, UseLive
<1>3. payload(s, p) # NULL => Use(s, payload(s, p)) = s
  BY <1>1, UseLive
<1> QED
  BY <1>2, <1>3 DEF UsePacket

\* A new block is the last of the heap; the others are what they were.
Grown(s, t, b) ==
  /\ t \in Memories
  /\ t.misused = s.misused
  /\ Len(t.heap) = Len(s.heap) + 1
  /\ New(t) = Len(s.heap) + 1
  /\ New(t) \in DOMAIN t.heap /\ New(t) \notin DOMAIN s.heap /\ New(t) # NULL
  /\ DOMAIN s.heap \subseteq DOMAIN t.heap
  /\ \A p \in DOMAIN s.heap: t.heap[p] = s.heap[p]
  /\ t.heap[New(t)] = b
  /\ b.live

LEMMA MallocGrows ==
  ASSUME NEW s \in Memories, NEW c \in Nat, NEW b \in Nat
  PROVE  Grown(s, malloc(s, c, b), [live |-> TRUE, content |-> c, payload |-> b])
<1> DEFINE block == [live |-> TRUE, content |-> c, payload |-> b]
           h == s.heap
           g == Append(h, block)
<1>1. h \in Seq(Blocks) /\ s.misused \in BOOLEAN
  BY DEF Memories
<1>2. block \in Blocks
  BY DEF Blocks
<1>3. /\ g \in Seq(Blocks)
      /\ Len(g) = Len(h) + 1 /\ Len(h) \in Nat
      /\ DOMAIN h = 1..Len(h) /\ DOMAIN g = 1..(Len(h) + 1)
      /\ \A p \in 1..Len(h): g[p] = h[p]
      /\ g[Len(h) + 1] = block
  BY <1>1, <1>2
<1>4. malloc(s, c, b) = Memory(g, s.misused)
  BY DEF malloc
<1>6. block.live
  OBVIOUS
<1> HIDE DEF g, block
<1>5. malloc(s, c, b) \in Memories /\ malloc(s, c, b).heap = g /\ malloc(s, c, b).misused = s.misused
  BY <1>1, <1>3, <1>4, MemoryIs
<1>7. Len(h) + 1 \in DOMAIN g /\ Len(h) + 1 \notin DOMAIN h /\ Len(h) + 1 # NULL /\ DOMAIN h \subseteq DOMAIN g
  BY <1>3 DEF NULL
<1> QED
  BY <1>3, <1>5, <1>6, <1>7 DEF Grown, New, block

\* Sound structs are blocks of the heap, and so are their payloads; NULL is none.
LEMMA SoundTypes ==
  ASSUME NEW s, NEW S, Sound(s, S)
  PROVE  /\ DOMAIN s.heap = 1..Len(s.heap) /\ Len(s.heap) \in Nat /\ s.misused \in BOOLEAN
         /\ NULL \notin S
         /\ \A p \in DOMAIN s.heap: s.heap[p] \in Blocks
         /\ \A p \in S: p \in DOMAIN s.heap /\ p \in Nat /\ payload(s, p) \in Nat
         /\ \A p \in S: payload(s, p) # NULL => payload(s, p) \in DOMAIN s.heap
<1>1. s.heap \in Seq(Blocks) /\ s.misused \in BOOLEAN
  BY DEF Sound, Memories
<1>2. DOMAIN s.heap = 1..Len(s.heap) /\ Len(s.heap) \in Nat /\ \A p \in DOMAIN s.heap: s.heap[p] \in Blocks
  BY <1>1
<1>3. \A p \in S: p \in DOMAIN s.heap /\ (payload(s, p) # NULL => payload(s, p) \in DOMAIN s.heap)
  BY DEF Sound, Live
<1>4. \A p \in S: s.heap[p].payload \in Nat
  BY <1>2, <1>3 DEF Blocks
<1> QED
  BY <1>1, <1>2, <1>3, <1>4 DEF NULL, payload

\* A new block that no struct points to leaves the sound structs as they are.
LEMMA BufferSound ==
  ASSUME NEW s, NEW S, Sound(s, S), NEW c \in Nat
  PROVE  /\ Grown(s, malloc(s, c, NULL), [live |-> TRUE, content |-> c, payload |-> NULL])
         /\ Sound(malloc(s, c, NULL), S) /\ Kept(s, malloc(s, c, NULL), S)
         /\ Sound(malloc(s, c, NULL), S \cup {New(malloc(s, c, NULL))})
<1> DEFINE block == [live |-> TRUE, content |-> c, payload |-> NULL]
<1>0. block.payload = NULL
  OBVIOUS
<1> PICK t: t = malloc(s, c, NULL)
  OBVIOUS
<1>1. Grown(s, t, block)
  <2>1. s \in Memories /\ NULL \in Nat
    BY DEF Sound, NULL
  <2> QED
    BY <2>1, MallocGrows
<1> HIDE DEF block
<1>2. /\ \A p \in S: p \in DOMAIN s.heap /\ payload(s, p) \in Nat
      /\ \A p \in S: payload(s, p) # NULL => payload(s, p) \in DOMAIN s.heap
  BY SoundTypes
<1>3. \A p \in S: t.heap[p] = s.heap[p] /\ payload(t, p) = payload(s, p)
  BY <1>1, <1>2 DEF Grown, payload
<1>4. \A p \in S: payload(s, p) # NULL => t.heap[payload(s, p)] = s.heap[payload(s, p)]
  BY <1>1, <1>2 DEF Grown
<1>5. payload(t, New(t)) = NULL
  BY <1>0, <1>1 DEF Grown, payload
<1>6. Kept(s, t, S)
  BY <1>3, <1>4 DEF Kept
<1>7. Live(t, New(t))
  BY <1>1 DEF Grown, Live
<1>8. \A p \in S: Live(t, p) /\ (payload(t, p) # NULL => Live(t, payload(t, p)) /\ payload(t, p) \notin S /\ payload(t, p) # New(t))
  BY <1>1, <1>2, <1>3, <1>4 DEF Grown, Sound, Live
<1>9. \A p, q \in S: payload(t, p) = payload(t, q) /\ payload(t, p) # NULL => p = q
  BY <1>3 DEF Sound
<1>10. t \in Memories /\ ~t.misused
  BY <1>1 DEF Grown, Sound
<1>11. Sound(t, S \cup {New(t)})
  BY <1>5, <1>7, <1>8, <1>9, <1>10 DEF Sound
<1>12. Sound(t, S)
  BY <1>11, SoundOfFewer
<1> QED
  BY <1>1, <1>6, <1>11, <1>12 DEF block

\* A struct made to point to a buffer of its own joins the sound ones.
LEMMA StructSound ==
  ASSUME NEW s, NEW S, Sound(s, S), NEW c \in Nat, NEW b \in Nat,
         Live(s, b), b # NULL, b \notin S, \A p \in S: payload(s, p) # b
  PROVE  /\ Grown(s, malloc(s, c, b), [live |-> TRUE, content |-> c, payload |-> b])
         /\ Kept(s, malloc(s, c, b), S)
         /\ Sound(malloc(s, c, b), S \cup {New(malloc(s, c, b))})
<1> DEFINE block == [live |-> TRUE, content |-> c, payload |-> b]
<1>0. block.payload = b
  OBVIOUS
<1> PICK t: t = malloc(s, c, b)
  OBVIOUS
<1>1. Grown(s, t, block)
  <2>1. s \in Memories
    BY DEF Sound
  <2> QED
    BY <2>1, MallocGrows
<1> HIDE DEF block
<1>2. /\ \A p \in S: p \in DOMAIN s.heap /\ payload(s, p) \in Nat
      /\ \A p \in S: payload(s, p) # NULL => payload(s, p) \in DOMAIN s.heap
  BY SoundTypes
<1>3. \A p \in S: t.heap[p] = s.heap[p] /\ payload(t, p) = payload(s, p)
  BY <1>1, <1>2 DEF Grown, payload
<1>4. \A p \in S: payload(s, p) # NULL => t.heap[payload(s, p)] = s.heap[payload(s, p)]
  BY <1>1, <1>2 DEF Grown
<1>5. payload(t, New(t)) = b /\ b # New(t)
  BY <1>0, <1>1 DEF Grown, payload, Live
<1>6. Kept(s, t, S)
  BY <1>3, <1>4 DEF Kept
<1>7. Live(t, New(t)) /\ Live(t, b)
  BY <1>1 DEF Grown, Live
<1>8. \A p \in S: Live(t, p) /\ (payload(t, p) # NULL => Live(t, payload(t, p)) /\ payload(t, p) \notin S /\ payload(t, p) # New(t))
  BY <1>1, <1>2, <1>3, <1>4 DEF Grown, Sound, Live
<1>9. \A p, q \in S: payload(t, p) = payload(t, q) /\ payload(t, p) # NULL => p = q
  BY <1>3 DEF Sound
<1>10. t \in Memories /\ ~t.misused
  BY <1>1 DEF Grown, Sound
<1>11. \A p \in S: payload(t, p) # payload(t, New(t))
  BY <1>3, <1>5
<1>12. Sound(t, S \cup {New(t)})
  BY <1>5, <1>7, <1>8, <1>9, <1>10, <1>11 DEF Sound
<1> QED
  BY <1>1, <1>6, <1>12 DEF block

\* Freeing a live block that no struct of T is or points to leaves T as it is.
LEMMA FreeSound ==
  ASSUME NEW s, NEW T, Sound(s, T), NEW b, Live(s, b), b \notin T,
         \A p \in T: payload(s, p) # b
  PROVE  /\ Sound(free(s, b), T) /\ Kept(s, free(s, b), T)
         /\ \A p \in DOMAIN s.heap: p # b => free(s, b).heap[p] = s.heap[p]
         /\ DOMAIN free(s, b).heap = DOMAIN s.heap
<1> DEFINE g == [s.heap EXCEPT ![b].live = FALSE]
<1>1. s \in Memories /\ s.heap \in Seq(Blocks) /\ ~s.misused /\ s.misused \in BOOLEAN
  BY DEF Sound, Memories
<1>2. DOMAIN s.heap = 1..Len(s.heap) /\ Len(s.heap) \in Nat /\ s.heap \in [1..Len(s.heap) -> Blocks]
  BY <1>1
<1>3. [s.heap[b] EXCEPT !.live = FALSE] \in Blocks
  BY <1>2 DEF Live, Blocks
<1>4. /\ g \in [1..Len(s.heap) -> Blocks]
      /\ \A p \in DOMAIN s.heap: p # b => g[p] = s.heap[p]
  BY <1>2, <1>3 DEF Live
<1> HIDE DEF g
<1>5. g \in Seq(Blocks) /\ DOMAIN g = DOMAIN s.heap
  BY <1>2, <1>4
<1>6. Use(s, b) = s
  BY <1>1, UseLive
<1> PICK t: t = free(s, b)
  OBVIOUS
<1>7. t = Memory(g, s.misused)
  BY <1>6 DEF free, g
<1>8. t \in Memories /\ t.heap = g /\ t.misused = s.misused
  BY <1>1, <1>5, <1>7, MemoryIs
<1>9. /\ \A p \in T: p \in DOMAIN s.heap
      /\ \A p \in T: payload(s, p) # NULL => payload(s, p) \in DOMAIN s.heap
  BY SoundTypes
<1>10. \A p \in T: t.heap[p] = s.heap[p] /\ payload(t, p) = payload(s, p)
  BY <1>4, <1>8, <1>9 DEF payload
<1>11. \A p \in T: payload(s, p) # NULL => t.heap[payload(s, p)] = s.heap[payload(s, p)]
  BY <1>4, <1>8, <1>9
<1>12. Kept(s, t, T)
  BY <1>10, <1>11 DEF Kept
<1>13. \A p \in T: Live(t, p) /\ (payload(t, p) # NULL => Live(t, payload(t, p)) /\ payload(t, p) \notin T)
  BY <1>5, <1>8, <1>10, <1>11 DEF Sound, Live
<1>14. Sound(t, T)
  BY <1>1, <1>8, <1>10, <1>13 DEF Sound
<1> QED
  BY <1>4, <1>5, <1>8, <1>12, <1>14

\* A packet freed with its payload takes nothing from the others.
LEMMA FreePacketSound ==
  ASSUME NEW s, NEW S, Sound(s, S), NEW p \in S
  PROVE  /\ Sound(free_packet(s, p), S \ {p})
         /\ Kept(s, free_packet(s, p), S \ {p})
<1> DEFINE T == S \ {p}
           b == payload(s, p)
<1>1. Sound(s, T)
  BY SoundOfFewer
<1>2. Live(s, p) /\ p \notin T /\ \A q \in T: payload(s, q) # p
  <2>1. \A q \in S: payload(s, q) # NULL => payload(s, q) \notin S
    BY DEF Sound
  <2>2. NULL \notin S
    BY SoundTypes
  <2> QED
    BY <2>1, <2>2 DEF Sound
<1>3. CASE b = NULL
  <2>1. free_packet(s, p) = free(s, p)
    BY <1>3 DEF free_packet
  <2> HIDE DEF T
  <2>2. Sound(free(s, p), T) /\ Kept(s, free(s, p), T)
    BY <1>1, <1>2, FreeSound
  <2> QED
    BY <2>1, <2>2 DEF T
<1>4. CASE b # NULL
  <2>1. Live(s, b) /\ b \notin T /\ b # p /\ \A q \in T: payload(s, q) # b
    BY <1>4 DEF Sound
  <2> HIDE DEF T
  <2> PICK t: t = free(s, b)
    OBVIOUS
  <2> DEFINE Frees(u) == /\ Sound(u, T) /\ Kept(s, u, T)
                         /\ \A q \in DOMAIN s.heap: q # b => u.heap[q] = s.heap[q]
                         /\ DOMAIN u.heap = DOMAIN s.heap
  <2>2. Frees(t)
    BY <1>1, <2>1, FreeSound
  <2>3. Live(t, p)
    BY <1>2, <2>1, <2>2 DEF Live
  <2>4. \A q \in T: payload(t, q) # p
    BY <1>2, <2>2 DEF Kept
  <2>5. Sound(free(t, p), T) /\ Kept(t, free(t, p), T)
    BY <1>2, <2>2, <2>3, <2>4, FreeSound
  <2>6. Kept(s, free(t, p), T)
    BY <2>2, <2>5, KeptTransitive
  <2>7. free_packet(s, p) = free(t, p)
    BY <1>4 DEF free_packet
  <2> QED
    BY <2>5, <2>6, <2>7 DEF T
<1> QED
  BY <1>3, <1>4

\* Parsing into a sound struct gives it a payload of its own, or none, and leaves
\* the other structs as they are.
LEMMA ParseSound ==
  ASSUME NEW s, NEW S, Sound(s, S), NEW p \in S, NEW k \in Nat, NEW empty \in BOOLEAN
  PROVE  /\ Sound(parse_packet(s, p, k, empty), S)
         /\ Kept(s, parse_packet(s, p, k, empty), S \ {p})
         /\ parse_packet(s, p, k, empty).heap[p].content = k
         /\ ~empty => /\ payload(parse_packet(s, p, k, empty), p) # NULL
                      /\ LET t == parse_packet(s, p, k, empty) IN t.heap[payload(t, p)].content = k
<1>20. PICK u: u = IF empty THEN s ELSE malloc(s, k, NULL)
  OBVIOUS
<1>21. PICK b: b = IF empty THEN NULL ELSE New(u)
  OBVIOUS
<1>22. PICK g: g = [u.heap EXCEPT ![p].content = k, ![p].payload = b]
  OBVIOUS
<1>23. PICK t: t = parse_packet(s, p, k, empty)
  OBVIOUS
<1> DEFINE Buffer(x) ==
      /\ Sound(x, S) /\ Kept(s, x, S)
      /\ b \in Nat
      /\ b # NULL => Live(x, b) /\ b \notin DOMAIN s.heap /\ x.heap[b].content = k
      /\ DOMAIN s.heap \subseteq DOMAIN x.heap
      /\ \A q \in DOMAIN s.heap: x.heap[q] = s.heap[q]
<1>1. Buffer(u)
  <2>1. CASE empty
    <3>1. u = s /\ b = NULL
      BY <1>20, <1>21, <2>1
    <3> QED
      BY <3>1 DEF NULL, Kept
  <2>2. CASE ~empty
    <3> PICK x: x = malloc(s, k, NULL)
      OBVIOUS
    <3>1. u = x /\ b = New(x)
      BY <1>20, <1>21, <2>2
    <3>2. Grown(s, x, [live |-> TRUE, content |-> k, payload |-> NULL]) /\ Sound(x, S) /\ Kept(s, x, S)
      BY BufferSound
    <3>3. Live(x, b) /\ b \notin DOMAIN s.heap /\ x.heap[b].content = k /\ DOMAIN s.heap \subseteq DOMAIN x.heap
      BY <3>1, <3>2 DEF Grown, Live
    <3>4. \A q \in DOMAIN s.heap: x.heap[q] = s.heap[q]
      BY <3>2 DEF Grown
    <3>5. b \in Nat
      BY <3>1, <3>2, SoundTypes DEF New
    <3> QED
      BY <3>1, <3>2, <3>3, <3>4, <3>5
  <2> QED
    BY <2>1, <2>2
<1>2. u \in Memories /\ u.heap \in Seq(Blocks) /\ ~u.misused /\ u.misused \in BOOLEAN /\ Live(u, p)
  BY <1>1 DEF Sound, Memories
<1>3. DOMAIN u.heap = 1..Len(u.heap) /\ Len(u.heap) \in Nat /\ u.heap \in [1..Len(u.heap) -> Blocks]
  BY <1>2
<1>4. /\ g \in [1..Len(u.heap) -> Blocks]
      /\ \A q \in DOMAIN u.heap: q # p => g[q] = u.heap[q]
      /\ g[p].content = k /\ g[p].payload = b /\ g[p].live
  <2>1. u.heap[p] \in Blocks /\ u.heap[p].live /\ p \in 1..Len(u.heap)
    BY <1>2, <1>3 DEF Live
  <2>2. PICK c: c = [u.heap[p] EXCEPT !.content = k]
    OBVIOUS
  <2>3. c \in Blocks /\ c.content = k /\ c.live
    BY <2>1, <2>2 DEF Blocks
  <2>4. PICK d: d = [c EXCEPT !.payload = b]
    OBVIOUS
  <2>5. d \in Blocks /\ d.content = k /\ d.payload = b /\ d.live
    BY <1>1, <2>3, <2>4 DEF Blocks
  <2>6. PICK h: h = [u.heap EXCEPT ![p] = c]
    OBVIOUS
  <2>7. h \in [1..Len(u.heap) -> Blocks] /\ h[p] = c /\ \A q \in DOMAIN u.heap: q # p => h[q] = u.heap[q]
    BY <1>3, <2>1, <2>3, <2>6
  <2>8. g = [h EXCEPT ![p] = d]
    BY <1>22, <2>2, <2>4, <2>6, <2>7
  <2> QED
    BY <1>3, <2>1, <2>5, <2>7, <2>8
<1>5. g \in Seq(Blocks) /\ DOMAIN g = DOMAIN u.heap
  BY <1>3, <1>4
<1>6. Use(u, p) = u
  BY <1>2, UseLive
<1>7. t = Memory(g, u.misused)
  <2>1. CASE empty
    BY <1>6, <1>20, <1>21, <1>22, <1>23, <2>1 DEF parse_packet
  <2>2. CASE ~empty
    BY <1>6, <1>20, <1>21, <1>22, <1>23, <2>2 DEF parse_packet
  <2> QED
    BY <2>1, <2>2
<1>8. t \in Memories /\ t.heap = g /\ t.misused = u.misused
  BY <1>2, <1>5, <1>7, MemoryIs
<1>9. \A q \in S: /\ q \in DOMAIN s.heap
                  /\ payload(s, q) \in Nat
                  /\ payload(s, q) # NULL => payload(s, q) \in DOMAIN s.heap
  BY SoundTypes
<1>10. \A q \in S \ {p}: /\ t.heap[q] = s.heap[q] /\ payload(t, q) = payload(s, q)
  BY <1>1, <1>4, <1>8, <1>9 DEF payload
<1>11. \A q \in S: payload(s, q) # NULL =>
         payload(s, q) # p /\ t.heap[payload(s, q)] = s.heap[payload(s, q)]
  <2>1. \A q \in S: payload(s, q) # NULL => payload(s, q) # p
    BY DEF Sound
  <2> QED
    BY <1>1, <1>4, <1>8, <1>9, <2>1
<1>12. Kept(s, t, S \ {p})
  BY <1>10, <1>11 DEF Kept
<1>13. payload(t, p) = b /\ t.heap[p].content = k /\ Live(t, p)
  BY <1>2, <1>4, <1>5, <1>8 DEF payload, Live
<1>14. b # NULL => b # p /\ t.heap[b] = u.heap[b] /\ Live(t, b) /\ b \notin S
  BY <1>1, <1>4, <1>5, <1>8, <1>9 DEF Live
<1>15. \A q \in S \ {p}: /\ Live(t, q)
                         /\ payload(t, q) # NULL => Live(t, payload(t, q)) /\ payload(t, q) \notin S
  BY <1>1, <1>5, <1>8, <1>9, <1>10, <1>11 DEF Sound, Live
<1>16. \A q, r \in S: payload(t, q) = payload(t, r) /\ payload(t, q) # NULL => q = r
  BY <1>1, <1>9, <1>10, <1>13 DEF Sound
<1>17. Sound(t, S)
  BY <1>2, <1>8, <1>13, <1>14, <1>15, <1>16 DEF Sound
<1>18. ~empty => b # NULL
  <2> SUFFICES ASSUME ~empty PROVE b # NULL
    OBVIOUS
  <2>1. Grown(s, malloc(s, k, NULL), [live |-> TRUE, content |-> k, payload |-> NULL])
    BY BufferSound
  <2>2. b = New(malloc(s, k, NULL))
    BY <1>20, <1>21
  <2> QED
    BY <2>1, <2>2 DEF Grown
<1>19. ~empty => payload(t, p) # NULL /\ t.heap[payload(t, p)].content = k
  BY <1>1, <1>13, <1>14, <1>18
<1> QED
  BY <1>12, <1>13, <1>17, <1>19, <1>23

\* t is s with a copy of a packet with contents k, the last struct of the heap.
Copies(s, t, S, k) ==
  /\ Sound(t, S \cup {New(t)}) /\ Kept(s, t, S)
  /\ New(t) \notin S
  /\ Holds(t, New(t), k)

\* The copy of a sound packet is a new sound struct with the same contents.
LEMMA CopySound ==
  ASSUME NEW s, NEW S, Sound(s, S), NEW p \in S, NEW k, Holds(s, p, k)
  PROVE  Copies(s, copy_packet(s, p), S, k)
<1> DEFINE block(b) == [live |-> TRUE, content |-> k, payload |-> b]
<1>0. \A b: block(b).content = k /\ block(b).payload = b
  OBVIOUS
<1> PICK u: u = malloc(s, k, NULL)
  OBVIOUS
<1> PICK t: t = malloc(u, k, New(u))
  OBVIOUS
<1>1. k \in Nat
  <2>1. p \in DOMAIN s.heap /\ s.heap[p] \in Blocks
    BY SoundTypes
  <2> QED
    BY <2>1 DEF Blocks, Holds
<1>2. copy_packet(s, p) = t
  BY UseSound DEF copy_packet, Holds
<1>3. Grown(s, u, block(NULL)) /\ Sound(u, S) /\ Kept(s, u, S) /\ Sound(u, S \cup {New(u)})
  BY <1>1, BufferSound
<1> HIDE DEF block
<1>4. \A q \in S: q \in DOMAIN s.heap /\ payload(s, q) \in Nat /\ (payload(s, q) # NULL => payload(s, q) \in DOMAIN s.heap)
  BY SoundTypes
<1>5. Live(u, New(u)) /\ New(u) # NULL /\ New(u) \notin S /\ New(u) \in Nat
  <2>1. New(u) \in Nat
    BY <1>3, SoundTypes DEF New
  <2> QED
    BY <1>3, <1>4, <2>1 DEF Grown, Live
<1>6. \A q \in S: payload(u, q) # New(u)
  BY <1>3, <1>4 DEF Kept, Grown
<1>7. Grown(u, t, block(New(u))) /\ Kept(u, t, S) /\ Sound(t, S \cup {New(t)})
  BY <1>1, <1>3, <1>5, <1>6, StructSound DEF block
<1>8. Kept(s, t, S)
  BY <1>3, <1>7, KeptTransitive
<1>9. New(t) \notin S
  BY <1>3, <1>4, <1>7 DEF Grown
<1>10. t.heap[New(t)].content = k /\ payload(t, New(t)) = New(u)
  BY <1>0, <1>7 DEF Grown, payload
<1>11. t.heap[New(u)] = u.heap[New(u)] /\ u.heap[New(u)].content = k
  BY <1>0, <1>3, <1>7 DEF Grown
<1> QED
  BY <1>2, <1>5, <1>7, <1>8, <1>9, <1>10, <1>11 DEF Copies, Holds

-----------------------------------------------------------------------------
(* Operations on each of a sequence of packets.                            *)

\* f applies free_packet to the first n of ps.
Frees(n, f, s, ps) ==
  f = [i \in 0..n |-> IF i = 0 THEN s ELSE free_packet(f[i - 1], ps[i])]

LEMMA FreesExists ==
  ASSUME NEW s, NEW ps, NEW n \in Nat
  PROVE  \E f: Frees(n, f, s, ps)
<1> DEFINE T == {m \in Nat: \E f: Frees(m, f, s, ps)}
<1>1. 0 \in T
  <2>1. PICK f: f = [i \in 0..0 |-> s]
    OBVIOUS
  <2>2. f = [i \in 0..0 |-> IF i = 0 THEN s ELSE free_packet(f[i - 1], ps[i])]
    BY <2>1
  <2> QED
    BY <2>2 DEF Frees
<1>2. \A m \in Nat: m \in T => m + 1 \in T
  <2> SUFFICES ASSUME NEW m \in Nat, NEW f, Frees(m, f, s, ps)
               PROVE  \E g: Frees(m + 1, g, s, ps)
    OBVIOUS
  <2>1. PICK g: g = [i \in 0..(m + 1) |-> IF i = m + 1 THEN free_packet(f[m], ps[m + 1]) ELSE f[i]]
    OBVIOUS
  <2>2. \A i \in 0..m: f[i] = IF i = 0 THEN s ELSE free_packet(f[i - 1], ps[i])
    BY DEF Frees
  <2>3. \A i \in 0..m: g[i] = f[i]
    BY <2>1
  <2>4. \A i \in 0..(m + 1): g[i] = IF i = 0 THEN s ELSE free_packet(g[i - 1], ps[i])
    <3> TAKE i \in 0..(m + 1)
    <3>1. CASE i = m + 1
      <4>1. i # 0 /\ i - 1 = m /\ m \in 0..m /\ g[i] = free_packet(f[m], ps[i])
        BY <2>1, <3>1
      <4> QED
        BY <2>3, <4>1
    <3>2. CASE i \in 0..m /\ i # 0
      <4>1. i - 1 \in 0..m
        BY <3>2
      <4> QED
        BY <2>2, <2>3, <3>2, <4>1
    <3>3. CASE i = 0
      BY <2>2, <2>3, <3>3
    <3> QED
      BY <3>1, <3>2, <3>3
  <2>5. g = [i \in 0..(m + 1) |-> g[i]]
    BY <2>1
  <2>6. g = [i \in 0..(m + 1) |-> IF i = 0 THEN s ELSE free_packet(g[i - 1], ps[i])]
    BY <2>4, <2>5
  <2> QED
    BY <2>6 DEF Frees
<1> HIDE DEF T
<1>3. Nat \subseteq T
  BY <1>1, <1>2, Induction
<1> QED
  BY <1>3 DEF T

\* Freeing each of several packets leaves the others sound, with what they held.
LEMMA FreeAll ==
  ASSUME NEW s, NEW S, Sound(s, S), NEW ps \in Seq(S),
         Distinct(ps)
  PROVE  LET t == All(free_packet, s, ps)
             R == S \ {ps[i] : i \in DOMAIN ps}
         IN Sound(t, R) /\ Kept(s, t, R)
<1> DEFINE Rest(m) == S \ {ps[i] : i \in 1..m}
           N == Len(ps)
<1>1. N \in Nat /\ DOMAIN ps = 1..N /\ \A i \in 1..N: ps[i] \in S
  OBVIOUS
<1>2. PICK f: Frees(N, f, s, ps) /\ All(free_packet, s, ps) = f[N]
  <2>1. PICK f: f = CHOOSE g: g = [i \in 0..N |-> IF i = 0 THEN s ELSE free_packet(g[i - 1], ps[i])]
    OBVIOUS
  <2>2. All(free_packet, s, ps) = f[N]
    BY <2>1 DEF All
  <2>3. \E g: g = [i \in 0..N |-> IF i = 0 THEN s ELSE free_packet(g[i - 1], ps[i])]
    <3>1. N \in Nat
      OBVIOUS
    <3> HIDE DEF N
    <3>2. \E g: Frees(N, g, s, ps)
      BY <3>1, FreesExists
    <3> QED
      BY <3>2 DEF Frees
  <2>4. f = [i \in 0..N |-> IF i = 0 THEN s ELSE free_packet(f[i - 1], ps[i])]
    BY <2>1, <2>3
  <2> QED
    BY <2>2, <2>4 DEF Frees
<1> HIDE DEF N
<1>3. \A i \in 0..N: f[i] = IF i = 0 THEN s ELSE free_packet(f[i - 1], ps[i])
  BY <1>2 DEF Frees
<1> DEFINE T == {m \in Nat: m <= N => Sound(f[m], Rest(m)) /\ Kept(s, f[m], Rest(m))}
<1>4. 0 \in T
  <2>1. f[0] = s /\ Rest(0) = S
    <3>1. 0 \in 0..N /\ 1..0 = {}
      BY <1>1
    <3> QED
      BY <1>3, <3>1
  <2>2. Kept(s, s, S)
    BY DEF Kept
  <2> QED
    BY <2>1, <2>2
<1>5. \A m \in Nat: m \in T => m + 1 \in T
  <2> SUFFICES ASSUME NEW m \in Nat, m \in T, m + 1 <= N
               PROVE  Sound(f[m + 1], Rest(m + 1)) /\ Kept(s, f[m + 1], Rest(m + 1))
    <3> HIDE DEF Rest
    <3> QED
      OBVIOUS
  <2>0. Sound(f[m], Rest(m)) /\ Kept(s, f[m], Rest(m))
    <3>1. m <= N
      BY <1>1
    <3> HIDE DEF Rest
    <3> QED
      BY <3>1
  <2>1. f[m + 1] = free_packet(f[m], ps[m + 1])
    <3>1. m + 1 \in 0..N /\ m + 1 # 0 /\ (m + 1) - 1 = m
      BY <1>1
    <3> QED
      BY <1>3, <3>1
  <2>2. ps[m + 1] \in Rest(m)
    <3>1. m + 1 \in 1..N /\ \A i \in 1..m: i \in 1..N /\ i # m + 1
      BY <1>1
    <3> QED
      BY <1>1, <3>1 DEF Distinct
  <2>3. Rest(m + 1) = Rest(m) \ {ps[m + 1]}
    <3>1. 1..(m + 1) = 1..m \cup {m + 1}
      OBVIOUS
    <3> QED
      BY <3>1
  <2> HIDE DEF Rest
  <2>4. Sound(f[m + 1], Rest(m + 1)) /\ Kept(f[m], f[m + 1], Rest(m + 1))
    BY <2>0, <2>1, <2>2, <2>3, FreePacketSound
  <2>5. Kept(s, f[m], Rest(m + 1))
    BY <2>0, <2>3, KeptOfFewer
  <2> QED
    BY <2>4, <2>5, KeptTransitive
<1> HIDE DEF T
<1>6. N \in T
  BY <1>1, <1>4, <1>5, Induction
<1>7. Sound(f[N], Rest(N)) /\ Kept(s, f[N], Rest(N))
  <2>1. N \in Nat /\ N <= N
    BY <1>1
  <2> HIDE DEF Rest
  <2> QED
    BY <1>6, <2>1 DEF T
<1> QED
  BY <1>1, <1>2, <1>7

\* Reading each of several sound packets changes nothing.
LEMMA ReadAll ==
  ASSUME NEW s, NEW S, Sound(s, S), NEW ps \in Seq(S)
  PROVE  All(UsePacket, s, ps) = s
<1> DEFINE N == Len(ps)
<1>1. N \in Nat /\ \A i \in 1..N: ps[i] \in S
  OBVIOUS
<1>2. PICK f: /\ f = [i \in 0..N |-> IF i = 0 THEN s ELSE UsePacket(f[i - 1], ps[i])]
              /\ All(UsePacket, s, ps) = f[N]
  <2>1. PICK f: f = CHOOSE g: g = [i \in 0..N |-> IF i = 0 THEN s ELSE UsePacket(g[i - 1], ps[i])]
    OBVIOUS
  <2>2. All(UsePacket, s, ps) = f[N]
    BY <2>1 DEF All
  <2>3. \E g: g = [i \in 0..N |-> IF i = 0 THEN s ELSE UsePacket(g[i - 1], ps[i])]
    <3>1. PICK g: g = [i \in 0..N |-> s]
      OBVIOUS
    <3>2. \A i \in 0..N: s = IF i = 0 THEN s ELSE UsePacket(g[i - 1], ps[i])
      <4> TAKE i \in 0..N
      <4>1. CASE i = 0
        BY <4>1
      <4>2. CASE i # 0
        <5>1. i - 1 \in 0..N /\ i \in 1..N
          BY <1>1, <4>2
        <5>2. g[i - 1] = s /\ ps[i] \in S
          BY <1>1, <3>1, <5>1
        <5> QED
          BY <4>2, <5>2, UseSound
      <4> QED
        BY <4>1, <4>2
    <3> QED
      BY <3>1, <3>2
  <2> QED
    BY <2>1, <2>2, <2>3
<1> HIDE DEF N
<1> DEFINE T == {m \in Nat: m <= N => f[m] = s}
<1>3. 0 \in T
  BY <1>1, <1>2
<1>4. \A m \in Nat: m \in T => m + 1 \in T
  <2> SUFFICES ASSUME NEW m \in Nat, m + 1 <= N, f[m] = s
               PROVE  f[m + 1] = s
    BY <1>1
  <2>1. m + 1 \in 0..N /\ m + 1 \in 1..N /\ m + 1 # 0 /\ (m + 1) - 1 = m
    BY <1>1
  <2>2. f[m + 1] = UsePacket(f[m], ps[m + 1])
    BY <1>2, <2>1
  <2> QED
    BY <1>1, <2>1, <2>2, UseSound
<1> HIDE DEF T
<1>5. N \in T
  BY <1>1, <1>3, <1>4, Induction
<1> QED
  BY <1>1, <1>2, <1>5 DEF T

\* Parsing a frame, and the acknowledgement, leave the other structs alone.
LEMMA ReceiveAndAckSound ==
  ASSUME NEW S, Sound(Now, S), rx_p \in S, received \in Nat, NEW empty \in BOOLEAN
  PROVE  LET t == ReceiveAndAck(empty)
         IN /\ Sound(t, S) /\ Kept(Now, t, S \ {rx_p})
            /\ t.heap[rx_p].content = received + 1
            /\ ~empty => /\ payload(t, rx_p) # NULL
                         /\ t.heap[payload(t, rx_p)].content = received + 1
<1> DEFINE k == received + 1
<1>1. k \in Nat
  OBVIOUS
<1> HIDE DEF k
<1>2. PICK u: u = parse_packet(Now, rx_p, k, empty)
  OBVIOUS
<1>3. PICK t: t = malloc(u, k, NULL)
  OBVIOUS
<1>4. /\ Sound(u, S) /\ Kept(Now, u, S \ {rx_p}) /\ u.heap[rx_p].content = k
      /\ ~empty => payload(u, rx_p) # NULL /\ u.heap[payload(u, rx_p)].content = k
  BY <1>1, <1>2, ParseSound
<1>5. Sound(t, S) /\ Kept(u, t, S) /\ Sound(t, S \cup {New(t)})
  BY <1>1, <1>3, <1>4, BufferSound
<1>6. UsePacket(t, New(t)) = t
  BY <1>5, UseSound
<1>7. ReceiveAndAck(empty) = t
  BY <1>2, <1>3, <1>6 DEF ReceiveAndAck, k
<1>8. Kept(Now, t, S \ {rx_p})
  BY <1>4, <1>5, KeptOfFewer, KeptTransitive
<1>9. t.heap[rx_p].content = k /\ (~empty => payload(t, rx_p) # NULL /\ t.heap[payload(t, rx_p)].content = k)
  BY <1>4, <1>5 DEF Kept
<1> QED
  BY <1>5, <1>7, <1>8, <1>9 DEF k

-----------------------------------------------------------------------------
(* The fragments of a burst.                                               *)

Fragment(s, k) == LET buffer == malloc(s, k, NULL) IN malloc(buffer, k, New(buffer))

\* f builds the first n fragments in memory s.
Builds(n, f, s, ps) ==
  f = [i \in 0..n |-> IF i = 0 THEN s ELSE Fragment(f[i - 1], ps[i])]

LEMMA BuildsExists ==
  ASSUME NEW s, NEW ps, NEW n \in Nat
  PROVE  \E f: Builds(n, f, s, ps)
<1> DEFINE T == {m \in Nat: \E f: Builds(m, f, s, ps)}
<1>1. 0 \in T
  <2>1. PICK f: f = [i \in 0..0 |-> s]
    OBVIOUS
  <2>2. f = [i \in 0..0 |-> IF i = 0 THEN s ELSE Fragment(f[i - 1], ps[i])]
    BY <2>1
  <2> QED
    BY <2>2 DEF Builds
<1>2. \A m \in Nat: m \in T => m + 1 \in T
  <2> SUFFICES ASSUME NEW m \in Nat, NEW f, Builds(m, f, s, ps)
               PROVE  \E g: Builds(m + 1, g, s, ps)
    OBVIOUS
  <2>1. PICK g: g = [i \in 0..(m + 1) |-> IF i = m + 1 THEN Fragment(f[m], ps[m + 1]) ELSE f[i]]
    OBVIOUS
  <2>2. \A i \in 0..m: f[i] = IF i = 0 THEN s ELSE Fragment(f[i - 1], ps[i])
    BY DEF Builds
  <2>3. \A i \in 0..m: g[i] = f[i]
    BY <2>1
  <2>4. \A i \in 0..(m + 1): g[i] = IF i = 0 THEN s ELSE Fragment(g[i - 1], ps[i])
    <3> TAKE i \in 0..(m + 1)
    <3>1. CASE i = m + 1
      <4>1. i # 0 /\ i - 1 = m /\ m \in 0..m /\ g[i] = Fragment(f[m], ps[i])
        BY <2>1, <3>1
      <4> QED
        BY <2>3, <4>1
    <3>2. CASE i \in 0..m /\ i # 0
      <4>1. i - 1 \in 0..m
        BY <3>2
      <4> QED
        BY <2>2, <2>3, <3>2, <4>1
    <3>3. CASE i = 0
      BY <2>2, <2>3, <3>3
    <3> QED
      BY <3>1, <3>2, <3>3
  <2>5. g = [i \in 0..(m + 1) |-> g[i]]
    BY <2>1
  <2>6. g = [i \in 0..(m + 1) |-> IF i = 0 THEN s ELSE Fragment(g[i - 1], ps[i])]
    BY <2>4, <2>5
  <2> QED
    BY <2>6 DEF Builds
<1> HIDE DEF T
<1>3. Nat \subseteq T
  BY <1>1, <1>2, Induction
<1> QED
  BY <1>3 DEF T

\* A fragment is the last block but for its payload, the one before.
LEMMA FragmentSound ==
  ASSUME NEW s, NEW S, Sound(s, S), NEW k \in Nat
  PROVE  /\ Sound(Fragment(s, k), S \cup {Len(s.heap) + 2})
         /\ Len(Fragment(s, k).heap) = Len(s.heap) + 2
<1> PICK u: u = malloc(s, k, NULL)
  OBVIOUS
<1> PICK t: t = malloc(u, k, New(u))
  OBVIOUS
<1>1. Grown(s, u, [live |-> TRUE, content |-> k, payload |-> NULL]) /\ Sound(u, S) /\ Kept(s, u, S)
  BY BufferSound
<1>2. /\ Len(s.heap) \in Nat
      /\ \A q \in S: q \in DOMAIN s.heap /\ payload(s, q) \in Nat /\ (payload(s, q) # NULL => payload(s, q) \in DOMAIN s.heap)
  BY SoundTypes
<1>3. Live(u, New(u)) /\ New(u) # NULL /\ New(u) \notin S /\ New(u) \in Nat /\ Len(u.heap) = Len(s.heap) + 1
  BY <1>1, <1>2 DEF Grown, Live
<1>4. \A q \in S: payload(u, q) # New(u)
  BY <1>1, <1>2 DEF Kept, Grown
<1>5. Grown(u, t, [live |-> TRUE, content |-> k, payload |-> New(u)]) /\ Sound(t, S \cup {New(t)})
  BY <1>1, <1>3, <1>4, StructSound
<1>6. New(t) = Len(s.heap) + 2 /\ Len(t.heap) = Len(s.heap) + 2
  BY <1>2, <1>3, <1>5 DEF Grown
<1> QED
  BY <1>5, <1>6 DEF Fragment

\* n fragments take two blocks each, their structs the second of them.
LEMMA BuildAll ==
  ASSUME NEW s, Sound(s, {}), NEW n \in Nat
  PROVE  LET t == All(Fragment, s, [k \in 1..n |-> k])
         IN /\ Sound(t, {Len(s.heap) + 2 * k : k \in 1..n})
            /\ Len(t.heap) = Len(s.heap) + 2 * n
<1> DEFINE L == Len(s.heap)
           Built(m) == {L + 2 * k : k \in 1..m}
           ps == [k \in 1..n |-> k]
<1>1. L \in Nat
  BY SoundTypes
<1>2. Len(ps) = n /\ \A k \in 1..n: ps[k] = k
  OBVIOUS
<1> HIDE DEF ps
<1>3. PICK f: Builds(n, f, s, ps) /\ All(Fragment, s, ps) = f[n]
  <2>1. PICK f: f = CHOOSE g: g = [i \in 0..n |-> IF i = 0 THEN s ELSE Fragment(g[i - 1], ps[i])]
    OBVIOUS
  <2>2. All(Fragment, s, ps) = f[n]
    BY <1>2, <2>1 DEF All
  <2>3. \E g: g = [i \in 0..n |-> IF i = 0 THEN s ELSE Fragment(g[i - 1], ps[i])]
    <3>1. \E g: Builds(n, g, s, ps)
      BY BuildsExists
    <3> QED
      BY <3>1 DEF Builds
  <2>4. f = [i \in 0..n |-> IF i = 0 THEN s ELSE Fragment(f[i - 1], ps[i])]
    BY <2>1, <2>3
  <2> QED
    BY <2>2, <2>4 DEF Builds
<1>4. \A i \in 0..n: f[i] = IF i = 0 THEN s ELSE Fragment(f[i - 1], ps[i])
  BY <1>3 DEF Builds
<1> HIDE DEF L
<1> DEFINE T == {m \in Nat: m <= n => Sound(f[m], Built(m)) /\ Len(f[m].heap) = L + 2 * m}
<1>5. 0 \in T
  <2>1. f[0] = s /\ Built(0) = {}
    BY <1>4
  <2> HIDE DEF Built
  <2>2. Len(s.heap) = L + 2 * 0
    BY <1>1 DEF L
  <2> QED
    BY <2>1, <2>2
<1>6. \A m \in Nat: m \in T => m + 1 \in T
  <2> SUFFICES ASSUME NEW m \in Nat, m \in T, m + 1 <= n
               PROVE  Sound(f[m + 1], Built(m + 1)) /\ Len(f[m + 1].heap) = L + 2 * (m + 1)
    <3> HIDE DEF Built
    <3> QED
      OBVIOUS
  <2>0. Sound(f[m], Built(m)) /\ Len(f[m].heap) = L + 2 * m
    <3>1. m <= n
      OBVIOUS
    <3> HIDE DEF Built
    <3> QED
      BY <3>1
  <2>1. f[m + 1] = Fragment(f[m], m + 1)
    <3>1. m + 1 \in 0..n /\ m + 1 # 0 /\ (m + 1) - 1 = m /\ ps[m + 1] = m + 1
      BY <1>2
    <3> QED
      BY <1>4, <3>1
  <2>2. Built(m + 1) = Built(m) \cup {L + 2 * m + 2}
    <3>1. 1..(m + 1) = 1..m \cup {m + 1} /\ L + 2 * (m + 1) = L + 2 * m + 2
      BY <1>1
    <3> QED
      BY <3>1
  <2> HIDE DEF Built
  <2>3. m + 1 \in Nat
    OBVIOUS
  <2>4. Sound(f[m + 1], Built(m) \cup {Len(f[m].heap) + 2}) /\ Len(f[m + 1].heap) = Len(f[m].heap) + 2
    BY <2>0, <2>1, <2>3, FragmentSound
  <2>5. Len(f[m].heap) + 2 = L + 2 * m + 2 /\ Len(f[m].heap) + 2 = L + 2 * (m + 1)
    BY <1>1, <2>0
  <2> QED
    BY <2>2, <2>4, <2>5
<1>7. n \in T
  <2> HIDE DEF T
  <2> QED
    BY <1>5, <1>6, Induction
<1>8. Sound(f[n], Built(n)) /\ Len(f[n].heap) = L + 2 * n
  BY <1>7
<1> QED
  BY <1>3, <1>8 DEF L, ps

-----------------------------------------------------------------------------
(* From memories to steps.                                                 *)

LEMMA HeldStays ==
  ASSUME NEW s, NEW t, NEW S, Kept(s, t, S), NEW ps, NEW ks,
         \A i \in DOMAIN ps: ps[i] \in S, Keeps(s, ps, ks)
  PROVE  Keeps(t, ps, ks)
BY DEF Keeps, Kept, Holds

LEMMA BecomesIs ==
  ASSUME NEW t \in Memories, Becomes(t)
  PROVE  Now' = t
<1>1. t = [heap |-> t.heap, misused |-> t.misused]
  BY DEF Memories
<1> QED
  BY <1>1 DEF Becomes, Now, Memory

LEMMA NewIsNew ==
  ASSUME NEW s, NEW S, Sound(s, S), NEW c \in Nat
  PROVE  New(malloc(s, c, NULL)) \notin S /\ New(malloc(s, c, NULL)) \in Nat
<1>1. Grown(s, malloc(s, c, NULL), [live |-> TRUE, content |-> c, payload |-> NULL])
  BY BufferSound
<1>2. Len(s.heap) \in Nat /\ \A q \in S: q \in DOMAIN s.heap
  BY SoundTypes
<1> QED
  BY <1>1, <1>2 DEF Grown

\* Structs in use, by the thread's place.
LEMMA StructsIn ==
  /\ Captured \cup commands \subseteq Structs
  /\ Parsing => rx_p \in Structs
  /\ Sending => Pending \subseteq Structs
  /\ pc = "idle" => Structs = Captured \cup commands
  /\ pc = "listen" => Structs = (Captured \cup commands) \cup {rx_p}
  /\ pc = "send" => Structs = (Captured \cup commands) \cup Pending
BY DEF Structs, Parsing, Sending

LEMMA StartLoopOwned == Owned /\ StartLoop => Owned'
<1> SUFFICES ASSUME Owned, StartLoop PROVE Owned'
  OBVIOUS
<1> DEFINE S == Captured \cup commands
<1>1. Structs = S /\ Sound(Now, S) /\ 0 \in Nat
  BY StructsIn DEF Owned, InUse, StartLoop
<1>2. PICK t: t = malloc(Now, 0, NULL)
  OBVIOUS
<1>3. Sound(t, S \cup {New(t)}) /\ Kept(Now, t, S) /\ New(t) \notin S /\ New(t) \in Nat
  BY <1>1, <1>2, BufferSound, NewIsNew
<1>4. Becomes(t) /\ rx_p' = New(t)
  BY <1>2 DEF StartLoop
<1>5. Now' = t
  BY <1>3, <1>4, BecomesIs DEF Sound
<1>6. Captured' = Captured /\ commands' = commands /\ captured' = captured /\ contents' = contents /\ p_buf' = p_buf
  BY DEF StartLoop, Captured, sendVars
<1>7. pc' = "listen" /\ loops' = loops + 1 /\ next' = next /\ received' = received /\ attempt' = attempt
  BY DEF StartLoop, sendVars
<1>8. Structs' = S \cup {New(t)}
  BY <1>4, <1>6, <1>7 DEF Structs, Parsing, Sending
<1>9. InUse'
  BY <1>3, <1>5, <1>8 DEF InUse
<1>10. Types'
  BY <1>3, <1>4, <1>6, <1>7 DEF Owned, Types
<1>11. Phases'
  BY <1>6, <1>7 DEF Owned, Types, Phases, Sending, Unsent
<1>12. Apart'
  BY <1>3, <1>4, <1>6, <1>7 DEF Owned, Apart, Parsing, Sending
<1>13. Contents'
  <2>1. \A i \in DOMAIN captured: captured[i] \in S
    BY DEF Captured
  <2>2. Keeps(t, captured, contents)
    BY <1>3, <2>1, HeldStays DEF Owned, Contents
  <2> QED
    BY <1>5, <1>6, <2>2 DEF Contents
<1> QED
  BY <1>9, <1>10, <1>11, <1>12, <1>13 DEF Owned

\* What every iteration of the receive loop has before the handler acts.
LEMMA Received ==
  ASSUME Owned, Receives, NEW empty \in BOOLEAN, NEW t, t = ReceiveAndAck(empty)
  PROVE  /\ Structs = (Captured \cup commands) \cup {rx_p} /\ rx_p \notin Captured \cup commands
         /\ Sound(t, Structs)
         /\ Kept(Now, t, Captured \cup commands)
         /\ ~empty => Holds(t, rx_p, received + 1)
         /\ Keeps(t, captured, contents)
<1>1. Structs = (Captured \cup commands) \cup {rx_p} /\ rx_p \notin Captured \cup commands
  BY StructsIn DEF Owned, Apart, Receives, Parsing
<1>2. Sound(Now, Structs) /\ rx_p \in Structs /\ received \in Nat
  BY <1>1 DEF Owned, InUse, Types
<1>3. /\ Sound(t, Structs) /\ Kept(Now, t, Structs \ {rx_p})
      /\ t.heap[rx_p].content = received + 1
      /\ ~empty => payload(t, rx_p) # NULL /\ t.heap[payload(t, rx_p)].content = received + 1
  BY <1>2, ReceiveAndAckSound
<1>4. Kept(Now, t, Captured \cup commands)
  BY <1>1, <1>3, KeptOfFewer
<1>5. \A i \in DOMAIN captured: captured[i] \in Captured \cup commands
  BY DEF Captured
<1>6. Keeps(t, captured, contents)
  BY <1>4, <1>5, HeldStays DEF Owned, Contents
<1> QED
  BY <1>1, <1>3, <1>4, <1>6 DEF Holds

\* What it leaves alone.
LEMMA ReceivesLeaves ==
  ASSUME Owned, Receives
  PROVE  /\ pc' = "listen" /\ pc = "listen" /\ loops' = loops /\ rx_p' = rx_p /\ p_buf' = p_buf
         /\ next' = next /\ attempt' = attempt
         /\ received' \in Nat
         /\ Phases'
BY DEF Owned, Receives, sendVars, Types, Phases, Sending, Unsent

\* A received packet that the handler does not keep.
LEMMA NotKept ==
  ASSUME Owned, Receives, NEW empty \in BOOLEAN, Becomes(ReceiveAndAck(empty)),
         captured' = captured, contents' = contents, commands' = commands
  PROVE  Owned'
<1>1. PICK t: t = ReceiveAndAck(empty)
  OBVIOUS
<1>2. /\ Sound(t, Structs) /\ Keeps(t, captured, contents)
  BY <1>1, Received
<1>3. Now' = t
  BY <1>1, <1>2, BecomesIs DEF Sound
<1>4. Captured' = Captured
  BY DEF Captured
<1>5. /\ pc' = "listen" /\ pc = "listen" /\ loops' = loops /\ rx_p' = rx_p /\ p_buf' = p_buf
      /\ next' = next /\ attempt' = attempt /\ received' \in Nat
  BY ReceivesLeaves
<1>6. Structs' = Structs
  BY <1>4, <1>5 DEF Structs, Parsing, Sending
<1>7. InUse' /\ Contents'
  BY <1>2, <1>3, <1>6 DEF InUse, Contents
<1>8. Types'
  BY <1>5 DEF Owned, Types
<1>9. Phases'
  BY <1>5 DEF Owned, Phases, Sending, Unsent
<1>10. Apart'
  BY <1>4, <1>5 DEF Owned, Apart, Parsing, Sending
<1> QED
  BY <1>7, <1>8, <1>9, <1>10 DEF Owned

\* The copy the handler makes of a packet with a payload.
LEMMA Copied ==
  ASSUME Owned, Receives, NEW t, t = copy_packet(ReceiveAndAck(FALSE), rx_p), Becomes(t)
  PROVE  /\ Sound(t, Structs \cup {New(t)}) /\ New(t) \notin Structs /\ New(t) \in Nat
         /\ Holds(t, New(t), received + 1) /\ Keeps(t, captured, contents)
         /\ Now' = t
         /\ Structs = (Captured \cup commands) \cup {rx_p}
<1>1. PICK u: u = ReceiveAndAck(FALSE)
  OBVIOUS
<1>2. /\ Structs = (Captured \cup commands) \cup {rx_p}
      /\ Sound(u, Structs) /\ Holds(u, rx_p, received + 1) /\ Keeps(u, captured, contents)
  BY <1>1, Received
<1>3. rx_p \in Structs
  BY <1>2
<1>4. Copies(u, t, Structs, received + 1)
  BY <1>1, <1>2, <1>3, CopySound
<1>5. \A i \in DOMAIN captured: captured[i] \in Structs
  BY <1>2 DEF Captured
<1>6. Keeps(t, captured, contents)
  BY <1>2, <1>4, <1>5, HeldStays DEF Copies
<1>7. Now' = t
  BY <1>4, BecomesIs DEF Sound, Copies
<1>8. New(t) \in Nat
  <2>1. New(t) \in Structs \cup {New(t)}
    OBVIOUS
  <2> QED
    BY <1>4, <2>1, SoundTypes DEF Copies
<1> QED
  BY <1>2, <1>4, <1>6, <1>7, <1>8 DEF Copies

LEMMA ReceiveFragmentOwned == Owned /\ ReceiveFragment => Owned'
<1> SUFFICES ASSUME Owned, ReceiveFragment PROVE Owned'
  OBVIOUS
<1>1. Receives
  BY DEF ReceiveFragment
<1>2. PICK t: t = copy_packet(ReceiveAndAck(FALSE), rx_p)
  OBVIOUS
<1>3. Becomes(t) /\ captured' = Append(captured, New(t)) /\ contents' = Append(contents, received + 1) /\ commands' = commands
  BY <1>2 DEF ReceiveFragment
<1>4. /\ Sound(t, Structs \cup {New(t)}) /\ New(t) \notin Structs /\ New(t) \in Nat
      /\ Holds(t, New(t), received + 1) /\ Keeps(t, captured, contents)
      /\ Now' = t
      /\ Structs = (Captured \cup commands) \cup {rx_p}
  BY <1>1, <1>2, <1>3, Copied
<1>5. /\ pc' = "listen" /\ pc = "listen" /\ loops' = loops /\ rx_p' = rx_p /\ p_buf' = p_buf
      /\ next' = next /\ attempt' = attempt /\ received' \in Nat /\ Phases'
  BY <1>1, ReceivesLeaves
<1>6. captured \in Seq(Nat) /\ contents \in Seq(Nat) /\ received \in Nat
  BY DEF Owned, Types
<1>7. /\ DOMAIN captured' = DOMAIN captured \cup {Len(captured) + 1} /\ Len(captured) + 1 \notin DOMAIN captured
      /\ \A i \in DOMAIN captured: captured'[i] = captured[i]
      /\ captured'[Len(captured) + 1] = New(t)
      /\ Len(captured') = Len(captured) + 1 /\ Len(captured) \in Nat /\ DOMAIN captured = 1..Len(captured)
      /\ captured' \in Seq(Nat)
  BY <1>3, <1>4, <1>6
<1>8. /\ \A i \in DOMAIN contents: contents'[i] = contents[i]
      /\ contents'[Len(contents) + 1] = received + 1
      /\ Len(contents') = Len(contents) + 1 /\ DOMAIN contents = 1..Len(contents)
      /\ contents' \in Seq(Nat)
  BY <1>3, <1>6
<1>9. Captured' = Captured \cup {New(t)}
  BY <1>7 DEF Captured
<1>10. Structs' = Structs \cup {New(t)}
  BY <1>3, <1>4, <1>5, <1>9 DEF Structs, Parsing, Sending
<1>11. InUse'
  BY <1>4, <1>10 DEF InUse
<1>12. Types'
  BY <1>3, <1>5, <1>7, <1>8 DEF Owned, Types
<1>13. Apart'
  <2>1. Distinct(captured')
    <3>1. \A i \in DOMAIN captured: captured[i] # New(t)
      BY <1>4 DEF Captured
    <3>2. Distinct(captured)
      BY DEF Owned, Apart
    <3> QED
      BY <1>7, <3>1, <3>2 DEF Distinct
  <2> QED
    BY <1>3, <1>4, <1>5, <1>9, <2>1 DEF Owned, Apart, Parsing, Sending
<1>14. Contents'
  <2>1. Len(contents) = Len(captured) /\ \A i \in DOMAIN captured: Holds(t, captured[i], contents[i])
    BY <1>4 DEF Keeps
  <2>2. \A i \in DOMAIN captured': Holds(t, captured'[i], contents'[i])
    BY <1>4, <1>7, <1>8, <2>1
  <2>3. Keeps(t, captured', contents')
    BY <1>7, <1>8, <2>1, <2>2 DEF Keeps
  <2> QED
    BY <1>4, <2>3 DEF Contents
<1> QED
  BY <1>5, <1>11, <1>12, <1>13, <1>14 DEF Owned

LEMMA ReceiveCommandOwned == Owned /\ ReceiveCommand => Owned'
<1> SUFFICES ASSUME Owned, ReceiveCommand PROVE Owned'
  OBVIOUS
<1>1. Receives
  BY DEF ReceiveCommand
<1>2. PICK t: t = copy_packet(ReceiveAndAck(FALSE), rx_p)
  OBVIOUS
<1>3. Becomes(t) /\ commands' = commands \cup {New(t)} /\ captured' = captured /\ contents' = contents
  BY <1>2 DEF ReceiveCommand
<1>4. /\ Sound(t, Structs \cup {New(t)}) /\ New(t) \notin Structs /\ New(t) \in Nat
      /\ Keeps(t, captured, contents)
      /\ Now' = t
      /\ Structs = (Captured \cup commands) \cup {rx_p}
  BY <1>1, <1>2, <1>3, Copied
<1>5. /\ pc' = "listen" /\ pc = "listen" /\ loops' = loops /\ rx_p' = rx_p /\ p_buf' = p_buf
      /\ next' = next /\ attempt' = attempt /\ received' \in Nat /\ Phases'
  BY <1>1, ReceivesLeaves
<1>6. Captured' = Captured
  BY <1>3 DEF Captured
<1>7. Structs' = Structs \cup {New(t)}
  BY <1>3, <1>4, <1>5, <1>6 DEF Structs, Parsing, Sending
<1>8. InUse' /\ Contents'
  BY <1>3, <1>4, <1>7 DEF InUse, Contents
<1>9. Types'
  BY <1>3, <1>4, <1>5 DEF Owned, Types
<1>10. Apart'
  BY <1>3, <1>4, <1>5, <1>6 DEF Owned, Apart, Parsing, Sending
<1> QED
  BY <1>5, <1>8, <1>9, <1>10 DEF Owned

LEMMA ReceiveEndOwned == Owned /\ ReceiveEnd => Owned'
<1> SUFFICES ASSUME Owned, ReceiveEnd PROVE Owned'
  OBVIOUS
<1>1. Receives
  BY DEF ReceiveEnd
<1>2. PICK u: u = ReceiveAndAck(TRUE)
  OBVIOUS
<1>3. /\ Structs = (Captured \cup commands) \cup {rx_p} /\ rx_p \notin Captured \cup commands
      /\ Sound(u, Structs)
  BY <1>1, <1>2, Received
<1>4. captured \in Seq(Structs)
  <2>1. captured \in Seq(Nat) /\ \A i \in DOMAIN captured: captured[i] \in Structs
    BY <1>3 DEF Captured, Owned, Types
  <2> QED
    BY <2>1
<1>5. All(UsePacket, u, captured) = u
  BY <1>3, <1>4, ReadAll
<1>6. PICK t: t = All(free_packet, u, captured)
  OBVIOUS
<1>7. Sound(t, Structs \ Captured)
  <2>1. Distinct(captured)
    BY DEF Owned, Apart
  <2> HIDE DEF Structs
  <2>2. Sound(t, Structs \ {captured[i] : i \in DOMAIN captured})
    BY <1>3, <1>4, <1>6, <2>1, FreeAll
  <2> QED
    BY <2>2 DEF Captured
<1>8. /\ Becomes(u) \/ Becomes(t)
      /\ captured' = <<>> /\ contents' = <<>> /\ commands' = commands
  BY <1>2, <1>5, <1>6 DEF ReceiveEnd
<1>9. Now' \in {u, t}
  <2>1. u \in Memories /\ t \in Memories
    BY <1>3, <1>7 DEF Sound
  <2> QED
    BY <1>8, <2>1, BecomesIs
<1>10. /\ pc' = "listen" /\ pc = "listen" /\ loops' = loops /\ rx_p' = rx_p /\ p_buf' = p_buf
      /\ next' = next /\ attempt' = attempt /\ received' \in Nat /\ Phases'
  BY <1>1, ReceivesLeaves
<1>11. Captured' = {}
  BY <1>8 DEF Captured
<1>12. Structs' = commands \cup {rx_p}
  BY <1>8, <1>10, <1>11 DEF Structs, Parsing, Sending
<1>13. Structs' \subseteq Structs \ Captured
  BY <1>3, <1>12 DEF Owned, Apart
<1>14. InUse'
  <2>1. Sound(u, Structs') /\ Sound(t, Structs')
    BY <1>3, <1>7, <1>13, SoundOfFewer
  <2> QED
    BY <1>9, <2>1 DEF InUse
<1>15. Types'
  BY <1>8, <1>10 DEF Owned, Types
<1>16. Apart'
  BY <1>3, <1>8, <1>10, <1>11 DEF Owned, Apart, Parsing, Sending, Distinct
<1>17. Contents'
  BY <1>8 DEF Contents, Keeps
<1> QED
  BY <1>10, <1>14, <1>15, <1>16, <1>17 DEF Owned

LEMMA FreeCommandOwned == Owned /\ FreeCommand => Owned'
<1> SUFFICES ASSUME Owned, FreeCommand PROVE Owned'
  OBVIOUS
<1>1. PICK p \in commands: Becomes(free_packet(UsePacket(Now, p), p)) /\ commands' = commands \ {p}
  BY DEF FreeCommand
<1>2. /\ pc' = pc /\ loops' = loops /\ rx_p' = rx_p /\ received' = received
      /\ captured' = captured /\ contents' = contents /\ p_buf' = p_buf /\ next' = next /\ attempt' = attempt
  BY DEF FreeCommand, sendVars
<1>3. p \in Structs /\ Sound(Now, Structs)
  BY StructsIn DEF Owned, InUse
<1>4. UsePacket(Now, p) = Now
  BY <1>3, UseSound
<1>5. PICK t: t = free_packet(Now, p)
  OBVIOUS
<1>6. Sound(t, Structs \ {p}) /\ Kept(Now, t, Structs \ {p})
  BY <1>3, <1>5, FreePacketSound
<1>7. Now' = t
  BY <1>1, <1>4, <1>5, <1>6, BecomesIs DEF Sound
<1>8. Captured' = Captured /\ Pending' = Pending /\ p \notin Captured
  BY <1>1, <1>2 DEF Captured, Pending, Owned, Apart
<1>9. ~Sending
  BY DEF Owned, Phases
<1>10. Structs' = Structs \ {p}
  <2>1. Parsing => rx_p # p
    BY DEF Owned, Apart
  <2> QED
    BY <1>1, <1>2, <1>8, <1>9, <2>1 DEF Structs, Parsing, Sending
<1>11. InUse'
  BY <1>6, <1>7, <1>10 DEF InUse
<1>12. Types'
  BY <1>1, <1>2 DEF Owned, Types
<1>13. Phases'
  BY <1>1, <1>2 DEF Owned, Phases, Sending, Unsent
<1>14. Apart'
  BY <1>1, <1>2, <1>8 DEF Owned, Apart, Parsing, Sending
<1>15. Contents'
  <2>1. \A i \in DOMAIN captured: captured[i] \in Structs \ {p}
    BY <1>8, StructsIn DEF Captured
  <2>2. Keeps(t, captured, contents)
    BY <1>6, <2>1, HeldStays DEF Owned, Contents
  <2> QED
    BY <1>2, <1>7, <2>2 DEF Contents
<1> QED
  BY <1>11, <1>12, <1>13, <1>14, <1>15 DEF Owned

LEMMA LoopReturnsOwned == Owned /\ LoopReturns => Owned'
<1> SUFFICES ASSUME Owned, LoopReturns PROVE Owned'
  OBVIOUS
<1>1. /\ pc = "listen" /\ pc' = "idle" /\ rx_p' = NULL /\ Becomes(free_packet(Now, rx_p))
      /\ loops' = loops /\ received' = received /\ captured' = captured /\ contents' = contents
      /\ commands' = commands /\ p_buf' = p_buf /\ next' = next /\ attempt' = attempt
  BY DEF LoopReturns, loopVars, sendVars
<1>2. Structs = (Captured \cup commands) \cup {rx_p} /\ rx_p \notin Captured \cup commands
  BY <1>1, StructsIn DEF Owned, Apart, Parsing
<1>3. rx_p \in Structs /\ Sound(Now, Structs)
  BY <1>2 DEF Owned, InUse
<1>4. PICK t: t = free_packet(Now, rx_p)
  OBVIOUS
<1>5. Sound(t, Structs \ {rx_p}) /\ Kept(Now, t, Structs \ {rx_p})
  BY <1>3, <1>4, FreePacketSound
<1>6. Now' = t
  BY <1>1, <1>4, <1>5, BecomesIs DEF Sound
<1>7. Captured' = Captured
  BY <1>1 DEF Captured
<1>8. Structs' = Structs \ {rx_p}
  BY <1>1, <1>2, <1>7 DEF Structs, Parsing, Sending
<1>9. InUse'
  BY <1>5, <1>6, <1>8 DEF InUse
<1>10. Types'
  BY <1>1 DEF Owned, Types, NULL
<1>11. Phases'
  BY <1>1 DEF Owned, Phases, Sending, Unsent
<1>12. Apart'
  BY <1>1, <1>7 DEF Owned, Apart, Parsing, Sending
<1>13. Contents'
  <2>1. \A i \in DOMAIN captured: captured[i] \in Structs \ {rx_p}
    BY <1>2 DEF Captured
  <2>2. Keeps(t, captured, contents)
    BY <1>5, <2>1, HeldStays DEF Owned, Contents
  <2> QED
    BY <1>1, <1>6, <2>2 DEF Contents
<1> QED
  BY <1>9, <1>10, <1>11, <1>12, <1>13 DEF Owned

LEMMA BuildOwned == Owned /\ Build => Owned'
<1> SUFFICES ASSUME Owned, Build PROVE Owned'
  OBVIOUS
<1>1. /\ pc = "idle" /\ p_buf = <<>> /\ loops = 0 /\ pc' = "send"
      /\ rx_p' = rx_p /\ loops' = loops /\ received' = received /\ captured' = captured
      /\ contents' = contents /\ commands' = commands /\ next' = next /\ attempt' = attempt
  BY DEF Build, loopVars
<1>2. captured = <<>> /\ commands = {} /\ Captured = {}
  BY <1>1 DEF Owned, Phases, Captured
<1>3. Sound(Now, {})
  BY <1>1, <1>2, StructsIn DEF Owned, InUse
<1>4. PICK n \in 1..MaxFragments:
        LET framed == malloc(malloc(All(Fragment, Now, [k \in 1..n |-> k]), 0, NULL), n + 1, NULL)
            structs == [k \in 1..n |-> New(Now) + 2 * k]
        IN /\ Becomes(framed)
           /\ p_buf' = <<New(framed) - 1>> \o structs \o <<New(framed)>>
  BY DEF Build, Fragment, All
<1>5. n \in Nat /\ n + 1 \in Nat /\ 0 \in Nat /\ n >= 1
  BY BoundsAssumption
<1> DEFINE L == Len(heap)
           Built == {L + 2 * k : k \in 1..n}
<1>6. Now.heap = heap /\ L \in Nat
  <2>1. Now.heap = heap
    BY DEF Now, Memory
  <2> QED
    BY <1>3, <2>1, SoundTypes
<1>7. PICK t: t = All(Fragment, Now, [k \in 1..n |-> k])
  OBVIOUS
<1>8. PICK u: u = malloc(t, 0, NULL)
  OBVIOUS
<1>9. PICK v: v = malloc(u, n + 1, NULL)
  OBVIOUS
<1>10. Sound(t, Built) /\ Len(t.heap) = L + 2 * n
  <2>1. Sound(t, {Len(Now.heap) + 2 * k : k \in 1..n}) /\ Len(t.heap) = Len(Now.heap) + 2 * n
    BY <1>3, <1>5, <1>7, BuildAll
  <2> QED
    BY <1>6, <2>1
<1> HIDE DEF Built, L
<1>11. Sound(u, Built \cup {New(u)}) /\ New(u) = L + 2 * n + 1 /\ Len(u.heap) = L + 2 * n + 1
  <2>1. Grown(t, u, [live |-> TRUE, content |-> 0, payload |-> NULL]) /\ Sound(u, Built \cup {New(u)})
    BY <1>5, <1>8, <1>10, BufferSound
  <2> QED
    BY <1>10, <2>1 DEF Grown
<1>12. Sound(v, (Built \cup {New(u)}) \cup {New(v)}) /\ New(v) = L + 2 * n + 2
  <2>1. Grown(u, v, [live |-> TRUE, content |-> n + 1, payload |-> NULL]) /\ Sound(v, (Built \cup {New(u)}) \cup {New(v)})
    BY <1>5, <1>9, <1>11, BufferSound
  <2>2. New(v) = Len(u.heap) + 1
    BY <2>1 DEF Grown
  <2>3. (L + 2 * n + 1) + 1 = L + 2 * n + 2
    BY <1>5, <1>6
  <2> QED
    BY <1>11, <2>1, <2>2, <2>3
<1>13. Becomes(v)
  BY <1>4, <1>7, <1>8, <1>9
<1>14. Now' = v
  BY <1>12, <1>13, BecomesIs DEF Sound
<1>15. p_buf' = <<L + 2 * n + 1>> \o [k \in 1..n |-> L + 2 * k] \o <<L + 2 * n + 2>>
  <2>1. p_buf' = <<New(v) - 1>> \o [k \in 1..n |-> New(Now) + 2 * k] \o <<New(v)>>
    BY <1>4, <1>7, <1>8, <1>9
  <2>2. New(Now) = L /\ New(v) - 1 = L + 2 * n + 1
    BY <1>5, <1>6, <1>12 DEF New, L
  <2> QED
    BY <1>12, <2>1, <2>2
<1>16. /\ p_buf' \in Seq(Nat) /\ Len(p_buf') = n + 2 /\ DOMAIN p_buf' = 1..(n + 2)
       /\ p_buf'[1] = L + 2 * n + 1 /\ p_buf'[n + 2] = L + 2 * n + 2
       /\ \A i \in 2..(n + 1): p_buf'[i] = L + 2 * (i - 1)
  <2>1. PICK structs: structs = [k \in 1..n |-> L + 2 * k]
    OBVIOUS
  <2>2. structs \in Seq(Nat) /\ Len(structs) = n /\ \A k \in 1..n: structs[k] = L + 2 * k
    BY <1>5, <1>6, <2>1
  <2>3. PICK b: b = L + 2 * n + 1
    OBVIOUS
  <2>4. PICK e: e = L + 2 * n + 2
    OBVIOUS
  <2>5. b \in Nat /\ e \in Nat
    BY <1>5, <1>6, <2>3, <2>4
  <2>6. p_buf' = <<b>> \o structs \o <<e>>
    BY <1>15, <2>1, <2>3, <2>4
  <2>7. PICK q: q = p_buf'
    OBVIOUS
  <2>8. /\ q \in Seq(Nat) /\ Len(q) = n + 2 /\ q[1] = b /\ q[n + 2] = e
        /\ \A i \in 2..(n + 1): q[i] = structs[i - 1]
    BY <1>5, <2>2, <2>5, <2>6, <2>7
  <2>9. \A i \in 2..(n + 1): i - 1 \in 1..n
    BY <1>5
  <2> QED
    BY <2>2, <2>3, <2>4, <2>7, <2>8, <2>9
<1>17. next' = 1
  BY <1>1 DEF Owned, Phases, Unsent
<1>18. Captured' = {}
  BY <1>1, <1>2 DEF Captured
<1>19. Pending' = (Built \cup {New(u)}) \cup {New(v)}
  <2>1. Pending' = {p_buf'[i] : i \in 1..(n + 2)}
    BY <1>16, <1>17 DEF Pending
  <2>2. 1..(n + 2) = {1, n + 2} \cup 2..(n + 1)
    BY <1>5
  <2>3. {p_buf'[i] : i \in 2..(n + 1)} = Built
    <3>1. \A i \in 2..(n + 1): i - 1 \in 1..n
      BY <1>5
    <3>2. \A k \in 1..n: k + 1 \in 2..(n + 1) /\ (k + 1) - 1 = k
      BY <1>5
    <3>3. \A k \in 1..n: p_buf'[k + 1] = L + 2 * k
      BY <1>16, <3>2
    <3>4. {p_buf'[i] : i \in 2..(n + 1)} \subseteq Built
      <4>1. \A i \in 2..(n + 1): p_buf'[i] = L + 2 * (i - 1) /\ i - 1 \in 1..n
        BY <1>16, <3>1
      <4> QED
        BY <4>1 DEF Built
    <3>5. Built \subseteq {p_buf'[i] : i \in 2..(n + 1)}
      <4>1. \A k \in 1..n: \E i \in 2..(n + 1): L + 2 * k = p_buf'[i]
        BY <3>2, <3>3
      <4> QED
        BY <4>1 DEF Built
    <3> QED
      BY <3>4, <3>5
  <2>4. {p_buf'[i] : i \in {1, n + 2}} = {New(u), New(v)}
    BY <1>11, <1>12, <1>16
  <2> QED
    BY <2>1, <2>2, <2>3, <2>4
<1>20. Structs' = Pending'
  BY <1>1, <1>2, <1>18 DEF Structs, Sending, Parsing
<1>21. InUse'
  BY <1>12, <1>14, <1>19, <1>20 DEF InUse
<1>22. Types'
  BY <1>1, <1>16 DEF Owned, Types
<1>23. Phases'
  BY <1>1, <1>2, <1>5, <1>16, <1>17 DEF Owned, Phases, Sending, Unsent
<1>24. Distinct(p_buf')
  <2> SUFFICES ASSUME NEW i \in 1..(n + 2), NEW j \in 1..(n + 2), p_buf'[i] = p_buf'[j]
               PROVE  i = j
    BY <1>16 DEF Distinct
  <2>1. PICK f \in [1..(n + 2) -> Nat]: \A m \in 1..(n + 2): f[m] = p_buf'[m]
    BY <1>16
  <2>2. /\ f[1] = L + 2 * n + 1 /\ f[n + 2] = L + 2 * n + 2
        /\ \A m \in 2..(n + 1): f[m] = L + 2 * (m - 1)
        /\ f[i] = f[j]
    BY <1>5, <1>16, <2>1
  <2> QED
    BY <1>5, <1>6, <2>2
<1>25. Apart'
  BY <1>1, <1>2, <1>18, <1>24 DEF Owned, Apart, Parsing, Sending
<1>26. Contents'
  BY <1>1, <1>2 DEF Owned, Contents, Keeps
<1> QED
  BY <1>21, <1>22, <1>23, <1>25, <1>26 DEF Owned

\* While a burst is sent the structs in use are the packets not yet acknowledged
\* and, while an answer is waited for, the struct it is parsed into.
LEMMA StructsSending ==
  ASSUME Owned, Sending
  PROVE  /\ captured = <<>> /\ commands = {} /\ Captured = {} /\ loops = 0
         /\ Structs = Pending \cup (IF Parsing THEN {rx_p} ELSE {})
         /\ Parsing => rx_p \in Structs /\ rx_p \notin Pending
         /\ p_buf[next] \in Pending /\ p_buf[next] \in Structs
         /\ Sound(Now, Structs)
<1>1. captured = <<>> /\ commands = {} /\ loops = 0
  BY DEF Owned, Phases
<1>2. Captured = {}
  BY <1>1 DEF Captured
<1>3. p_buf[next] \in Pending
  <2>1. next \in next..Len(p_buf)
    BY DEF Owned, Types, Phases
  <2> QED
    BY <2>1 DEF Pending
<1> QED
  BY <1>1, <1>2, <1>3 DEF Owned, Structs, Apart, InUse

LEMMA EnsureAckOwned == Owned /\ EnsureAck => Owned'
<1> SUFFICES ASSUME Owned, EnsureAck PROVE Owned'
  OBVIOUS
<1>1. /\ pc = "send" /\ pc' = "attempt" /\ attempt' = 1
      /\ loops' = loops /\ received' = received /\ captured' = captured /\ contents' = contents
      /\ commands' = commands /\ p_buf' = p_buf /\ next' = next
  BY DEF EnsureAck, loopVars
<1>2. /\ captured = <<>> /\ commands = {} /\ Captured = {} /\ Structs = Pending /\ Sound(Now, Pending)
  BY <1>1, StructsSending DEF Sending, Parsing
<1>3. PICK t: t = malloc(Now, 0, NULL)
  OBVIOUS
<1>4. Sound(t, Pending \cup {New(t)}) /\ New(t) \notin Pending /\ New(t) \in Nat
  <2>1. 0 \in Nat
    OBVIOUS
  <2> QED
    BY <1>2, <1>3, <2>1, BufferSound, NewIsNew
<1>5. Becomes(t) /\ rx_p' = New(t)
  BY <1>3 DEF EnsureAck
<1>6. Now' = t
  BY <1>4, <1>5, BecomesIs DEF Sound
<1>7. Captured' = {} /\ Pending' = Pending
  BY <1>1, <1>2 DEF Captured, Pending
<1>8. Structs' = Pending \cup {New(t)}
  BY <1>1, <1>2, <1>5, <1>7 DEF Structs, Sending, Parsing
<1>9. InUse'
  BY <1>4, <1>6, <1>8 DEF InUse
<1>10. Types'
  BY <1>1, <1>4, <1>5 DEF Owned, Types
<1>11. Phases'
  BY <1>1 DEF Owned, Phases, Sending, Unsent
<1>12. Apart'
  BY <1>1, <1>2, <1>4, <1>5, <1>7 DEF Owned, Apart, Parsing, Sending
<1>13. Contents'
  BY <1>1, <1>2 DEF Owned, Contents, Keeps
<1> QED
  BY <1>9, <1>10, <1>11, <1>12, <1>13 DEF Owned

LEMMA AttemptOwned == Owned /\ Attempt => Owned'
<1> SUFFICES ASSUME Owned, Attempt PROVE Owned'
  OBVIOUS
<1>1. /\ pc = "attempt" /\ pc' \in {"attempt", "acked", "given_up"} /\ attempt' \in {attempt, attempt + 1}
      /\ rx_p' = rx_p /\ loops' = loops /\ received' = received /\ captured' = captured /\ contents' = contents
      /\ commands' = commands /\ p_buf' = p_buf /\ next' = next
  BY DEF Attempt, loopVars
<1>2. /\ captured = <<>> /\ commands = {} /\ Captured = {} /\ Structs = Pending \cup {rx_p}
      /\ rx_p \notin Pending /\ rx_p \in Structs /\ p_buf[next] \in Structs /\ Sound(Now, Structs)
  BY <1>1, StructsSending DEF Sending, Parsing
<1>3. UsePacket(Now, p_buf[next]) = Now
  BY <1>2, UseSound
<1>4. Becomes(Now) \/ \E empty \in BOOLEAN: Becomes(parse_packet(Now, rx_p, 0, empty))
  BY <1>3 DEF Attempt
<1>5. PICK t: Becomes(t) /\ Sound(t, Structs)
  <2>1. CASE Becomes(Now)
    BY <1>2, <2>1
  <2>2. CASE \E empty \in BOOLEAN: Becomes(parse_packet(Now, rx_p, 0, empty))
    <3>1. PICK empty \in BOOLEAN: Becomes(parse_packet(Now, rx_p, 0, empty))
      BY <2>2
    <3>2. 0 \in Nat
      OBVIOUS
    <3>3. Sound(parse_packet(Now, rx_p, 0, empty), Structs)
      BY <1>2, <3>2, ParseSound
    <3> QED
      BY <3>1, <3>3
  <2> QED
    BY <1>4, <2>1, <2>2
<1>6. Now' = t
  BY <1>5, BecomesIs DEF Sound
<1>7. Captured' = {} /\ Pending' = Pending
  BY <1>1, <1>2 DEF Captured, Pending
<1>8. Structs' = Structs
  BY <1>1, <1>2, <1>7 DEF Structs, Sending, Parsing
<1>9. InUse'
  BY <1>5, <1>6, <1>8 DEF InUse
<1>10. Types'
  BY <1>1 DEF Owned, Types
<1>11. Phases'
  BY <1>1 DEF Owned, Phases, Sending, Unsent
<1>12. Apart'
  BY <1>1, <1>2, <1>7 DEF Owned, Apart, Parsing, Sending
<1>13. Contents'
  BY <1>1, <1>2 DEF Owned, Contents, Keeps
<1> QED
  BY <1>9, <1>10, <1>11, <1>12, <1>13 DEF Owned

LEMMA AcknowledgedOwned == Owned /\ Acknowledged => Owned'
<1> SUFFICES ASSUME Owned, Acknowledged PROVE Owned'
  OBVIOUS
<1> DEFINE p == p_buf[next]
<1>1. /\ pc = "acked" /\ rx_p' = NULL /\ Becomes(free(free_packet(Now, rx_p), p))
      /\ \/ next = Len(p_buf) /\ pc' = "idle" /\ next' = next
         \/ next # Len(p_buf) /\ pc' = "send" /\ next' = next + 1
      /\ loops' = loops /\ received' = received /\ captured' = captured /\ contents' = contents
      /\ commands' = commands /\ p_buf' = p_buf /\ attempt' = attempt
  BY DEF Acknowledged, loopVars
<1>2. /\ captured = <<>> /\ commands = {} /\ Captured = {} /\ Structs = Pending \cup {rx_p}
      /\ rx_p \notin Pending /\ rx_p \in Structs /\ p \in Pending /\ Sound(Now, Structs)
  BY <1>1, StructsSending DEF Sending, Parsing
<1>3. next \in Nat /\ next >= 1 /\ next <= Len(p_buf) /\ p_buf \in Seq(Nat) /\ Distinct(p_buf) /\ loops = 0
  BY <1>1 DEF Owned, Types, Phases, Apart, Sending
<1>4. PICK t: t = free_packet(Now, rx_p)
  OBVIOUS
<1>5. Sound(t, Pending)
  <2>1. Structs \ {rx_p} = Pending
    BY <1>2
  <2> HIDE DEF Structs
  <2> QED
    BY <1>2, <1>4, <2>1, FreePacketSound
<1>6. PICK u: u = free(t, p)
  OBVIOUS
<1>7. Sound(u, Pending \ {p})
  <2>1. Sound(t, Pending \ {p})
    BY <1>5, SoundOfFewer
  <2>2. Live(t, p) /\ p \notin Pending \ {p}
    BY <1>2, <1>5 DEF Sound
  <2>3. \A q \in Pending \ {p}: payload(t, q) # p
    <3>1. p # NULL
      BY <1>2, <1>5, SoundTypes
    <3> QED
      BY <1>2, <1>5, <3>1 DEF Sound
  <2> HIDE DEF p
  <2> QED
    BY <1>6, <2>1, <2>2, <2>3, FreeSound
<1>8. Now' = u
  BY <1>1, <1>4, <1>6, <1>7, BecomesIs DEF Sound
<1>9. Captured' = {}
  BY <1>1, <1>2 DEF Captured
<1>10. Structs' \subseteq Pending \ {p}
  <2>1. CASE pc' = "idle"
    <3>1. Structs' = {}
      BY <1>1, <1>2, <1>9, <2>1 DEF Structs, Sending, Parsing
    <3> QED
      BY <3>1
  <2>2. CASE pc' = "send" /\ next' = next + 1
    <3>1. Structs' = {p_buf[i] : i \in (next + 1)..Len(p_buf)}
      BY <1>1, <1>2, <1>9, <2>2 DEF Structs, Sending, Parsing, Pending
    <3>2. \A i \in (next + 1)..Len(p_buf): i \in next..Len(p_buf) /\ i # next /\ i \in DOMAIN p_buf /\ next \in DOMAIN p_buf
      BY <1>3
    <3>3. \A i \in (next + 1)..Len(p_buf): p_buf[i] # p
      BY <1>3, <3>2 DEF Distinct
    <3> QED
      BY <3>1, <3>2, <3>3 DEF Pending
  <2> QED
    BY <1>1, <2>1, <2>2
<1>11. InUse'
  <2>1. Sound(u, Structs')
    BY <1>7, <1>10, SoundOfFewer
  <2> QED
    BY <1>8, <2>1 DEF InUse
<1>12. Types'
  BY <1>1, <1>3 DEF Owned, Types, NULL
<1>13. Phases'
  BY <1>1, <1>2, <1>3 DEF Owned, Phases, Sending, Unsent
<1>14. Apart'
  BY <1>1, <1>2, <1>9 DEF Owned, Apart, Parsing, Sending
<1>15. Contents'
  BY <1>1, <1>2 DEF Owned, Contents, Keeps
<1> QED
  BY <1>11, <1>12, <1>13, <1>14, <1>15 DEF Owned

\* The application forgets a burst that has failed: this is where a second try of
\* it, from the first packet, would use packets already freed.
LEMMA GivenUpOwned ==
  ASSUME ~RetryBurst
  PROVE  Owned /\ GivenUp => Owned'
<1> SUFFICES ASSUME Owned, GivenUp PROVE Owned'
  OBVIOUS
<1>1. /\ pc = "given_up" /\ pc' = "idle" /\ rx_p' = NULL /\ Becomes(free_packet(Now, rx_p))
      /\ loops' = loops /\ received' = received /\ captured' = captured /\ contents' = contents
      /\ commands' = commands /\ p_buf' = p_buf /\ next' = next /\ attempt' = attempt
  BY DEF GivenUp, loopVars
<1>2. /\ captured = <<>> /\ commands = {} /\ rx_p \in Structs /\ Sound(Now, Structs)
  BY <1>1, StructsSending DEF Sending, Parsing
<1>3. PICK t: t = free_packet(Now, rx_p)
  OBVIOUS
<1>4. Sound(t, {})
  <2>1. Sound(t, Structs \ {rx_p})
    BY <1>2, <1>3, FreePacketSound
  <2> QED
    BY <2>1, SoundOfFewer
<1>5. Now' = t
  BY <1>1, <1>3, <1>4, BecomesIs DEF Sound
<1>6. Captured' = {}
  BY <1>1, <1>2 DEF Captured
<1>7. Structs' = {}
  BY <1>1, <1>2, <1>6 DEF Structs, Sending, Parsing
<1>8. InUse'
  BY <1>4, <1>5, <1>7 DEF InUse
<1>9. Types'
  BY <1>1 DEF Owned, Types, NULL
<1>10. Phases'
  BY <1>1, StructsSending DEF Owned, Phases, Sending, Unsent
<1>11. Apart'
  BY <1>1, <1>2, <1>6 DEF Owned, Apart, Parsing, Sending
<1>12. Contents'
  BY <1>1, <1>2 DEF Owned, Contents, Keeps
<1> QED
  BY <1>8, <1>9, <1>10, <1>11, <1>12 DEF Owned

LEMMA OwnedInit == Init => Owned
<1> SUFFICES ASSUME Init PROVE Owned
  OBVIOUS
<1>1. Captured = {} /\ Structs = {}
  BY DEF Init, Captured, Structs, Parsing, Sending
<1>2. InUse
  <2>1. heap \in Seq(Blocks) /\ misused \in BOOLEAN /\ ~misused
    <3>1. heap = <<>> /\ misused = FALSE
      BY DEF Init
    <3>2. <<>> \in Seq(Blocks)
      OBVIOUS
    <3> QED
      BY <3>1, <3>2
  <2>2. Now \in Memories /\ ~Now.misused
    BY <2>1, MemoryIs DEF Now
  <2> QED
    BY <1>1, <2>2 DEF InUse, Sound
<1>3. Types /\ Phases /\ Apart
  BY <1>1 DEF Init, Types, Phases, Apart, Sending, Parsing, Distinct, NULL, Unsent
<1>4. Contents
  BY DEF Init, Contents, Keeps
<1> QED
  BY <1>2, <1>3, <1>4 DEF Owned

LEMMA OwnedNext ==
  ASSUME ~RetryBurst
  PROVE  Owned /\ [Next]_vars => Owned'
<1> SUFFICES ASSUME Owned, [Next]_vars PROVE Owned'
  OBVIOUS
<1>1. CASE StartLoop
  BY <1>1, StartLoopOwned
<1>2. CASE ReceiveOther
  BY <1>2, NotKept DEF ReceiveOther
<1>3. CASE ReceiveBegin
  BY <1>3, NotKept DEF ReceiveBegin
<1>4. CASE ReceiveFragment
  BY <1>4, ReceiveFragmentOwned
<1>5. CASE ReceiveCommand
  BY <1>5, ReceiveCommandOwned
<1>6. CASE ReceiveEnd
  BY <1>6, ReceiveEndOwned
<1>7. CASE FreeCommand
  BY <1>7, FreeCommandOwned
<1>8. CASE LoopReturns
  BY <1>8, LoopReturnsOwned
<1>9. CASE Build
  BY <1>9, BuildOwned
<1>10. CASE EnsureAck
  BY <1>10, EnsureAckOwned
<1>11. CASE Attempt
  BY <1>11, AttemptOwned
<1>12. CASE Acknowledged
  BY <1>12, AcknowledgedOwned
<1>13. CASE GivenUp
  BY <1>13, GivenUpOwned
<1>14. CASE UNCHANGED vars
  <2>1. Now' = Now /\ Structs' = Structs /\ Captured' = Captured /\ Pending' = Pending
    BY <1>14 DEF vars, loopVars, sendVars, Now, Structs, Captured, Pending, Parsing, Sending
  <2>2. InUse' /\ Contents'
    BY <1>14, <2>1 DEF Owned, InUse, Contents, vars, loopVars
  <2>3. Types' /\ Phases' /\ Apart'
    BY <1>14, <2>1 DEF Owned, Types, Phases, Apart, Sending, Parsing, Unsent, vars, loopVars, sendVars
  <2> QED
    BY <2>2, <2>3 DEF Owned
<1> QED
  BY <1>1, <1>2, <1>3, <1>4, <1>5, <1>6, <1>7, <1>8, <1>9, <1>10, <1>11, <1>12, <1>13, <1>14 DEF Next

-----------------------------------------------------------------------------
(* The theorems.                                                           *)

\* At every moment the structs in use are live and each has one owner: the loop or
\* the sender's call (rx_p), the handler, the application, or the burst not yet
\* acknowledged.  The application does not send a failed burst again.
THEOREM OwnershipCorrect ==
  ASSUME ~RetryBurst
  PROVE  Spec => []Owned
BY OwnedInit, OwnedNext, PTL DEF Spec

\* Nothing is used or freed after it has been freed (packet.c, free_packet and its
\* callers), however many packets, fragments, attempts and runs of the loop.
THEOREM NoMisuseCorrect ==
  ASSUME ~RetryBurst
  PROVE  Spec => []NoMisuse
<1>1. Owned => NoMisuse
  BY DEF Owned, InUse, Sound, Now, Memory, NoMisuse
<1> QED
  BY <1>1, OwnershipCorrect, PTL

\* What the handler has captured stays as it was when it was received, while rx_p is
\* parsed into and freed.
THEOREM CapturedKeepContentsCorrect ==
  ASSUME ~RetryBurst
  PROVE  Spec => []CapturedKeepContents
<1>1. Owned => CapturedKeepContents
  <2> SUFFICES ASSUME Owned, NEW i \in DOMAIN captured
               PROVE  LET p == captured[i]
                      IN /\ heap[p].live /\ heap[p].content = contents[i]
                         /\ heap[heap[p].payload].live /\ heap[heap[p].payload].content = contents[i]
    BY DEF CapturedKeepContents
  <2>1. Now.heap = heap
    BY DEF Now, Memory
  <2>2. captured[i] \in Structs
    BY StructsIn DEF Captured
  <2>3. Holds(Now, captured[i], contents[i])
    BY DEF Owned, Contents, Keeps
  <2> QED
    BY <2>1, <2>2, <2>3 DEF Owned, InUse, Sound, Live, Holds, payload
<1> QED
  BY <1>1, OwnershipCorrect, PTL
=============================================================================
