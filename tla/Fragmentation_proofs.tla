------------------------ MODULE Fragmentation_proofs ------------------------
(***************************************************************************)
(* The byte level, for data of any length, any packet size and any width   *)
(* of a byte: what is sent is what is parsed, the fragments are those the  *)
(* receiver's capture takes, and they give the data back.                  *)
(***************************************************************************)
EXTENDS Fragmentation, SequenceTheorems, WellFoundedInduction, TLAPS

-----------------------------------------------------------------------------
(* Induction over the natural numbers, in terms of sets.                   *)

LEMMA LeastNumber ==
  ASSUME NEW T, T \subseteq Nat, T # {}
  PROVE  \E x \in T: \A y \in T: x <= y
<1> DEFINE R == OpToRel(<, Nat)
<1>1. IsWellFoundedOn(R, Nat)
  BY Zenon, NatLessThanWellFounded
<1>2. \A x, y \in Nat: <<y, x>> \in R <=> y < x
  BY DEF OpToRel
<1> HIDE DEF R
<1>3. PICK x \in T: \A y \in T: <<y, x>> \notin R
  BY <1>1, WFMin
<1>4. \A y \in T: x \in Nat /\ y \in Nat /\ ~(y < x)
  BY <1>2, <1>3
<1>5. \A y \in T: x <= y
  BY <1>4
<1> QED
  BY <1>5

LEMMA Induction ==
  ASSUME NEW S, 0 \in S, \A n \in Nat: n \in S => n + 1 \in S
  PROVE  Nat \subseteq S
<1> SUFFICES ASSUME Nat \ S # {} PROVE FALSE
  OBVIOUS
<1>1. PICK x \in Nat \ S: \A y \in Nat \ S: x <= y
  BY LeastNumber
<1>2. x - 1 \in Nat /\ (x - 1) + 1 = x /\ ~(x <= x - 1)
  OBVIOUS
<1>3. x - 1 \in S
  BY <1>1, <1>2
<1> QED
  BY <1>2, <1>3

-----------------------------------------------------------------------------
(* Division.                                                               *)

LEMMA Division ==
  ASSUME NEW a \in Nat, NEW b \in Nat, b > 0
  PROVE  /\ a \div b \in Nat /\ a % b \in 0..(b - 1)
         /\ b * (a \div b) <= a /\ a < b * (a \div b) + b
         /\ a = b * (a \div b) + (a % b)
<1>1. b * (a \div b) <= a
  BY SMT
<1>2. a < b * (a \div b) + b
  BY SMT
<1>3. a % b = a - b * (a \div b)
  BY SMT
<1>4. a % b \in 0..(b - 1)
  BY SMT
<1>5. a \div b \in Int
  BY SMT
<1>6. a \div b >= 0
  BY SMT
<1>7. PICK q \in Int: q = a \div b
  BY <1>5
<1>8. PICK r \in Int: r = a % b
  BY <1>4
<1>9. q \in Nat /\ b * q <= a /\ a < b * q + b /\ r = a - b * q /\ r \in 0..(b - 1)
  BY <1>1, <1>2, <1>3, <1>4, <1>6, <1>7, <1>8
<1>10. a = b * q + r
  BY <1>9
<1>11. /\ q \in Nat /\ r \in 0..(b - 1) /\ b * q <= a /\ a < b * q + b /\ a = b * q + r
  BY <1>9, <1>10
<1> QED
  BY Zenon, <1>7, <1>8, <1>11

LEMMA Quotient ==
  ASSUME NEW a \in Nat, NEW b \in Nat, b > 0, NEW q \in Nat, NEW r \in Nat, r < b, a = b * q + r
  PROVE  a \div b = q /\ a % b = r
<1>1. a \div b = q
  BY SMT
<1>2. a % b = r
  BY SMT
<1> QED
  BY <1>1, <1>2

\* What is below the divisor is its own remainder.
LEMMA SmallRemainder ==
  ASSUME NEW a \in Nat, NEW b \in Nat, a < b
  PROVE  a % b = a
<1>1. b > 0 /\ 0 \in Nat /\ a = b * 0 + a
  OBVIOUS
<1> QED
  BY <1>1, Quotient

LEMMA MonotoneProduct ==
  ASSUME NEW b \in Nat, NEW x \in Nat, NEW y \in Nat, x <= y
  PROVE  b * x <= b * y
BY SMT

LEMMA MonotoneQuotient ==
  ASSUME NEW b \in Nat, b > 0, NEW x \in Nat, NEW y \in Nat, b * x < b * y + b
  PROVE  x <= y
BY SMT

-----------------------------------------------------------------------------
(* Bytes.                                                                  *)

LEMMA BaseIs ==
  /\ Base \in Nat /\ Base > 1 /\ UINT8_MAX \in Nat /\ Byte = 0..(Base - 1) /\ 0 \in Byte
  /\ payload_length_max \in Nat /\ payload_length_max > 0 /\ payload_length_max \in Byte
  /\ BufferSize \in Nat /\ BufferSize >= 7 + payload_length_max
BY ByteAssumption, BufferAssumption DEF Base, Byte

\* An address comes back from its two bytes, high byte first.
LEMMA AddressComesBack ==
  ASSUME NEW x \in 0..(Base * Base - 1)
  PROVE  /\ u16_conv_be(x) \in Seq(Byte) /\ Len(u16_conv_be(x)) = 2
         /\ Base * u16_conv_be(x)[1] + u16_conv_be(x)[2] = x
<1>1. Base \in Nat /\ Base > 0 /\ Byte = 0..(Base - 1) /\ x \in Nat /\ x < Base * Base
  <2>1. Base * Base \in Nat
    BY BaseIs
  <2> QED
    BY BaseIs, <2>1
<1> PICK q \in Nat: q = x \div Base
  BY <1>1, Division
<1> PICK r \in Nat: r = x % Base
  BY <1>1, Division
<1>2. r \in Byte /\ Base * q <= x /\ x = Base * q + r
  BY <1>1, Division
<1>3. q < Base
  <2> PICK b \in Nat: b = Base
    BY <1>1
  <2>1. b * q < b * b /\ b > 0
    BY <1>1, <1>2
  <2>2. q < b
    BY <2>1, SMT
  <2> QED
    BY <2>2
<1>4. q % Base = q /\ q \in Byte
  BY <1>1, <1>3, SmallRemainder
<1>5. u16_conv_be(x) = <<q, r>>
  BY <1>4 DEF u16_conv_be
<1>6. <<q, r>> \in Seq(Byte) /\ Len(<<q, r>>) = 2 /\ <<q, r>>[1] = q /\ <<q, r>>[2] = r
  BY <1>2, <1>4
<1>7. Base * q + r = x
  BY <1>2
<1> HIDE DEF Base
<1> QED
  BY <1>5, <1>6, <1>7

-----------------------------------------------------------------------------
(* Packets and frames.                                                     *)

Address == 0..(Base * Base - 1)
Payload == {s \in Seq(Byte) : Len(s) <= payload_length_max}

\* Packets whose fields fit the frame.
Sendable ==
  {packet_constructor(dest, src, id, seq, payload) :
     dest \in Address, src \in Address, id \in Byte, seq \in Byte, payload \in Payload}

\* b is the frame of p, byte by byte.
Frame(p, b) ==
  /\ b \in Seq(Byte) /\ Len(b) = 7 + Len(p.payload) /\ Len(b) \in 7..BufferSize
  /\ Base * b[1] + b[2] = p.dest_address
  /\ Base * b[3] + b[4] = p.src_address
  /\ b[5] = p.ack_id /\ b[6] = p.sequence_number /\ b[7] = Len(p.payload)
  /\ \A i \in 1..Len(p.payload): b[7 + i] = p.payload[i]

\* u is s, of length n, followed by t.
Joins(S, u, s, t, n) ==
  /\ u \in Seq(S) /\ Len(u) = n + Len(t) /\ Len(t) \in Nat
  /\ \A i \in 1..n: u[i] = s[i]
  /\ \A i \in 1..Len(t): u[n + i] = t[i]

LEMMA ConcatLength ==
  ASSUME NEW S, NEW s \in Seq(S), NEW t \in Seq(S)
  PROVE  s \o t \in Seq(S) /\ Len(s \o t) = Len(s) + Len(t)
OBVIOUS

LEMMA ElementsIn ==
  ASSUME NEW S, NEW s \in Seq(S)
  PROVE  \A i \in DOMAIN s: s[i] \in S
OBVIOUS

LEMMA Joined ==
  ASSUME NEW S, NEW s \in Seq(S), NEW t \in Seq(S), NEW n \in Nat, Len(s) = n
  PROVE  Joins(S, s \o t, s, t, n)
<1>1. s \o t \in Seq(S) /\ Len(s \o t) = n + Len(t)
  BY ConcatLength
<1>2. Len(t) \in Nat
  OBVIOUS
<1>3. \A i \in 1..n: (s \o t)[i] = s[i]
  OBVIOUS
<1>4. \A i \in 1..Len(t): (s \o t)[n + i] = t[i]
  <2> TAKE i \in 1..Len(t)
  <2>1. n + i \in 1..(Len(s) + Len(t)) /\ ~(n + i <= Len(s)) /\ (n + i) - Len(s) = i
    BY <1>2
  <2> QED
    BY <2>1
<1> QED
  BY <1>1, <1>2, <1>3, <1>4 DEF Joins

LEMMA FrameBytes ==
  ASSUME NEW p \in Sendable
  PROVE  Frame(p, packet_to_bytestream(p))
<1>1. PICK dest \in Address, src \in Address, id \in Byte, seq \in Byte, payload \in Payload:
        p = packet_constructor(dest, src, id, seq, payload)
  BY DEF Sendable
<1>2. /\ p.dest_address = dest /\ p.src_address = src /\ p.ack_id = id
      /\ p.sequence_number = seq /\ p.payload = payload
  BY <1>1 DEF packet_constructor
<1>3. PICK d: d = u16_conv_be(dest)
  OBVIOUS
<1>4. PICK s: s = u16_conv_be(src)
  OBVIOUS
<1>5. d \in Seq(Byte) /\ Len(d) = 2 /\ Base * d[1] + d[2] = dest
  BY <1>3, AddressComesBack DEF Address
<1>6. s \in Seq(Byte) /\ Len(s) = 2 /\ Base * s[1] + s[2] = src
  BY <1>4, AddressComesBack DEF Address
<1>7. payload \in Seq(Byte) /\ Len(payload) \in Nat /\ Len(payload) <= payload_length_max
  BY DEF Payload
<1>8. Len(payload) \in Byte
  BY <1>7, BaseIs
<1>9. PICK h: h = <<id, seq, Len(payload)>>
  OBVIOUS
<1>10. h \in Seq(Byte) /\ Len(h) = 3 /\ h[1] = id /\ h[2] = seq /\ h[3] = Len(payload)
  BY <1>8, <1>9
<1>11. PICK b: b = d \o s \o h \o payload
  OBVIOUS
<1>12. packet_to_bytestream(p) = b
  BY <1>2, <1>3, <1>4, <1>9, <1>11 DEF packet_to_bytestream
<1>13. PICK a: a = d \o s
  OBVIOUS
<1>14. /\ a \in Seq(Byte) /\ Len(a) = 4
       /\ a[1] = d[1] /\ a[2] = d[2] /\ a[3] = s[1] /\ a[4] = s[2]
  <2>1. Joins(Byte, a, d, s, 2)
    BY <1>5, <1>6, <1>13, Joined
  <2>2. 2 + 2 = 4 /\ 1 \in 1..2 /\ 2 \in 1..2 /\ 2 + 1 = 3
    OBVIOUS
  <2> QED
    BY <1>6, <2>1, <2>2 DEF Joins
<1>15. PICK c: c = a \o h
  OBVIOUS
<1>16. /\ c \in Seq(Byte) /\ Len(c) = 7
       /\ c[1] = a[1] /\ c[2] = a[2] /\ c[3] = a[3] /\ c[4] = a[4]
       /\ c[5] = h[1] /\ c[6] = h[2] /\ c[7] = h[3]
  <2>1. Joins(Byte, c, a, h, 4)
    BY <1>10, <1>14, <1>15, Joined
  <2>2. c[1] = a[1] /\ c[2] = a[2] /\ c[3] = a[3] /\ c[4] = a[4] /\ c \in Seq(Byte) /\ Len(c) = 7
    BY <1>10, <2>1 DEF Joins
  <2>3. c[4 + 1] = h[1] /\ c[4 + 2] = h[2] /\ c[4 + 3] = h[3] /\ 4 + 1 = 5 /\ 4 + 2 = 6 /\ 4 + 3 = 7
    BY <1>10, <2>1 DEF Joins
  <2> QED
    BY <1>10, <2>1, <2>2, <2>3
<1>17. b = c \o payload
  BY <1>11, <1>13, <1>15
<1>18. /\ b \in Seq(Byte) /\ Len(b) = 7 + Len(payload)
       /\ \A i \in 1..7: b[i] = c[i]
       /\ \A i \in 1..Len(payload): b[7 + i] = payload[i]
  <2>1. Joins(Byte, b, c, payload, 7)
    BY <1>7, <1>16, <1>17, Joined
  <2> QED
    BY <2>1 DEF Joins
<1>19. Len(b) \in 7..BufferSize
  BY <1>7, <1>18, BaseIs
<1> QED
  BY <1>2, <1>5, <1>6, <1>10, <1>12, <1>14, <1>16, <1>18, <1>19 DEF Frame

\* Bytes written over a buffer: the first of them come back.
LEMMA WrittenIs ==
  ASSUME NEW b, DOMAIN b = 1..BufferSize, b \in Seq(Byte), NEW s \in Seq(Byte), Len(s) <= BufferSize
  PROVE  /\ Written(b, s) \in Seq(Byte) /\ DOMAIN Written(b, s) = 1..BufferSize
         /\ \A i \in 1..Len(s): Written(b, s)[i] = s[i]
         /\ SubSeq(Written(b, s), 1, Len(s)) = s
<1>1. PICK w: w = Written(b, s)
  OBVIOUS
<1>2. /\ BufferSize \in Nat /\ Len(s) \in Nat
      /\ \A i \in 1..BufferSize: b[i] \in Byte
      /\ \A i \in 1..Len(s): s[i] \in Byte /\ i \in 1..BufferSize
  <2>1. BufferSize \in Nat
    BY BaseIs
  <2>2. Len(s) \in Nat /\ DOMAIN s = 1..Len(s)
    OBVIOUS
  <2>3. (\A i \in 1..BufferSize: b[i] \in Byte) /\ \A i \in 1..Len(s): s[i] \in Byte
    BY <2>2, ElementsIn
  <2>4. \A i \in 1..Len(s): i \in 1..BufferSize
    BY <2>1, <2>2
  <2> QED
    BY <2>1, <2>2, <2>3, <2>4
<1>3. w = [i \in 1..BufferSize |-> IF i <= Len(s) THEN s[i] ELSE b[i]]
  BY <1>1 DEF Written
<1>4. w \in [1..BufferSize -> Byte] /\ \A i \in 1..Len(s): w[i] = s[i]
  BY <1>2, <1>3
<1>5. w \in Seq(Byte) /\ DOMAIN w = 1..BufferSize /\ Len(w) = BufferSize
  BY <1>2, <1>4
<1>6. SubSeq(w, 1, Len(s)) = s
  <2>1. PICK n \in Nat: n = Len(s)
    BY <1>2
  <2>2. PICK t: t = SubSeq(w, 1, n)
    OBVIOUS
  <2>3. \A i \in 1..n: w[i] \in Byte
    BY <1>2, <1>4, <2>1
  <2>4. t \in Seq(Byte) /\ Len(t) = n /\ \A i \in 1..n: t[i] = w[i]
    <3>1. t \in Seq(Byte) /\ Len(t) = IF 1 <= n THEN n - 1 + 1 ELSE 0
      BY <2>2, <2>3, SubSeqProperties
    <3>2. \A i \in 1..(n - 1 + 1): t[i] = w[1 + i - 1]
      BY <2>2, <2>3, SubSeqProperties
    <3>3. n - 1 + 1 = n /\ \A i \in 1..n: 1 + i - 1 = i
      OBVIOUS
    <3> QED
      BY <3>1, <3>2, <3>3
  <2>5. \A i \in 1..n: t[i] = s[i]
    BY <1>4, <2>1, <2>4
  <2>6. t = s
    BY <2>1, <2>4, <2>5, SeqEqual
  <2> QED
    BY <2>1, <2>2, <2>6
<1> QED
  BY <1>1, <1>4, <1>5, <1>6

\* A packet is parsed from its frame, whatever follows the frame in the buffer.
LEMMA ParsedFromFrame ==
  ASSUME NEW p \in Sendable, NEW w \in Seq(Byte), DOMAIN w = 1..BufferSize,
         \A i \in 1..Len(packet_to_bytestream(p)): w[i] = packet_to_bytestream(p)[i]
  PROVE  parse_packet(w) = p
<1>1. PICK dest \in Address, src \in Address, id \in Byte, seq \in Byte, payload \in Payload:
        p = packet_constructor(dest, src, id, seq, payload)
  BY DEF Sendable
<1>2. /\ p.dest_address = dest /\ p.src_address = src /\ p.ack_id = id
      /\ p.sequence_number = seq /\ p.payload = payload
  BY <1>1 DEF packet_constructor
<1>3. PICK n \in Nat: n = Len(payload) /\ payload \in Seq(Byte)
  BY DEF Payload
<1>4. PICK b: b = packet_to_bytestream(p)
  OBVIOUS
<1>5. /\ b \in Seq(Byte) /\ Len(b) = 7 + n /\ 7 + n <= BufferSize
      /\ Base * b[1] + b[2] = dest /\ Base * b[3] + b[4] = src
      /\ b[5] = id /\ b[6] = seq /\ b[7] = n
      /\ \A i \in 1..n: b[7 + i] = payload[i]
  <2>1. Frame(p, b)
    BY <1>4, FrameBytes
  <2> QED
    BY <1>2, <1>3, <2>1 DEF Frame
<1>6. /\ \A i \in 1..7: w[i] = b[i]
      /\ \A i \in 1..n: w[7 + i] = b[7 + i]
      /\ \A i \in 1..(7 + n): w[i] \in Byte
  <2>1. \A i \in 1..(7 + n): w[i] = b[i] /\ i \in 1..BufferSize
    <3>1. 1..(7 + n) \subseteq 1..BufferSize
      BY <1>5, BaseIs
    <3> QED
      BY <1>4, <1>5, <3>1
  <2>2. 1..7 \subseteq 1..(7 + n) /\ \A i \in 1..n: 7 + i \in 1..(7 + n)
    OBVIOUS
  <2>3. \A i \in 1..(7 + n): w[i] \in Byte
    <3>1. \A i \in 1..(7 + n): i \in DOMAIN w
      BY <2>1
    <3> QED
      BY <3>1, ElementsIn
  <2> QED
    BY <2>1, <2>2, <2>3
<1>7. read_u16_be(SubSeq(w, 1, 2)) = dest /\ read_u16_be(SubSeq(w, 3, 4)) = src
  <2>1. SubSeq(w, 1, 2)[1] = w[1] /\ SubSeq(w, 1, 2)[2] = w[2]
    OBVIOUS
  <2>2. SubSeq(w, 3, 4)[1] = w[3] /\ SubSeq(w, 3, 4)[2] = w[4]
    OBVIOUS
  <2> QED
    BY <1>5, <1>6, <2>1, <2>2 DEF read_u16_be
<1>8. w[5] = id /\ w[6] = seq /\ w[7] = n
  BY <1>5, <1>6
<1>9. SubSeq(w, 8, 7 + n) = payload
  <2>1. PICK t: t = SubSeq(w, 8, 7 + n)
    OBVIOUS
  <2>2. \A i \in 8..(7 + n): w[i] \in Byte
    BY <1>6
  <2>3. t \in Seq(Byte) /\ Len(t) = n /\ \A i \in 1..n: t[i] = w[7 + i]
    <3>1. t \in Seq(Byte) /\ Len(t) = IF 8 <= 7 + n THEN (7 + n) - 8 + 1 ELSE 0
      BY <2>1, <2>2, SubSeqProperties
    <3>2. \A i \in 1..((7 + n) - 8 + 1): t[i] = w[8 + i - 1]
      BY <2>1, <2>2, SubSeqProperties
    <3>3. (7 + n) - 8 + 1 = n /\ \A i \in 1..n: 8 + i - 1 = 7 + i
      OBVIOUS
    <3> QED
      BY <3>1, <3>2, <3>3
  <2>4. \A i \in 1..n: t[i] = payload[i]
    BY <1>5, <1>6, <2>3
  <2>5. t = payload
    BY <1>3, <2>3, <2>4, SeqEqual
  <2> QED
    BY <2>1, <2>5
<1> QED
  BY <1>1, <1>7, <1>8, <1>9 DEF parse_packet

-----------------------------------------------------------------------------
(* The packets of some data.                                               *)

TypedInputs ==
  /\ data \in Seq(Byte) /\ framed \in BOOLEAN
  /\ dest_addr \in Address /\ src_addr \in Address /\ ack_id \in Byte

Fragment(i) ==
  packet_constructor(dest_addr, src_addr, ack_id, SequenceNumber(i),
    SubSeq(data, i * payload_length_max + 1,
           Smaller((i + 1) * payload_length_max, Len(data))))

Handshake(seq) == packet_constructor(dest_addr, src_addr, ack_id, seq, <<>>)

Fragments == [i \in 1..npackets(Len(data)) |-> Fragment(i - 1)]

LEMMA PacketsAre ==
  data_to_packet_array =
    IF framed THEN <<Handshake(0)>> \o Fragments \o <<Handshake(UINT8_MAX)>> ELSE Fragments
BY DEF data_to_packet_array, Fragments, Fragment, Handshake

\* As many packets as it takes: the last of them is not empty, and they hold it all.
LEMMA PacketsNeeded ==
  ASSUME NEW len \in Nat
  PROVE  /\ npackets(len) \in Nat
         /\ len <= payload_length_max * npackets(len)
         /\ npackets(len) > 0 => payload_length_max * (npackets(len) - 1) < len
         /\ len > 0 => npackets(len) > 0
<1> PICK m \in Nat: m = payload_length_max /\ m > 0
  BY BaseIs
<1> PICK n: n = npackets(len)
  OBVIOUS
<1>1. len + m - 1 \in Nat /\ n = (len + m - 1) \div m
  BY DEF npackets
<1>2. n \in Nat /\ m * n <= len + m - 1 /\ len + m - 1 < m * n + m
  BY <1>1, Division
<1>3. len <= m * n
  <2> PICK x \in Nat: x = m * n
    BY <1>2
  <2>1. len + m - 1 < x + m
    BY <1>2
  <2> QED
    BY <2>1
<1>4. n > 0 => m * (n - 1) < len
  <2> SUFFICES ASSUME n > 0 PROVE m * (n - 1) < len
    OBVIOUS
  <2>1. m * (n - 1) = m * n - m
    BY <1>2
  <2> PICK x \in Nat: x = m * n
    BY <1>2
  <2>2. x <= len + m - 1
    BY <1>2
  <2> QED
    BY <2>1, <2>2
<1>5. len > 0 => n > 0
  <2>1. n = 0 => m * n = 0
    BY <1>2
  <2> QED
    BY <1>2, <1>3, <2>1
<1> QED
  BY <1>2, <1>3, <1>4, <1>5

\* Where fragment i, counted from 0, starts and ends in the data.
LEMMA FragmentBounds ==
  ASSUME data \in Seq(Byte), NEW i \in Nat, i < npackets(Len(data))
  PROVE  /\ i * payload_length_max \in Nat
         /\ i * payload_length_max + 1 <= Smaller((i + 1) * payload_length_max, Len(data))
         /\ Smaller((i + 1) * payload_length_max, Len(data)) <= Len(data)
         /\ Smaller((i + 1) * payload_length_max, Len(data)) <= i * payload_length_max + payload_length_max
         /\ Smaller((i + 1) * payload_length_max, Len(data)) \in Nat
<1> PICK m \in Nat: m = payload_length_max /\ m > 0
  BY BaseIs
<1> PICK l \in Nat: l = Len(data)
  OBVIOUS
<1> PICK n: n = npackets(l)
  OBVIOUS
<1>1. n \in Nat /\ l <= m * n /\ (n > 0 => m * (n - 1) < l) /\ i < n
  BY PacketsNeeded
<1>2. m * i <= m * (n - 1)
  <2>1. i <= n - 1 /\ n - 1 \in Nat
    BY <1>1
  <2> QED
    BY <2>1, MonotoneProduct
<1>3. m * i < l
  <2>1. m * i \in Nat /\ m * (n - 1) \in Int /\ m * (n - 1) < l
    BY <1>1
  <2> QED
    BY <1>2, <2>1
<1>4. (i + 1) * m = m * i + m /\ i * m = m * i
  OBVIOUS
<1> PICK x \in Nat: x = m * i
  OBVIOUS
<1>5. x < l /\ (i + 1) * m = x + m /\ i * m = x
  BY <1>3, <1>4
<1>6. Smaller(x + m, l) = IF x + m < l THEN x + m ELSE l
  BY DEF Smaller
<1> QED
  BY <1>5, <1>6

LEMMA SequenceNumberIs ==
  ASSUME NEW i \in Nat
  PROVE  SequenceNumber(i) \in Byte
<1> PICK o \in Nat: o = IF framed THEN 1 ELSE 0
  OBVIOUS
<1>1. o + i \in Nat /\ Base \in Nat /\ Base > 0 /\ Byte = 0..(Base - 1)
  BY BaseIs
<1>2. (o + i) % Base \in 0..(Base - 1)
  BY <1>1, Division
<1> QED
  BY <1>1, <1>2 DEF SequenceNumber

LEMMA FragmentIs ==
  ASSUME TypedInputs, NEW i \in Nat, i < npackets(Len(data))
  PROVE  /\ Fragment(i) \in Sendable
         /\ Len(Fragment(i).payload) \in 1..payload_length_max
         /\ Fragment(i).sequence_number = SequenceNumber(i)
         /\ Fragment(i).payload = SubSeq(data, i * payload_length_max + 1,
                                         Smaller((i + 1) * payload_length_max, Len(data)))
<1> DEFINE m == payload_length_max
           x == i * m
           e == Smaller((i + 1) * m, Len(data))
<1>1. m \in Nat /\ m > 0 /\ data \in Seq(Byte) /\ Len(data) \in Nat
  BY BaseIs DEF TypedInputs
<1>2. x \in Nat /\ x + 1 <= e /\ e <= Len(data) /\ e <= x + m /\ e \in Nat
  BY <1>1, FragmentBounds
<1>3. PICK s: s = SubSeq(data, x + 1, e)
  OBVIOUS
<1>4. Fragment(i) = packet_constructor(dest_addr, src_addr, ack_id, SequenceNumber(i), s)
  BY <1>3 DEF Fragment
<1> HIDE DEF x, e, m
<1>5. s \in Seq(Byte) /\ Len(s) \in 1..m
  <2>1. \A j \in (x + 1)..e: j \in DOMAIN data
    BY <1>1, <1>2
  <2>2. \A j \in (x + 1)..e: data[j] \in Byte
    BY <1>1, <2>1, ElementsIn
  <2>3. x + 1 \in Int /\ e \in Int
    BY <1>2
  <2>4. s \in Seq(Byte) /\ Len(s) = IF x + 1 <= e THEN e - (x + 1) + 1 ELSE 0
    BY <1>3, <2>2, <2>3, SubSeqProperties
  <2> QED
    BY <1>1, <1>2, <2>4
<1>6. s \in Payload
  BY <1>1, <1>5 DEF Payload, m
<1>7. Fragment(i) \in Sendable
  BY <1>4, <1>6, SequenceNumberIs DEF Sendable, TypedInputs
<1>8. Fragment(i).payload = s /\ Fragment(i).sequence_number = SequenceNumber(i)
  BY <1>4 DEF packet_constructor
<1> QED
  BY <1>3, <1>5, <1>7, <1>8 DEF x, e, m

LEMMA HandshakeIs ==
  ASSUME TypedInputs, NEW seq \in Byte
  PROVE  Handshake(seq) \in Sendable /\ Handshake(seq).sequence_number = seq /\ Handshake(seq).payload = <<>>
<1>1. <<>> \in Payload
  <2>1. <<>> \in Seq(Byte) /\ Len(<<>>) = 0
    OBVIOUS
  <2> QED
    BY <2>1, BaseIs DEF Payload
<1>2. Handshake(seq) \in Sendable
  BY <1>1 DEF Handshake, Sendable, TypedInputs
<1>3. Handshake(seq).sequence_number = seq /\ Handshake(seq).payload = <<>>
  BY DEF Handshake, packet_constructor
<1> QED
  BY <1>2, <1>3

LEMMA FragmentsAre ==
  ASSUME TypedInputs, NEW n, n = npackets(Len(data))
  PROVE  /\ n \in Nat /\ Fragments \in Seq(Sendable) /\ Len(Fragments) = n
         /\ \A i \in 1..n: Fragments[i] = Fragment(i - 1) /\ i - 1 \in Nat /\ i - 1 < n
<1>1. n \in Nat
  <2>1. Len(data) \in Nat
    BY DEF TypedInputs
  <2> QED
    BY <2>1, PacketsNeeded
<1>2. PICK f: f = Fragments
  OBVIOUS
<1>3. f = [i \in 1..n |-> Fragment(i - 1)]
  BY <1>2 DEF Fragments
<1>4. \A i \in 1..n: i - 1 \in Nat /\ i - 1 < n
  BY <1>1
<1>5. \A i \in 1..n: f[i] = Fragment(i - 1) /\ f[i] \in Sendable
  BY <1>3, <1>4, FragmentIs
<1>6. f \in [1..n -> Sendable]
  BY <1>3, <1>5
<1>7. f \in Seq(Sendable) /\ Len(f) = n
  BY <1>1, <1>6
<1> QED
  BY <1>1, <1>2, <1>4, <1>5, <1>7

\* With handshakes: BEGIN, the fragments, END.
LEMMA FramedPackets ==
  ASSUME TypedInputs, framed, p_buf = data_to_packet_array, NEW n, n = npackets(Len(data))
  PROVE  /\ n \in Nat /\ p_buf \in Seq(Sendable) /\ Len(p_buf) = n + 2
         /\ p_buf[1] = Handshake(0) /\ p_buf[n + 2] = Handshake(UINT8_MAX)
         /\ \A i \in 1..n: p_buf[i + 1] = Fragment(i - 1)
<1>1. PICK f: f = Fragments
  OBVIOUS
<1>2. n \in Nat /\ f \in Seq(Sendable) /\ Len(f) = n /\ \A i \in 1..n: f[i] = Fragment(i - 1)
  BY <1>1, FragmentsAre
<1>3. 0 \in Byte /\ UINT8_MAX \in Byte
  BY BaseIs DEF Base
<1>4. PICK b: b = <<Handshake(0)>>
  OBVIOUS
<1>5. PICK e: e = <<Handshake(UINT8_MAX)>>
  OBVIOUS
<1>6. b \in Seq(Sendable) /\ Len(b) = 1 /\ b[1] = Handshake(0)
  BY <1>3, <1>4, HandshakeIs
<1>7. e \in Seq(Sendable) /\ Len(e) = 1 /\ e[1] = Handshake(UINT8_MAX)
  BY <1>3, <1>5, HandshakeIs
<1>8. p_buf = (b \o f) \o e
  BY <1>1, <1>4, <1>5, PacketsAre
<1>9. PICK c: c = b \o f
  OBVIOUS
<1>10. Joins(Sendable, c, b, f, 1)
  BY <1>2, <1>6, <1>9, Joined
<1>11. c \in Seq(Sendable) /\ Len(c) = n + 1 /\ n + 1 \in Nat /\ c[1] = Handshake(0)
       /\ \A i \in 1..n: c[1 + i] = Fragment(i - 1)
  BY <1>2, <1>6, <1>10 DEF Joins
<1>12. Joins(Sendable, c \o e, c, e, n + 1)
  BY <1>7, <1>11, Joined
<1>13. Joins(Sendable, p_buf, c, e, n + 1)
  BY <1>8, <1>9, <1>12
<1>14. p_buf \in Seq(Sendable) /\ Len(p_buf) = n + 2
  BY <1>2, <1>7, <1>13 DEF Joins
<1>15. p_buf[1] = Handshake(0)
  <2>1. 1 \in 1..(n + 1)
    BY <1>2
  <2> QED
    BY <1>11, <1>13, <2>1 DEF Joins
<1>16. \A i \in 1..n: p_buf[i + 1] = Fragment(i - 1)
  <2> TAKE i \in 1..n
  <2>1. i + 1 \in 1..(n + 1) /\ i + 1 = 1 + i
    BY <1>2
  <2> QED
    BY <1>11, <1>13, <2>1 DEF Joins
<1>17. p_buf[n + 2] = Handshake(UINT8_MAX)
  <2>1. (n + 1) + 1 = n + 2 /\ 1 \in 1..1
    BY <1>2
  <2> QED
    BY <1>7, <1>13, <2>1 DEF Joins
<1> QED
  BY <1>2, <1>14, <1>15, <1>16, <1>17

LEMMA BuiltIs ==
  ASSUME p_buf \in Built
  PROVE  p_buf = data_to_packet_array \/ (data = <<>> /\ p_buf = <<>>)
BY DEF Built

LEMMA PacketsAreSendable ==
  ASSUME TypedInputs, p_buf \in Built
  PROVE  p_buf \in Seq(Sendable)
<1>1. CASE p_buf = data_to_packet_array /\ framed
  BY <1>1, FramedPackets
<1>2. CASE p_buf = data_to_packet_array /\ ~framed
  BY <1>2, PacketsAre, FragmentsAre
<1>3. CASE p_buf = <<>>
  BY <1>3
<1> QED
  BY <1>1, <1>2, <1>3, BuiltIs

-----------------------------------------------------------------------------
(* Putting the fragments together.                                         *)

\* The payloads of all fragments, one after the other, are the data.
LEMMA Reassembled ==
  ASSUME TypedInputs, NEW ps \in Seq(Sendable), Len(ps) = npackets(Len(data)),
         \A i \in 1..Len(ps): ps[i] = Fragment(i - 1)
  PROVE  packet_array_to_data(ps) = data
<1> PICK n: n = Len(ps)
  OBVIOUS
<1> PICK m \in Nat: m = payload_length_max /\ m > 0
  BY BaseIs
<1> PICK l \in Nat: l = Len(data) /\ data \in Seq(Byte)
  BY DEF TypedInputs
<1> DEFINE End(i) == Smaller(i * m, l)
           Start(i) == (i - 1) * m + 1
<1>1. n \in Nat /\ l <= m * n /\ (l > 0 => n > 0) /\ (n > 0 => m * (n - 1) < l)
  <2>1. n = npackets(l)
    OBVIOUS
  <2>2. /\ npackets(l) \in Nat /\ l <= payload_length_max * npackets(l)
        /\ npackets(l) > 0 => payload_length_max * (npackets(l) - 1) < l
        /\ l > 0 => npackets(l) > 0
    BY Zenon, PacketsNeeded
  <2> QED
    BY <2>1, <2>2, Zenon
<1>2. PICK seqs: seqs = [i \in DOMAIN ps |-> ps[i].payload]
  OBVIOUS
<1>3. seqs = [i \in 1..n |-> ps[i].payload]
  BY <1>1, <1>2
<1>4. \A i \in 1..n: seqs[i] = SubSeq(data, Start(i), End(i))
  <2> TAKE i \in 1..n
  <2>1. i - 1 \in Nat /\ i - 1 < npackets(Len(data)) /\ (i - 1) + 1 = i
    BY <1>1
  <2>2. Fragment(i - 1).payload = SubSeq(data, (i - 1) * m + 1, Smaller(((i - 1) + 1) * m, l))
    BY <2>1, FragmentIs
  <2> QED
    BY <1>3, <2>1, <2>2
<1>5. Len(seqs) = n
  BY <1>1, <1>3
<1>6. \A i \in 1..n: End(i) \in Nat /\ Start(i) \in Nat /\ Start(i) <= End(i) /\ End(i) <= l
  <2> TAKE i \in 1..n
  <2>1. i - 1 \in Nat /\ i - 1 < npackets(Len(data)) /\ (i - 1) + 1 = i
    BY <1>1
  <2>2. (i - 1) * m \in Nat /\ (i - 1) * m + 1 <= Smaller(((i - 1) + 1) * m, l)
        /\ Smaller(((i - 1) + 1) * m, l) <= l /\ Smaller(((i - 1) + 1) * m, l) \in Nat
    BY <2>1, FragmentBounds
  <2> QED
    BY <2>1, <2>2
<1>7. \A i \in 1..n: i # 1 => Start(i) = End(i - 1) + 1
  <2> SUFFICES ASSUME NEW i \in 1..n, i # 1 PROVE Start(i) = End(i - 1) + 1
    OBVIOUS
  <2>1. (i - 1) * m + 1 <= End(i) /\ End(i) <= l /\ End(i) \in Nat
    BY <1>6
  <2> PICK x \in Nat: x = (i - 1) * m
    <3>1. i - 1 \in Nat
      BY <1>1
    <3> QED
      BY <3>1
  <2>2. x < l
    BY <2>1
  <2> QED
    BY <2>2 DEF Smaller
<1>8. n > 0 => Start(1) = 1 /\ End(n) = l
  <2>1. (1 - 1) * m + 1 = 1
    OBVIOUS
  <2>2. End(n) = l
    <3> PICK x \in Nat: x = n * m
      BY <1>1
    <3>1. l <= x
      <4>1. n * m = m * n
        BY <1>1
      <4> QED
        BY <1>1, <4>1
    <3> QED
      BY <3>1 DEF Smaller
  <2> QED
    BY <2>1, <2>2
<1> HIDE DEF End, Start
<1>9. CASE n = 0
  <2>1. seqs = <<>>
    BY <1>3, <1>9
  <2>2. packet_array_to_data(ps) = seqs
    BY <1>2, <1>5, <1>9 DEF packet_array_to_data, FlattenSeq
  <2>3. l = 0
    BY <1>1, <1>9
  <2>4. data = <<>>
    <3>1. <<>> \in Seq(Byte) /\ Len(<<>>) = 0 /\ Len(data) = 0 /\ \A i \in 1..0: data[i] = <<>>[i]
      BY <2>3
    <3> QED
      BY <3>1, SeqEqual
  <2> QED
    BY <2>1, <2>2, <2>4
<1>10. CASE n > 0
  <2> DEFINE Flattens(f) == f = [i \in 1..n |-> IF i = 1 THEN seqs[i] ELSE f[i - 1] \o seqs[i]]
  <2>1. PICK f: f = CHOOSE g: Flattens(g)
    OBVIOUS
  <2>2. packet_array_to_data(ps) = f[n]
    <3>1. packet_array_to_data(ps) = FlattenSeq(seqs)
      BY <1>2 DEF packet_array_to_data
    <3>2. Len(seqs) = n /\ n # 0
      BY <1>1, <1>5, <1>10
    <3> QED
      BY <2>1, <3>1, <3>2 DEF FlattenSeq
  <2>3. \A i \in 1..n: i # 1 => SubSeq(data, 1, End(i - 1)) \o seqs[i] = SubSeq(data, 1, End(i))
    <3> SUFFICES ASSUME NEW i \in 1..n, i # 1
                 PROVE  SubSeq(data, 1, End(i - 1)) \o SubSeq(data, Start(i), End(i)) = SubSeq(data, 1, End(i))
      BY <1>4
    <3>1. i - 1 \in 1..n
      BY <1>1
    <3> PICK a: a = End(i - 1)
      OBVIOUS
    <3> PICK b: b = End(i)
      OBVIOUS
    <3>2. Start(i) = a + 1 /\ a \in Nat /\ b \in Nat /\ a + 1 <= b /\ b <= l
      BY <1>6, <1>7, <3>1
    <3>3. 1 \in 1..(Len(data) + 1) /\ a \in (1 - 1)..Len(data) /\ b \in a..Len(data)
      BY <3>2
    <3>4. SubSeq(data, 1, a) \o SubSeq(data, a + 1, b) = SubSeq(data, 1, b)
      BY <3>3, ConcatAdjacentSubSeq
    <3> QED
      BY <3>2, <3>4
  <2>4. n > 0 => seqs[1] = SubSeq(data, 1, End(1))
    <3>1. 1 \in 1..n
      BY <1>1, <1>10
    <3> QED
      BY <1>4, <1>8, <3>1
  <2>5. Flattens(f)
    <3>1. PICK g: g = [i \in 1..n |-> SubSeq(data, 1, End(i))]
      OBVIOUS
    <3>2. \A i \in 1..n: SubSeq(data, 1, End(i)) = IF i = 1 THEN seqs[i] ELSE g[i - 1] \o seqs[i]
      <4> TAKE i \in 1..n
      <4>1. CASE i = 1
        BY <1>10, <2>4, <4>1
      <4>2. CASE i # 1
        <5>1. i - 1 \in 1..n
          BY <1>1, <4>2
        <5>2. g[i - 1] = SubSeq(data, 1, End(i - 1))
          BY <3>1, <5>1
        <5> QED
          BY <2>3, <4>2, <5>2
      <4> QED
        BY <4>1, <4>2
    <3>3. Flattens(g)
      BY <3>1, <3>2
    <3> QED
      BY <2>1, <3>3
  <2> DEFINE T == {i \in Nat: i + 1 <= n => f[i + 1] = SubSeq(data, 1, End(i + 1))}
  <2>6. \A i \in 1..n: f[i] = IF i = 1 THEN seqs[i] ELSE f[i - 1] \o seqs[i]
    BY <2>5
  <2> HIDE DEF Flattens
  <2>7. 0 \in T
    <3>1. 0 + 1 = 1 /\ 1 \in 1..n
      BY <1>1, <1>10
    <3>2. f[1] = SubSeq(data, 1, End(1))
      BY <1>10, <2>4, <2>6, <3>1
    <3> QED
      BY <3>1, <3>2
  <2>8. \A i \in Nat: i \in T => i + 1 \in T
    <3> SUFFICES ASSUME NEW i \in Nat, i \in T, (i + 1) + 1 <= n
                 PROVE  f[(i + 1) + 1] = SubSeq(data, 1, End((i + 1) + 1))
      OBVIOUS
    <3>1. f[i + 1] = SubSeq(data, 1, End(i + 1))
      BY <1>1
    <3>2. PICK j: j = (i + 1) + 1
      OBVIOUS
    <3>3. j \in 1..n /\ j # 1 /\ j - 1 = i + 1
      BY <1>1, <3>2
    <3>4. f[j] = f[j - 1] \o seqs[j]
      BY <2>6, <3>3
    <3> QED
      BY <2>3, <3>1, <3>2, <3>3, <3>4
  <2> HIDE DEF T
  <2>9. n - 1 \in Nat /\ (n - 1) + 1 = n
    BY <1>1, <1>10
  <2>10. n - 1 \in T
    BY <2>7, <2>8, <2>9, Induction
  <2>11. f[n] = SubSeq(data, 1, l)
    <3>1. f[(n - 1) + 1] = SubSeq(data, 1, End((n - 1) + 1))
      BY <1>1, <1>10, <2>9, <2>10 DEF T
    <3>2. End(n) = l
      BY <1>8, <1>10
    <3> QED
      BY <2>9, <3>1, <3>2
  <2> QED
    BY <2>2, <2>11, SubSeqFull
<1> QED
  BY <1>1, <1>9, <1>10

-----------------------------------------------------------------------------
(* The invariant and the theorems.                                         *)

\* What the buffers hold between two packets.
Carried ==
  /\ TypedInputs
  /\ p_buf \in Built
  /\ next \in Nat /\ next >= 1 /\ next <= Len(p_buf) + 1
  /\ tx_buffer \in Seq(Byte) /\ DOMAIN tx_buffer = 1..BufferSize
  /\ rx_buffer = Zeroed
  /\ air # <<>> => next <= Len(p_buf) /\ air = packet_to_bytestream(p_buf[next])
  /\ ParsedAsSent

LEMMA ZeroedIs == Zeroed \in Seq(Byte) /\ DOMAIN Zeroed = 1..BufferSize
<1>1. Zeroed \in [1..BufferSize -> Byte]
  BY BaseIs DEF Zeroed
<1> QED
  BY <1>1, BaseIs DEF Zeroed

LEMMA CarriedInit == Init => Carried
<1> SUFFICES ASSUME Init PROVE Carried
  OBVIOUS
<1>1. TypedInputs
  BY InputAssumption DEF Init, TypedInputs, Address
<1>2. p_buf \in Built
  BY DEF Init
<1>3. Len(p_buf) \in Nat
  BY <1>1, <1>2, PacketsAreSendable
<1>4. tx_buffer = Zeroed /\ rx_buffer = Zeroed /\ air = <<>> /\ next = 1 /\ parsed = <<>>
  BY DEF Init
<1>5. ParsedAsSent
  <2>1. SubSeq(p_buf, 1, 0) = <<>>
    BY SubSeqEmpty
  <2> QED
    BY <1>4, <2>1 DEF ParsedAsSent
<1> QED
  BY <1>1, <1>2, <1>3, <1>4, <1>5, ZeroedIs DEF Carried

\* Nothing but the buffers and what has been received changes.
LEMMA Constant ==
  ASSUME Carried, UNCHANGED <<inputVars, p_buf>>
  PROVE  TypedInputs' /\ (p_buf \in Built)'
<1>1. data_to_packet_array' = data_to_packet_array
  BY DEF inputVars, data_to_packet_array, SequenceNumber
<1>2. Built' = Built
  BY <1>1 DEF Built, inputVars
<1> QED
  BY <1>1, <1>2 DEF Carried, inputVars, TypedInputs

LEMMA CarriedSend == Carried /\ Send => Carried'
<1> SUFFICES ASSUME Carried, Send PROVE Carried'
  OBVIOUS
<1>1. /\ next <= Len(p_buf) /\ UNCHANGED <<inputVars, p_buf>> /\ next' = next
      /\ rx_buffer' = rx_buffer /\ parsed' = parsed
  BY DEF Send
<1>2. p_buf \in Seq(Sendable) /\ next \in 1..Len(p_buf)
  BY <1>1, PacketsAreSendable DEF Carried
<1>3. PICK b: b = packet_to_bytestream(p_buf[next])
  OBVIOUS
<1>4. p_buf[next] \in Sendable
  BY <1>2, ElementsIn
<1>5. Frame(p_buf[next], b)
  BY <1>3, <1>4, FrameBytes
<1>6. b \in Seq(Byte) /\ Len(b) <= BufferSize
  BY <1>5, BaseIs DEF Frame
<1>7. tx_buffer' = Written(tx_buffer, b) /\ air' = SubSeq(Written(tx_buffer, b), 1, Len(b))
  BY <1>3 DEF Send
<1>8. tx_buffer' \in Seq(Byte) /\ DOMAIN tx_buffer' = 1..BufferSize /\ air' = b
  BY <1>6, <1>7, WrittenIs DEF Carried
<1>9. TypedInputs' /\ (p_buf \in Built)'
  BY <1>1, Constant
<1>10. ParsedAsSent'
  BY <1>1 DEF Carried, ParsedAsSent
<1>11. air' = packet_to_bytestream(p_buf[next])'
  BY <1>1, <1>3, <1>8 DEF packet_to_bytestream
<1> QED
  BY <1>1, <1>8, <1>9, <1>10, <1>11 DEF Carried

LEMMA CarriedRead == Carried /\ Read => Carried'
<1> SUFFICES ASSUME Carried, Read PROVE Carried'
  OBVIOUS
<1>1. /\ air # <<>> /\ UNCHANGED <<inputVars, p_buf>> /\ tx_buffer' = tx_buffer /\ rx_buffer' = Zeroed
      /\ air' = <<>> /\ next' = next + 1 /\ parsed' = Append(parsed, parse_packet(Written(Zeroed, air)))
  BY DEF Read, Carried
<1>2. /\ next <= Len(p_buf) /\ next \in Nat /\ next >= 1 /\ air = packet_to_bytestream(p_buf[next])
      /\ parsed = SubSeq(p_buf, 1, next - 1)
  BY <1>1 DEF Carried, ParsedAsSent
<1>3. p_buf \in Seq(Sendable) /\ next \in 1..Len(p_buf)
  BY <1>2, PacketsAreSendable DEF Carried
<1>4. p_buf[next] \in Sendable
  BY <1>3, ElementsIn
<1>5. Frame(p_buf[next], air)
  BY <1>2, <1>4, FrameBytes
<1>6. air \in Seq(Byte) /\ Len(air) <= BufferSize
  BY <1>5, BaseIs DEF Frame
<1>7. PICK w: w = Written(Zeroed, air)
  OBVIOUS
<1>8. w \in Seq(Byte) /\ DOMAIN w = 1..BufferSize /\ \A i \in 1..Len(air): w[i] = air[i]
  BY <1>6, <1>7, ZeroedIs, WrittenIs
<1>9. parse_packet(w) = p_buf[next]
  BY <1>2, <1>4, <1>8, ParsedFromFrame
<1>10. parsed' = SubSeq(p_buf, 1, next)
  <2>1. SubSeq(p_buf, 1, next) = SubSeq(p_buf, 1, next - 1) \o <<p_buf[next]>>
    <3>1. 1 \in 1..Len(p_buf) /\ next \in 1..Len(p_buf)
      BY <1>3
    <3> QED
      BY <1>3, <3>1, SubSeqRecursiveSecond
  <2>2. \A i \in 1..(next - 1): p_buf[i] \in Sendable
    <3>1. \A i \in 1..(next - 1): i \in DOMAIN p_buf
      BY <1>3
    <3> QED
      BY <1>3, <3>1, ElementsIn
  <2>3. parsed \in Seq(Sendable)
    <3>1. 1 \in Int /\ next - 1 \in Int
      BY <1>2
    <3> QED
      BY <1>2, <2>2, <3>1, SubSeqProperties
  <2>4. Append(parsed, p_buf[next]) = parsed \o <<p_buf[next]>>
    BY <1>4, <2>3
  <2> QED
    BY <1>1, <1>2, <1>7, <1>9, <2>1, <2>4
<1>11. ParsedAsSent'
  <2>1. next' - 1 = next /\ p_buf' = p_buf
    BY <1>1, <1>2
  <2> QED
    BY <1>10, <2>1 DEF ParsedAsSent
<1>12. TypedInputs' /\ (p_buf \in Built)'
  BY <1>1, Constant
<1>13. next' \in Nat /\ next' >= 1 /\ next' <= Len(p_buf') + 1
  BY <1>1, <1>2, <1>3
<1>14. tx_buffer' \in Seq(Byte) /\ DOMAIN tx_buffer' = 1..BufferSize
  BY <1>1 DEF Carried
<1>15. rx_buffer' = Zeroed' /\ air' = <<>>
  BY <1>1 DEF Zeroed
<1> QED
  BY <1>11, <1>12, <1>13, <1>14, <1>15 DEF Carried

LEMMA CarriedNext == Carried /\ [Next]_vars => Carried'
<1> SUFFICES ASSUME Carried, [Next]_vars PROVE Carried'
  OBVIOUS
<1>1. CASE Send
  BY <1>1, CarriedSend
<1>2. CASE Read
  BY <1>2, CarriedRead
<1>3. CASE UNCHANGED vars
  <2>1. TypedInputs' /\ (p_buf \in Built)'
    BY <1>3, Constant DEF vars
  <2>2. /\ next' = next /\ tx_buffer' = tx_buffer /\ rx_buffer' = rx_buffer /\ air' = air
        /\ p_buf' = p_buf /\ parsed' = parsed /\ Zeroed' = Zeroed
    BY <1>3 DEF vars, Zeroed
  <2>3. ParsedAsSent'
    BY <2>2 DEF Carried, ParsedAsSent
  <2>4. packet_to_bytestream(p_buf[next])' = packet_to_bytestream(p_buf[next])
    BY <2>2 DEF packet_to_bytestream
  <2> QED
    BY <2>1, <2>2, <2>3, <2>4 DEF Carried
<1> QED
  BY <1>1, <1>2, <1>3 DEF Next

LEMMA CarriedCorrect == Spec => []Carried
BY CarriedInit, CarriedNext, PTL DEF Spec

\* Every packet is parsed as it was sent, whatever is left in the buffers by those
\* before it (sx_1278_send_packet, read_last_packet, parse_packet).
THEOREM ParsedAsSentCorrect == Spec => []ParsedAsSent
<1>1. Carried => ParsedAsSent
  BY DEF Carried
<1> QED
  BY <1>1, CarriedCorrect, PTL

\* Data of any length, none and incomplete last fragments included, is put together
\* again from what was received (data_to_packet_array, packet_array_to_data).
THEOREM DataIsReassembledCorrect == Spec => []DataIsReassembled
<1>1. Carried => DataIsReassembled
  <2> SUFFICES ASSUME Carried, next > Len(p_buf)
               PROVE  packet_array_to_data(IF framed THEN SubSeq(parsed, 2, Len(parsed) - 1) ELSE parsed) = data
    BY DEF DataIsReassembled
  <2>1. p_buf \in Seq(Sendable) /\ TypedInputs /\ p_buf \in Built
    BY PacketsAreSendable DEF Carried
  <2>2. parsed = p_buf
    <3>1. next - 1 = Len(p_buf)
      BY <2>1 DEF Carried
    <3>2. SubSeq(p_buf, 1, Len(p_buf)) = p_buf
      BY <2>1, SubSeqFull
    <3> QED
      BY <3>1, <3>2 DEF Carried, ParsedAsSent
  <2>3. PICK n: n = npackets(Len(data))
    OBVIOUS
  <2>4. CASE p_buf = data_to_packet_array /\ framed
    <3>1. /\ n \in Nat /\ Len(p_buf) = n + 2
          /\ \A i \in 1..n: p_buf[i + 1] = Fragment(i - 1)
      BY <2>1, <2>3, <2>4, FramedPackets
    <3>2. PICK s: s = SubSeq(p_buf, 2, n + 1)
      OBVIOUS
    <3>3. \A i \in 2..(n + 1): p_buf[i] \in Sendable
      <4>1. \A i \in 2..(n + 1): i \in DOMAIN p_buf
        BY <2>1, <3>1
      <4> QED
        BY <2>1, <4>1, ElementsIn
    <3>4. s \in Seq(Sendable) /\ Len(s) = n /\ \A i \in 1..n: s[i] = p_buf[i + 1]
      <4>1. 2 \in Int /\ n + 1 \in Int
        BY <3>1
      <4>2. /\ s \in Seq(Sendable) /\ Len(s) = IF 2 <= n + 1 THEN (n + 1) - 2 + 1 ELSE 0
            /\ \A i \in 1..((n + 1) - 2 + 1): s[i] = p_buf[2 + i - 1]
        BY <3>2, <3>3, <4>1, SubSeqProperties
      <4>3. (n + 1) - 2 + 1 = n /\ \A i \in 1..n: 2 + i - 1 = i + 1
        BY <3>1
      <4> QED
        BY <3>1, <4>2, <4>3
    <3>5. packet_array_to_data(s) = data
      BY <2>1, <2>3, <3>1, <3>4, Reassembled
    <3>6. Len(p_buf) - 1 = n + 1
      BY <3>1
    <3> QED
      BY <2>2, <2>4, <3>2, <3>5, <3>6
  <2>5. CASE p_buf = data_to_packet_array /\ ~framed
    <3>1. p_buf = Fragments
      BY <2>1, <2>5, PacketsAre
    <3>2. Len(p_buf) = n /\ \A i \in 1..n: p_buf[i] = Fragment(i - 1)
      BY <2>1, <2>3, <3>1, FragmentsAre
    <3>3. packet_array_to_data(p_buf) = data
      BY <2>1, <2>3, <3>2, Reassembled
    <3> QED
      BY <2>2, <2>5, <3>3
  <2>6. CASE data = <<>> /\ p_buf = <<>>
    <3>1. SubSeq(parsed, 2, Len(parsed) - 1) = <<>>
      BY <2>2, <2>6, SubSeqEmpty
    <3>2. packet_array_to_data(<<>>) = <<>>
      BY DEF packet_array_to_data, FlattenSeq
    <3> QED
      BY <2>2, <2>6, <3>1, <3>2
  <2> QED
    BY <2>1, <2>4, <2>5, <2>6, BuiltIs
<1> QED
  BY <1>1, CarriedCorrect, PTL

\* The packets sent are those that the receiver's capture takes: the number its slot
\* has, between BEGIN and END, none of them empty.
THEOREM FramesAreCapturableCorrect == Spec => []FramesAreCapturable
<1>1. Carried => FramesAreCapturable
  <2> SUFFICES ASSUME Carried, framed, p_buf # <<>>, Len(p_buf) <= UINT8_MAX + 1
               PROVE  LET n == Len(p_buf)
                      IN /\ p_buf[1].sequence_number = 0 /\ p_buf[1].payload = <<>>
                         /\ p_buf[n].sequence_number = UINT8_MAX /\ p_buf[n].payload = <<>>
                         /\ \A i \in 2..n - 1:
                              /\ p_buf[i].sequence_number = i - 1
                              /\ Len(p_buf[i].payload) \in 1..payload_length_max
    BY DEF FramesAreCapturable
  <2>1. TypedInputs /\ p_buf = data_to_packet_array
    BY BuiltIs DEF Carried
  <2>2. PICK n: n = npackets(Len(data))
    OBVIOUS
  <2>3. /\ n \in Nat /\ Len(p_buf) = n + 2
        /\ p_buf[1] = Handshake(0) /\ p_buf[n + 2] = Handshake(UINT8_MAX)
        /\ \A i \in 1..n: p_buf[i + 1] = Fragment(i - 1)
    BY <2>1, <2>2, FramedPackets
  <2>4. 0 \in Byte /\ UINT8_MAX \in Byte /\ UINT8_MAX \in Nat
    BY BaseIs DEF Base
  <2>5. /\ Handshake(0).sequence_number = 0 /\ Handshake(0).payload = <<>>
        /\ Handshake(UINT8_MAX).sequence_number = UINT8_MAX /\ Handshake(UINT8_MAX).payload = <<>>
    BY <2>1, <2>4, HandshakeIs
  <2>6. \A i \in 2..(n + 1): /\ p_buf[i].sequence_number = i - 1
                             /\ Len(p_buf[i].payload) \in 1..payload_length_max
    <3> TAKE i \in 2..(n + 1)
    <3>1. PICK j \in Nat: j = i - 2
      BY <2>3
    <3>2. j < n /\ i - 1 \in 1..n /\ (i - 1) + 1 = i /\ (i - 1) - 1 = j /\ 1 + j = i - 1
      BY <2>3, <3>1
    <3>3. p_buf[i] = Fragment(j)
      BY <2>3, <3>2
    <3>4. Fragment(j).sequence_number = SequenceNumber(j) /\ Len(Fragment(j).payload) \in 1..payload_length_max
      BY <2>1, <2>2, <3>2, FragmentIs
    <3>5. SequenceNumber(j) = i - 1
      <4>1. SequenceNumber(j) = (1 + j) % Base
        BY DEF SequenceNumber
      <4>2. i - 1 \in Nat /\ i - 1 < Base /\ Base \in Nat
        BY <2>3, <2>4, <3>2 DEF Base
      <4> QED
        BY <3>2, <4>1, <4>2, SmallRemainder
    <3> QED
      BY <3>3, <3>4, <3>5
  <2>7. (n + 2) - 1 = n + 1
    BY <2>3
  <2> QED
    BY <2>3, <2>5, <2>6, <2>7
<1> QED
  BY <1>1, CarriedCorrect, PTL
=============================================================================
