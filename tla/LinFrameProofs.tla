-------------------------- MODULE LinFrameProofs --------------------------
(***************************************************************************)
(* Proofs about LinFrame for every identifier and every payload of at most *)
(* eight bytes: the 16-bit accumulator of lin_checksum_enhanced is wide    *)
(* enough, its fold loop computes the sum modulo 255, a receiver of the    *)
(* LIN standard accepts every frame, and two identifiers never look alike  *)
(* when one bit of the header is flipped.                                  *)
(***************************************************************************)
EXTENDS LinFrame, FiniteSetTheorems, SequenceTheorems, TLAPS

\* What a turn of the fold loop does to any 16-bit sum that needs it.
LEMMA FoldArithmetic ==
    ASSUME NEW s \in Nat, 255 < s, s < Width16
    PROVE  /\ (s % 256) + (s \div 256) \in Nat
           /\ (s % 256) + (s \div 256) < s
           /\ ((s % 256) + (s \div 256)) % 255 = s % 255
<1> DEFINE q == s \div 256
           r == s % 256
<1>1. q \in 1..255 /\ r \in 0..255 /\ s = (256 * q) + r
  BY SMT DEF Width16
<1> HIDE DEF q, r
<1>2. (r + q) % 255 = ((255 * q) + (r + q)) % 255
  BY <1>1, SMT
<1>3. (255 * q) + (r + q) = s
  BY <1>1, SMT
<1>4. (r + q) % 255 = s % 255
  BY <1>2, <1>3
<1>5. r + q \in Nat /\ r + q < s
  BY <1>1, SMT
<1>6. QED
  BY <1>4, <1>5 DEF q, r

\* A protected identifier is a byte.
LEMMA ProtectedIdType ==
    ASSUME NEW id \in 0..63
    PROVE  ProtectedId(id) \in 0..255
<1>1. P0(id) \in 0..1 /\ P1(id) \in 0..1
  BY SMT DEF P0, P1, Bit
<1>2. QED
  BY <1>1, SMT DEF ProtectedId

\* The frame on the wire.
Frame == <<Break, Sync, ProtectedId(raw_id)>> \o payload \o <<checksum>>

\* The inductive invariant: types, the bound of the sum by the number of bytes
\* added, without which the next addition might wrap, and the frame that a
\* receiver hears.
Inv ==
    /\ FrameType
    /\ AccumulatorBound
    /\ step = "id" => i = 0
    /\ step = "sent" => wire = Frame

LEMMA FrameBytes ==
    ASSUME FrameType
    PROVE  /\ Len(Frame) = len + 4
           /\ Frame[3] = ProtectedId(raw_id)
           /\ \A k \in 1..len : Frame[k + 3] = payload[k]
           /\ Frame[len + 4] = checksum
           /\ \A k \in 3 .. len + 4 : Frame[k] \in 0..255
<1>1. payload \in Seq(0..255) /\ Len(payload) = len /\ len \in Nat
  BY MaxLenAssumption DEF FrameType
<1>2. ProtectedId(raw_id) \in 0..255 /\ checksum \in 0..255
  BY ProtectedIdType DEF FrameType
<1> DEFINE h == <<Break, Sync, ProtectedId(raw_id)>>
           c == <<checksum>>
           g == h \o payload
<1>3. h \in Seq(Int) /\ Len(h) = 3 /\ h[3] = ProtectedId(raw_id)
  BY <1>2 DEF Break, Sync
<1>4. c \in Seq(Int) /\ Len(c) = 1 /\ c[1] = checksum
  BY <1>2
<1>5. payload \in Seq(Int)
  <2>1. payload \in [1..len -> Int]
    <3>1. payload \in [1..len -> 0..255] /\ 0..255 \subseteq Int
      BY DEF FrameType
    <3>2. QED
      BY <3>1, Zenon
  <2>2. len \in Nat
    BY <1>1
  <2>3. QED
    BY <2>1, <2>2
<1> HIDE DEF h, c
<1>6. /\ g \in Seq(Int) /\ Len(g) = len + 3
      /\ g[3] = ProtectedId(raw_id)
      /\ \A k \in 1..len : g[k + 3] = payload[k]
  <2>1. /\ g \in Seq(Int) /\ Len(g) = 3 + len
        /\ \A k \in 1 .. 3 + len : g[k] = IF k <= 3 THEN h[k] ELSE payload[k - 3]
    <3>1. /\ h \o payload \in Seq(Int) /\ Len(h \o payload) = Len(h) + Len(payload)
          /\ \A k \in 1 .. Len(h) + Len(payload) :
                (h \o payload)[k] = IF k <= Len(h) THEN h[k] ELSE payload[k - Len(h)]
      BY <1>3, <1>5, ConcatProperties, Zenon
    <3>2. QED
      BY <1>1, <1>3, <3>1, Zenon
  <2> HIDE DEF g
  <2>2. g[3] = ProtectedId(raw_id)
    BY <1>1, <1>3, <2>1
  <2>3. ASSUME NEW k \in 1..len PROVE g[k + 3] = payload[k]
    BY <1>1, <2>1
  <2>4. QED
    BY <1>1, <2>1, <2>2, <2>3
<1> HIDE DEF g
<1>7. /\ Len(g \o c) = len + 4
      /\ (g \o c)[len + 4] = checksum
      /\ \A k \in 1 .. len + 3 : (g \o c)[k] = g[k]
  <2>1. /\ Len(g \o c) = len + 4
        /\ \A k \in 1 .. len + 4 : (g \o c)[k] = IF k <= len + 3 THEN g[k] ELSE c[k - (len + 3)]
    <3>1. /\ Len(g \o c) = Len(g) + Len(c)
          /\ \A k \in 1 .. Len(g) + Len(c) :
                (g \o c)[k] = IF k <= Len(g) THEN g[k] ELSE c[k - Len(g)]
      BY <1>4, <1>6, ConcatProperties, Zenon
    <3>2. Len(g) + Len(c) = len + 4
      BY <1>1, <1>4, <1>6
    <3>3. QED
      BY <1>6, <3>1, <3>2, Zenon
  <2>2. (len + 4) - (len + 3) = 1
    BY <1>1
  <2>3. QED
    BY <1>1, <1>4, <2>1, <2>2
<1>8. Frame = g \o c
  BY DEF Frame, g, h, c
<1>9. /\ Frame[3] = ProtectedId(raw_id)
      /\ \A k \in 1..len : Frame[k + 3] = payload[k]
  <2>1. 3 \in 1 .. len + 3 /\ \A k \in 1..len : k + 3 \in 1 .. len + 3
    BY <1>1
  <2>2. QED
    BY <1>6, <1>7, <1>8, <2>1, Zenon
<1>10. ASSUME NEW k \in 3 .. len + 4
       PROVE  Frame[k] \in 0..255
  <2>1. CASE k = 3 \/ k = len + 4
    BY <1>2, <1>7, <1>8, <1>9, <2>1
  <2>2. CASE k \in 4 .. len + 3
    <3>1. k - 3 \in 1..len /\ (k - 3) + 3 = k
      BY <1>1, <2>2
    <3>2. Frame[k] = payload[k - 3]
      BY <1>9, <3>1
    <3>3. QED
      BY <3>1, <3>2 DEF FrameType
  <2>3. QED
    BY <1>1, <2>1, <2>2
<1>11. QED
  BY <1>7, <1>8, <1>9, <1>10

LEMMA CarryType ==
    ASSUME NEW a \in 0..255, NEW b \in 0..255
    PROVE  AddWithCarry(a, b) \in 0..255
  BY SMT DEF AddWithCarry

\* A step before the frame is sent leaves the receiver alone.
LEMMA ReceiverWaits ==
    ASSUME FrameType, UNCHANGED receiverVars
    PROVE  heard' \in Nat /\ acc' \in 0..255
  BY DEF FrameType, receiverVars

\* At most nine bytes are added: the sum is far below the width.
LEMMA AddFits ==
    ASSUME FrameType, AccumulatorBound, i < len
    PROVE  /\ (sum + payload[i + 1]) % Width16 = sum + payload[i + 1]
           /\ sum + payload[i + 1] \in Nat
           /\ sum + payload[i + 1] < Width16
           /\ sum + payload[i + 1] <= 255 * (i + 2)
<1>1. i + 1 \in 1..len /\ i \in 0..7
  BY MaxLenAssumption DEF FrameType
<1>2. payload[i + 1] \in 0..255
  BY <1>1 DEF FrameType
<1>3. sum \in Nat /\ sum <= 255 * (i + 1)
  BY DEF FrameType, AccumulatorBound
<1> DEFINE byte == payload[i + 1]
<1> HIDE DEF byte
<1>4. sum + byte \in Nat /\ sum + byte <= 255 * (i + 2) /\ sum + byte < 65536
  BY <1>1, <1>2, <1>3, SMT DEF byte
<1>5. \A n \in Nat : n < 65536 => n % 65536 = n
  BY SMT
<1>6. QED
  BY <1>4, <1>5 DEF byte, Width16

\* The values stay in their C types and the accumulator under its bound.
THEOREM AccumulatorNeverWraps == FrameSpec => []Inv
<1>1. FrameInit => Inv
  <2> SUFFICES ASSUME FrameInit
               PROVE  Inv
    OBVIOUS
  <2>1. payload \in [1..len -> 0..255]
    BY PayloadAssumption DEF FrameInit
  <2>2. QED
    BY <2>1, RawIdsAssumption, MaxLenAssumption
       DEF FrameInit, Inv, FrameType, AccumulatorBound, Width16
<1>2. Inv /\ [FrameNext]_frameVars => Inv'
  <2> SUFFICES ASSUME Inv, [FrameNext]_frameVars
               PROVE  Inv'
    OBVIOUS
  <2> USE DEF Inv, FrameType, AccumulatorBound
  <2>1. CASE AddIdentifier
    <3>1. ProtectedId(raw_id) \in 0..255
      BY ProtectedIdType
    <3>2. sum' \in 0..255
      BY <2>1, <3>1 DEF AddIdentifier
    <3>3. sum' \in Nat /\ sum' < Width16
      BY <3>2 DEF Width16
    <3>4. i' = 0
      BY <2>1 DEF AddIdentifier
    <3>5. sum' <= 255 * (i' + 1)
      BY <3>2, <3>4
    <3>6. QED
      BY <2>1, <3>3, <3>5, ReceiverWaits, Zenon DEF AddIdentifier
  <2>2. CASE AddByte
    <3>1. i \in Nat /\ i' = i + 1
      BY <2>2, MaxLenAssumption DEF AddByte
    <3>2. sum' = sum + payload[i + 1]
      BY <2>2, AddFits DEF AddByte
    <3>3. sum' \in Nat /\ sum' < Width16
      BY <2>2, <3>2, AddFits DEF AddByte
    <3>4. sum' <= 255 * (i' + 1)
      BY <2>2, <3>1, <3>2, AddFits DEF AddByte
    <3>5. i' \in 0..len
      BY <2>2, <3>1, MaxLenAssumption DEF AddByte
    <3>6. QED
      BY <2>2, <3>3, <3>4, <3>5, ReceiverWaits DEF AddByte
  <2>3. CASE EndOfData
    BY <2>3, ReceiverWaits DEF EndOfData
  <2>4. CASE FoldCarry
    <3>1. sum' \in Nat /\ sum' < sum
      BY <2>4, FoldArithmetic DEF FoldCarry
    <3>2. sum' < Width16 /\ sum' <= 255 * (i' + 1)
      BY <2>4, <3>1, MaxLenAssumption DEF FoldCarry, Width16
    <3>3. QED
      BY <2>4, <3>1, <3>2, ReceiverWaits DEF FoldCarry
  <2>5. CASE Complement
    <3>1. checksum' \in 0..255
      BY <2>5 DEF Complement
    <3>2. QED
      BY <2>5, <3>1, ReceiverWaits DEF Complement
  <2>6. CASE PutFrame
    BY <2>6, ReceiverWaits DEF PutFrame, Frame
  <2>7. CASE Receive
    <3>1. wire = Frame /\ heard \in Nat
      BY <2>7 DEF Receive
    <3>2. acc' \in 0..255
      <4>1. CASE Covered(heard + 1)
        <5>1. heard + 1 \in 3 .. len + 4
          BY <2>7, <3>1, <4>1, FrameBytes, MaxLenAssumption DEF Receive, Covered
        <5>2. Frame[heard + 1] \in 0..255
          BY <5>1, FrameBytes
        <5>3. QED
          BY <2>7, <3>1, <4>1, <5>2, CarryType DEF Receive
      <4>2. CASE ~ Covered(heard + 1)
        BY <2>7, <4>2 DEF Receive
      <4>3. QED
        BY <4>1, <4>2
    <3>3. heard' \in Nat
      BY <2>7, <3>1 DEF Receive
    <3>4. wire' = Frame'
      BY <2>7, <3>1 DEF Receive, Frame
    <3>5. QED
      BY <2>7, <3>2, <3>3, <3>4 DEF Receive
  <2>8. CASE Sent \/ UNCHANGED frameVars
    <3>1. UNCHANGED frameVars
      BY <2>8 DEF Sent
    <3>2. FrameType' /\ Frame' = Frame
      BY <3>1 DEF frameVars, receiverVars, Frame
    <3>3. AccumulatorBound'
      BY <3>1, Zenon DEF frameVars
    <3>4. QED
      BY <3>1, <3>2, <3>3, Zenon DEF frameVars
  <2>9. QED
    BY <2>1, <2>2, <2>3, <2>4, <2>5, <2>6, <2>7, <2>8 DEF FrameNext
<1>3. QED
  BY <1>1, <1>2, PTL DEF FrameSpec

\* The sum of a frame never exceeds 255 per byte: nothing is lost in 16 bits.
THEOREM AccumulatorAlwaysBounded == FrameSpec => []AccumulatorBound
  BY AccumulatorNeverWraps, PTL DEF Inv

\* Every value of lin_checksum_enhanced and of the frame stays in its type: the
\* checksum is a byte although it is computed in 16 bits.
THEOREM TypeCorrect == FrameSpec => []FrameType
  BY AccumulatorNeverWraps, PTL DEF Inv

\* Every turn of the fold loop keeps the sum modulo 255 and makes it smaller, so
\* that the loop ends with the end-around sum.
THEOREM FoldCorrect == FrameSpec => FoldPreserves
<1>1. Inv /\ [FrameNext]_frameVars => [step = "fold" /\ step' = "fold" => sum' % 255 = sum % 255 /\ sum' < sum]_frameVars
  <2> SUFFICES ASSUME Inv, FrameNext, step = "fold", step' = "fold"
               PROVE  sum' % 255 = sum % 255 /\ sum' < sum
    OBVIOUS
  <2>1. FoldCarry
    BY DEF FrameNext, AddIdentifier, AddByte, EndOfData, Complement, PutFrame, Receive, Received,
       Sent, frameVars
  <2>2. sum \in Nat /\ 255 < sum /\ sum < Width16
    BY <2>1 DEF Inv, FrameType, FoldCarry
  <2>3. sum' = (sum % 256) + (sum \div 256)
    BY <2>1 DEF FoldCarry
  <2>4. QED
    BY <2>2, <2>3, FoldArithmetic
<1>2. QED
  BY <1>1, AccumulatorNeverWraps, PTL DEF FrameSpec, FoldPreserves

-----------------------------------------------------------------------------
(* The distance between two headers.                                       *)

LEMMA BitType ==
    ASSUME NEW id \in 0..63, NEW w \in {1, 2, 4, 8, 16, 32}
    PROVE  Bit(id, w) \in 0..1
  BY SMT DEF Bit

\* The protected identifier carries the six bits and the two parities.
LEMMA HeaderBits ==
    ASSUME NEW id \in 0..63
    PROVE  /\ \A w \in {1, 2, 4, 8, 16, 32} : Bit(ProtectedId(id), w) = Bit(id, w)
           /\ Bit(ProtectedId(id), 64) = P0(id)
           /\ Bit(ProtectedId(id), 128) = P1(id)
<1> DEFINE p == P0(id)
           q == P1(id)
<1>1. p \in 0..1 /\ q \in 0..1
  BY SMT DEF P0, P1, Bit
<1> HIDE DEF p, q
<1>2. ProtectedId(id) = id + 64 * p + 128 * q
  BY SMT DEF ProtectedId, p, q
<1>3. \A w \in {1, 2, 4, 8, 16, 32} : Bit(id + 64 * p + 128 * q, w) = Bit(id, w)
  BY <1>1, SMT DEF Bit
<1>4. Bit(id + 64 * p + 128 * q, 64) = p /\ Bit(id + 64 * p + 128 * q, 128) = q
  BY <1>1, SMT DEF Bit
<1>5. QED
  BY <1>2, <1>3, <1>4 DEF p, q

\* Six equal bits make equal identifiers.
LEMMA BitsDetermine ==
    ASSUME NEW m \in 0..63, NEW n \in 0..63,
           \A w \in {1, 2, 4, 8, 16, 32} : Bit(m, w) = Bit(n, w)
    PROVE  m = n
<1>1. ASSUME NEW k \in 0..63
      PROVE  k = Bit(k, 1) + 2 * Bit(k, 2) + 4 * Bit(k, 4) + 8 * Bit(k, 8)
                 + 16 * Bit(k, 16) + 32 * Bit(k, 32)
  <2>1. Bit(k, 1) = k - 2 * (k \div 2) /\ Bit(k, 2) = (k \div 2) - 2 * (k \div 4)
    BY SMT DEF Bit
  <2>2. Bit(k, 4) = (k \div 4) - 2 * (k \div 8) /\ Bit(k, 8) = (k \div 8) - 2 * (k \div 16)
    BY SMT DEF Bit
  <2>3. Bit(k, 16) = (k \div 16) - 2 * (k \div 32) /\ Bit(k, 32) = k \div 32
    BY SMT DEF Bit
  <2>4. /\ k \div 2 \in Int /\ k \div 4 \in Int /\ k \div 8 \in Int
        /\ k \div 16 \in Int /\ k \div 32 \in Int
    BY SMT
  <2>5. QED
    BY <2>1, <2>2, <2>3, <2>4
<1>2. m = Bit(n, 1) + 2 * Bit(n, 2) + 4 * Bit(n, 4) + 8 * Bit(n, 8)
          + 16 * Bit(n, 16) + 32 * Bit(n, 32)
  BY <1>1, Zenon
<1>3. QED
  BY <1>1, <1>2, Zenon

\* Each of the six bits is in one of the two parities at least: where one bit
\* differs alone, a parity differs too.
LEMMA TwoDiffer ==
    ASSUME NEW m \in 0..63, NEW n \in 0..63, m # n
    PROVE  \E v, w \in Weights :
              /\ v # w
              /\ Bit(ProtectedId(m), v) # Bit(ProtectedId(n), v)
              /\ Bit(ProtectedId(m), w) # Bit(ProtectedId(n), w)
<1> DEFINE Differ(w) == Bit(ProtectedId(m), w) # Bit(ProtectedId(n), w)
           Six == {1, 2, 4, 8, 16, 32}
<1>1. PICK v \in Six : Bit(m, v) # Bit(n, v)
  BY BitsDetermine
<1>2. Differ(v) /\ v \in Weights
  BY <1>1, HeaderBits DEF Weights
<1>3. CASE \E w \in Six \ {v} : Bit(m, w) # Bit(n, w)
  BY <1>2, <1>3, HeaderBits DEF Weights
<1>4. CASE \A w \in Six \ {v} : Bit(m, w) = Bit(n, w)
  <2>1. \A w \in Six : Bit(m, w) \in 0..1 /\ Bit(n, w) \in 0..1
    BY BitType
  <2>2. P0(m) # P0(n) \/ P1(m) # P1(n)
    <3>1. CASE v = 1
      BY <1>1, <1>4, <2>1, <3>1, SMT DEF P0
    <3>2. CASE v = 2
      BY <1>1, <1>4, <2>1, <3>2, SMT DEF P0
    <3>3. CASE v = 4
      BY <1>1, <1>4, <2>1, <3>3, SMT DEF P0
    <3>4. CASE v = 8
      BY <1>1, <1>4, <2>1, <3>4, SMT DEF P1
    <3>5. CASE v = 16
      BY <1>1, <1>4, <2>1, <3>5, SMT DEF P0
    <3>6. CASE v = 32
      BY <1>1, <1>4, <2>1, <3>6, SMT DEF P1
    <3>7. QED
      BY <1>1, <3>1, <3>2, <3>3, <3>4, <3>5, <3>6
  <2>3. Differ(64) \/ Differ(128)
    BY <2>2, HeaderBits
  <2>4. v # 64 /\ v # 128 /\ 64 \in Weights /\ 128 \in Weights
    BY <1>1 DEF Weights
  <2>5. QED
    BY <1>2, <2>3, <2>4
<1>5. QED
  BY <1>3, <1>4

\* Whatever two identifiers are, one flipped bit does not make one of the other.
THEOREM HeadersApart == FrameSpec => []HeaderDistance
<1>1. ASSUME NEW m \in 0..63, NEW n \in 0..63, m # n
      PROVE  Distance(ProtectedId(m), ProtectedId(n)) >= 2
  <2> DEFINE D == {w \in Weights : Bit(ProtectedId(m), w) # Bit(ProtectedId(n), w)}
  <2>1. PICK v, w \in Weights :
              /\ v # w
              /\ Bit(ProtectedId(m), v) # Bit(ProtectedId(n), v)
              /\ Bit(ProtectedId(m), w) # Bit(ProtectedId(n), w)
    BY <1>1, TwoDiffer
  <2>2. IsFiniteSet({v, w}) /\ Cardinality({v, w}) = 2
    <3>1. {v, w} = {v} \cup {w}
      OBVIOUS
    <3>2. IsFiniteSet({v}) /\ Cardinality({v}) = 1
      BY FS_Singleton
    <3>3. QED
      BY <2>1, <3>1, <3>2, FS_AddElement
  <2>3. IsFiniteSet(D)
    <3>1. IsFiniteSet(1..128)
      BY 1 \in Int, 128 \in Int, FS_Interval, Zenon
    <3>2. D \subseteq 1..128
      BY DEF Weights
    <3>3. QED
      BY <3>1, <3>2, FS_Subset
  <2>4. Cardinality({v, w}) <= Cardinality(D) /\ Cardinality(D) \in Nat
    BY <2>1, <2>3, FS_Subset, FS_CardinalityType
  <2>5. QED
    BY <2>2, <2>4 DEF Distance
<1>2. FrameType => HeaderDistance
  BY <1>1 DEF FrameType, HeaderDistance
<1>3. QED
  BY <1>2, TypeCorrect, PTL

-----------------------------------------------------------------------------
(* The receiver.                                                           *)

\* Two sums are alike: the same modulo 255, and zero together.  Of the numbers of
\* eight bits no two are alike.
Alike(a, b) == a % 255 = b % 255 /\ (a = 0 <=> b = 0)

LEMMA AlikeAdd ==
    ASSUME NEW a \in Nat, NEW b \in Nat, NEW c \in Nat, Alike(a, b)
    PROVE  Alike(a + c, b + c)
<1>1. (a + c) % 255 = ((a % 255) + (c % 255)) % 255
  BY SMT
<1>2. (b + c) % 255 = ((b % 255) + (c % 255)) % 255
  BY SMT
<1>3. QED
  BY <1>1, <1>2 DEF Alike

LEMMA AlikeCarry ==
    ASSUME NEW a \in 0..255, NEW b \in 0..255
    PROVE  AddWithCarry(a, b) \in 0..255 /\ Alike(AddWithCarry(a, b), a + b)
  BY SMT DEF AddWithCarry, Alike

LEMMA AlikeFold ==
    ASSUME NEW s \in Nat, 255 < s, s < Width16
    PROVE  Alike((s % 256) + (s \div 256), s)
<1>1. (s % 256) + (s \div 256) # 0
  BY SMT DEF Width16
<1>2. QED
  BY <1>1, FoldArithmetic DEF Alike

LEMMA AlikeEqual ==
    ASSUME NEW a \in 0..255, NEW b \in 0..255, NEW m \in Nat, Alike(a, m), Alike(b, m)
    PROVE  a = b
<1>1. \A k \in 0..255 : k % 255 = IF k = 255 THEN 0 ELSE k
  BY SMT
<1>2. a % 255 = b % 255 /\ (a = 0 <=> b = 0)
  BY DEF Alike
<1>3. QED
  BY <1>1, <1>2

\* What the frame is summed over: the identifier, if it counts, and the first bytes.
Counted == IF ProtectedId(raw_id) \in Diagnostic THEN 0 ELSE ProtectedId(raw_id)
Totals(t) ==
    /\ t[0] = Counted
    /\ \A k \in 1..i : t[k] = t[k - 1] + payload[k]

\* After every byte the sender and the receiver have sums like the true one.
Summed(t) ==
    /\ Totals(t)
    /\ Alike(sum, t[i])
    /\ step # "add" => i = len
    /\ step \in {"put", "sent"} => sum <= 255 /\ checksum = 255 - sum
    /\ step = "sent" =>
          /\ heard \in 0 .. len + 4
          /\ heard <= 2 => acc = 0
          /\ heard \in 3 .. len + 3 => Alike(acc, t[heard - 3])
          /\ heard = len + 4 => acc = 255

Accounted ==
    /\ raw_id \in RawIds
    /\ step # "sent" => heard = 0 /\ acc = 0
    /\ step # "id" => \E t \in [0..i -> Nat] : Summed(t)

LEMMA AlikeTransitive ==
    ASSUME NEW a, NEW b, NEW c, Alike(a, b), Alike(b, c)
    PROVE  Alike(a, c)
  BY DEF Alike

\* But for 0x3D, sender and receiver agree on the frames of the classic checksum.
LEMMA SameFramesClassic ==
    ASSUME NEW id \in 0..63, id # 61
    PROVE  ProtectedId(id) \in {60, 125} <=> ProtectedId(id) \in Diagnostic
<1> DEFINE p == P0(id)
           q == P1(id)
<1>1. p \in 0..1 /\ q \in 0..1
  BY SMT DEF P0, P1, Bit
<1> HIDE DEF p, q
<1>2. ProtectedId(id) = id + 64 * p + 128 * q
  BY SMT DEF ProtectedId, p, q
<1>3. QED
  BY <1>1, <1>2, SMT DEF Diagnostic

LEMMA CountedType == ASSUME FrameType PROVE Counted \in Nat
<1>1. ProtectedId(raw_id) \in 0..255
  BY ProtectedIdType DEF FrameType
<1>2. QED
  BY <1>1 DEF Counted

LEMMA SenderAccounts ==
    ASSUME Inv, Accounted, FrameNext, ~ Receive, ~ Sent
    PROVE  Accounted'
<1>1. /\ i \in Nat /\ len \in Nat /\ i <= len /\ sum \in Nat
      /\ UNCHANGED <<raw_id, payload, len>>
  BY MaxLenAssumption DEF Inv, FrameType, FrameNext, AddIdentifier, AddByte, EndOfData,
     FoldCarry, Complement, PutFrame
<1>2. UNCHANGED receiverVars
  BY Zenon DEF FrameNext, AddIdentifier, AddByte, EndOfData, FoldCarry, Complement, PutFrame
<1>3. heard' = 0 /\ acc' = 0
  BY <1>2 DEF FrameNext, AddIdentifier, AddByte, EndOfData, FoldCarry, Complement, PutFrame,
     Accounted, receiverVars
<1>4. Counted' = Counted
  BY <1>1 DEF Counted
<1>5. ASSUME step' # "id" PROVE \E t \in [0..i' -> Nat] : Summed(t)'
  <2>1. CASE AddIdentifier
    <3>1. i = 0 /\ i' = 0 /\ sum' = Counted /\ step' = "add"
      BY <2>1 DEF AddIdentifier, Inv, Counted
    <3>2. PICK t \in [0..0 -> Nat] : t[0] = Counted
      <4>1. [k \in 0..0 |-> Counted] \in [0..0 -> Nat]
        BY CountedType DEF Inv
      <4>2. [k \in 0..0 |-> Counted][0] = Counted
        OBVIOUS
      <4>3. QED
        BY <4>1, <4>2
    <3>3. Totals(t)'
      BY <1>4, <3>1, <3>2 DEF Totals
    <3>4. Alike(sum, t[i])'
      BY <3>1, <3>2 DEF Alike
    <3>5. QED
      BY <3>1, <3>2, <3>3, <3>4 DEF Summed
  <2>2. CASE AddByte
    <3>1. PICK s \in [0..i -> Nat] : Summed(s)
      BY <2>2 DEF AddByte, Accounted
    <3>2. /\ i' = i + 1 /\ i + 1 \in 1..len /\ step' = "add" /\ step = "add"
          /\ sum' = sum + payload[i + 1] /\ payload[i + 1] \in 0..255
      <4>1. i' = i + 1 /\ i + 1 \in 1..len /\ step' = "add" /\ step = "add"
        BY <1>1, <2>2 DEF AddByte
      <4>2. sum' = sum + payload[i + 1]
        BY <2>2, AddFits DEF AddByte, Inv
      <4>3. payload[i + 1] \in 0..255
        BY <4>1 DEF Inv, FrameType
      <4>4. QED
        BY <4>1, <4>2, <4>3
    <3>3. s[i] \in Nat
      BY <1>1, <3>1
    <3>4. PICK t \in [0 .. i + 1 -> Nat] :
              /\ t[i + 1] = s[i] + payload[i + 1]
              /\ \A k \in 0..i : t[k] = s[k]
      <4> DEFINE u == [k \in 0 .. i + 1 |-> IF k <= i THEN s[k] ELSE s[i] + payload[i + 1]]
      <4>1. ASSUME NEW k \in 0 .. i + 1
            PROVE  (IF k <= i THEN s[k] ELSE s[i] + payload[i + 1]) \in Nat
        <5>1. CASE k <= i
          BY <1>1, <3>1, <5>1
        <5>2. CASE ~ (k <= i)
          <6>1. \A m, n \in Nat : m + n \in Nat
            OBVIOUS
          <6>2. payload[i + 1] \in Nat
            <7>1. 0..255 \subseteq Nat
              OBVIOUS
            <7>2. QED
              BY <3>2, <7>1, Zenon
          <6>3. s[i] + payload[i + 1] \in Nat
            BY <3>3, <6>1, <6>2, Zenon
          <6>4. QED
            BY <5>2, <6>3, Zenon
        <5>3. QED
          BY <5>1, <5>2
      <4>2. u \in [0 .. i + 1 -> Nat]
        BY <4>1
      <4>3. u[i + 1] = s[i] + payload[i + 1]
        BY <1>1
      <4>4. \A k \in 0..i : u[k] = s[k]
        BY <1>1
      <4> HIDE DEF u
      <4>5. QED
        BY <4>2, <4>3, <4>4
    <3>5. Totals(t)'
      <4>1. t[0] = Counted
        BY <1>1, <3>1, <3>4 DEF Summed, Totals
      <4>2. ASSUME NEW k \in 1 .. i + 1 PROVE t[k] = t[k - 1] + payload[k]
        <5>1. CASE k = i + 1
          BY <1>1, <3>4, <5>1
        <5>2. CASE k \in 1..i
          <6>1. k - 1 \in 0..i /\ k \in 0..i
            BY <1>1, <5>2
          <6>2. s[k] = s[k - 1] + payload[k]
            BY <3>1, <5>2 DEF Summed, Totals
          <6>3. QED
            BY <3>4, <6>1, <6>2
        <5>3. QED
          BY <1>1, <5>1, <5>2
      <4>3. QED
        BY <1>1, <1>4, <3>2, <4>1, <4>2 DEF Totals
    <3>6. Alike(sum, t[i])'
      <4>1. Alike(sum + payload[i + 1], s[i] + payload[i + 1])
        <5>1. Alike(sum, s[i]) /\ sum \in Nat /\ payload[i + 1] \in Nat
          <6>1. 0..255 \subseteq Nat
            OBVIOUS
          <6>2. Alike(sum, s[i])
            BY <3>1 DEF Summed
          <6>3. QED
            BY <1>1, <3>2, <6>1, <6>2, Zenon
        <5>2. QED
          BY <3>3, <5>1, AlikeAdd, Zenon
      <4>2. QED
        BY <3>2, <3>4, <4>1
    <3>7. QED
      BY <3>2, <3>4, <3>5, <3>6 DEF Summed
  <2>3. CASE EndOfData \/ FoldCarry \/ Complement \/ PutFrame
    <3>1. PICK t \in [0..i -> Nat] : Summed(t)
      BY <2>3 DEF EndOfData, FoldCarry, Complement, PutFrame, Accounted
    <3>2. i' = i
      BY <2>3 DEF EndOfData, FoldCarry, Complement, PutFrame
    <3>3. Totals(t)'
      BY <1>1, <1>4, <3>1, <3>2 DEF Summed, Totals
    <3>4. Alike(sum', t[i])
      <4>1. CASE FoldCarry
        <5>1. Alike(sum', sum)
          BY <4>1, AlikeFold DEF FoldCarry, Inv, FrameType
        <5>2. QED
          BY <3>1, <5>1, AlikeTransitive DEF Summed
      <4>2. CASE ~ FoldCarry
        <5>1. sum' = sum
          BY <2>3, <4>2 DEF EndOfData, Complement, PutFrame
        <5>2. QED
          BY <3>1, <5>1 DEF Summed
      <4>3. QED
        BY <4>1, <4>2
    <3>5. i' = len' /\ (step' \in {"put", "sent"} => sum' <= 255 /\ checksum' = 255 - sum')
      BY <1>1, <2>3, <3>1, <3>2 DEF EndOfData, FoldCarry, Complement, PutFrame, Summed
    <3>6. QED
      BY <1>1, <1>3, <3>1, <3>2, <3>3, <3>4, <3>5 DEF Summed
  <2>4. QED
    BY <2>1, <2>2, <2>3 DEF FrameNext
<1>6. QED
  BY <1>1, <1>3, <1>5 DEF Accounted

LEMMA ReceiverAccounts ==
    ASSUME 61 \notin RawIds, Inv, Accounted, Receive
    PROVE  Accounted'
<1>1. PICK t \in [0..i -> Nat] : Summed(t)
  BY DEF Receive, Accounted
<1>2. /\ i = len /\ len \in Nat /\ sum \in 0..255 /\ checksum = 255 - sum
      /\ heard \in 0 .. len + 4 /\ acc \in 0..255
  BY <1>1, MaxLenAssumption DEF Receive, Summed, Inv, FrameType
<1>3. /\ Len(wire) = len + 4
      /\ wire[3] = ProtectedId(raw_id) /\ wire[len + 4] = checksum
      /\ \A k \in 1..len : wire[k + 3] = payload[k] /\ payload[k] \in 0..255
  BY FrameBytes DEF Receive, Inv, FrameType
<1>4. /\ heard \in 0 .. len + 3 /\ heard' = heard + 1 /\ step = "sent" /\ step' = "sent"
      /\ UNCHANGED <<raw_id, payload, len, i, sum, checksum>>
      /\ acc' = IF Covered(heard + 1) THEN AddWithCarry(acc, wire[heard + 1]) ELSE acc
  BY <1>2, <1>3 DEF Receive
<1>5. heard' <= 2 => acc' = 0
  BY <1>1, <1>2, <1>4 DEF Summed, Covered
<1>6. heard' \in 3 .. len + 3 => Alike(acc', t[heard' - 3])
  <2>1. CASE heard = 2
    <3>1. acc' = Counted
      <4>1. acc = 0 /\ ProtectedId(raw_id) \in 0..255
        <5>1. acc = 0
          BY <1>1, <1>4, <2>1 DEF Summed
        <5>2. ProtectedId(raw_id) \in 0..255
          BY ProtectedIdType DEF Inv, FrameType
        <5>3. QED
          BY <5>1, <5>2
      <4>2. raw_id \in 0..63 /\ raw_id # 61
        BY DEF Accounted, Inv, FrameType
      <4>3. Covered(3) <=> ProtectedId(raw_id) \notin Diagnostic
        <5>1. ProtectedId(raw_id) \in {60, 125} <=> ProtectedId(raw_id) \in Diagnostic
          BY <4>2, SameFramesClassic
        <5>2. Covered(3) <=> wire[3] \notin {60, 125}
          BY DEF Covered
        <5>3. QED
          <6> DEFINE P == ProtectedId(raw_id)
          <6> HIDE DEF P
          <6>1. wire[3] = P /\ (P \in {60, 125} <=> P \in Diagnostic)
            BY <1>3, <5>1 DEF P
          <6>2. Covered(3) <=> P \notin Diagnostic
            BY <5>2, <6>1
          <6>3. QED
            BY <6>2 DEF P
      <4>4. AddWithCarry(0, ProtectedId(raw_id)) = ProtectedId(raw_id)
        <5>1. \A b \in 0..255 : AddWithCarry(0, b) = b
          BY DEF AddWithCarry
        <5>2. QED
          BY <4>1, <5>1, Zenon
      <4>5. heard + 1 = 3
        BY <2>1
      <4>6. QED
        BY <1>3, <1>4, <4>1, <4>3, <4>4, <4>5 DEF Counted
    <3>2. heard' - 3 = 0
      BY <1>4, <2>1
    <3>3. t[0] = Counted
      BY <1>1 DEF Summed, Totals
    <3>4. QED
      BY <3>1, <3>2, <3>3 DEF Alike
  <2>2. CASE heard \in 3 .. len + 2
    <3>1. PICK k \in 0 .. len - 1 : k = heard - 3
      BY <1>2, <2>2
    <3>2. /\ k + 1 \in 1..len /\ heard = k + 3 /\ heard' - 3 = k + 1
          /\ heard + 1 = (k + 1) + 3
      BY <1>2, <1>4, <2>2, <3>1
    <3>3. PICK b \in 0..255 : b = payload[k + 1] /\ wire[heard + 1] = b
      BY <1>3, <3>2, Zenon
    <3>4. t[k + 1] = t[k] + b /\ t[k] \in Nat
      <4>1. (k + 1) - 1 = k /\ k \in 0..i /\ k + 1 \in 1..i
        BY <1>2, <3>1
      <4>2. t[k + 1] = t[(k + 1) - 1] + payload[k + 1]
        BY <1>1, <4>1, Zenon DEF Summed, Totals
      <4>3. QED
        BY <1>1, <3>3, <4>1, <4>2
    <3>5. Alike(acc, t[k])
      BY <1>1, <1>2, <1>4, <2>2, <3>1 DEF Summed
    <3>6. acc' = AddWithCarry(acc, b)
      BY <1>4, <2>2, <3>3 DEF Covered
    <3>7. Alike(acc', acc + b)
      BY <1>2, <3>6, AlikeCarry
    <3>8. Alike(acc + b, t[k] + b)
      BY <1>2, <3>4, <3>5, AlikeAdd
    <3>9. Alike(acc', t[k + 1])
      BY <3>4, <3>7, <3>8, AlikeTransitive
    <3>10. QED
      BY <3>2, <3>9
  <2>3. QED
    BY <1>2, <1>4, <2>1, <2>2
<1>7. heard' = len' + 4 => acc' = 255
  <2> SUFFICES ASSUME heard = len + 3
               PROVE  acc' = 255
    BY <1>2, <1>4
  <2>1. Alike(acc, t[len])
    BY <1>1, <1>2, <1>4 DEF Summed
  <2>2. Alike(sum, t[len]) /\ t[len] \in Nat
    BY <1>1, <1>2 DEF Summed
  <2>3. acc = sum
    BY <1>2, <2>1, <2>2, AlikeEqual
  <2>4. acc' = AddWithCarry(acc, 255 - sum)
    <3>1. Covered(heard + 1) /\ heard + 1 = len + 4
      BY <1>2 DEF Covered
    <3>2. QED
      BY <1>2, <1>3, <1>4, <3>1
  <2>5. QED
    BY <1>2, <2>3, <2>4 DEF AddWithCarry
<1>8. heard' \in 0 .. len' + 4
  BY <1>2, <1>4
<1>9. Summed(t)'
  <2>1. Counted' = Counted
    BY <1>4 DEF Counted
  <2>2. Totals(t)'
    BY <1>1, <1>4, <2>1 DEF Summed, Totals
  <2>3. QED
    BY <1>1, <1>2, <1>4, <1>5, <1>6, <1>7, <1>8, <2>2 DEF Summed
<1>10. QED
  BY <1>1, <1>4, <1>9 DEF Accounted

\* A receiver that follows the standard takes every frame, unless its identifier is
\* 0x3D, which the firmware never sends.
THEOREM ReceiverTakesAll ==
    ASSUME 61 \notin RawIds
    PROVE  FrameSpec => []ReceiverAccepts
<1>1. FrameInit => Accounted
  BY DEF FrameInit, Accounted
<1>2. Inv /\ Accounted /\ [FrameNext]_frameVars => Accounted'
  <2> SUFFICES ASSUME Inv, Accounted, [FrameNext]_frameVars
               PROVE  Accounted'
    OBVIOUS
  <2>1. CASE UNCHANGED frameVars
    <3>1. UNCHANGED <<raw_id, payload, len, i, sum, checksum, step, heard, acc>>
      BY <2>1 DEF frameVars, receiverVars
    <3>2. \A t : Summed(t)' <=> Summed(t)
      BY <3>1 DEF Summed, Totals, Counted
    <3>3. QED
      BY <3>1, <3>2 DEF Accounted
  <2>2. CASE Receive
    BY <2>2, ReceiverAccounts
  <2>3. CASE FrameNext /\ ~ Receive /\ ~ Sent
    BY <2>3, SenderAccounts
  <2>4. QED
    BY <2>1, <2>2, <2>3 DEF Sent
<1>3. Inv /\ Accounted => ReceiverAccepts
  <2> SUFFICES ASSUME Inv, Accounted, step = "sent", heard = Len(wire)
               PROVE  acc = 255
    BY DEF ReceiverAccepts, Received
  <2>1. heard = len + 4
    BY FrameBytes DEF Inv
  <2>2. QED
    BY <2>1 DEF Accounted, Summed
<1>4. QED
  BY <1>1, <1>2, <1>3, AccumulatorNeverWraps, PTL DEF FrameSpec
=============================================================================
