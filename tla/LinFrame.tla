------------------------------ MODULE LinFrame ------------------------------
(***************************************************************************)
(* The frame coding of source/LIN_actuator.c: lin_protected_id,            *)
(* lin_checksum_enhanced and lin_send_command_frame, one step per          *)
(* statement that changes the 16-bit accumulator of the checksum.  At the  *)
(* other end of the wire is a receiver that follows the LIN standard.      *)
(***************************************************************************)
EXTENDS Integers, FiniteSets, Sequences

CONSTANTS
    RawIds,   \* frame identifiers to send, 6 bits wide
    Bytes,    \* payload bytes
    MaxLen    \* longest payload; LIN_FRAME_DATA_LEN is 8

ASSUME RawIdsAssumption == RawIds \subseteq 0..63
ASSUME PayloadAssumption == Bytes \subseteq 0..255
ASSUME MaxLenAssumption == MaxLen \in 0..8

VARIABLES
    raw_id,    \* argument: identifier without parity
    payload,   \* argument data
    len,       \* argument: its length
    i,         \* bytes added so far
    sum,       \* uint16_t accumulator
    checksum,  \* uint8_t result
    wire,      \* what was put in the transmit FIFO
    step,
    heard,     \* what the receiver has taken from the wire
    acc        \* its own eight-bit sum

receiverVars == <<heard, acc>>
frameVars == <<raw_id, payload, len, i, sum, checksum, wire, step, receiverVars>>

Break == -1          \* the BREAK field, no byte
Sync  == 85          \* 0x55
Width16 == 65536

-----------------------------------------------------------------------------
Weights == {1, 2, 4, 8, 16, 32, 64, 128}
Bit(n, weight) == (n \div weight) % 2

\* lin_protected_id: the six identifier bits, p0 in bit 6, p1 (inverted) in bit 7.
P0(id) == (Bit(id, 1) + Bit(id, 2) + Bit(id, 4) + Bit(id, 16)) % 2
\* Mutant: bit 3 is missing from the second parity.
P1WithoutBit3(id) == 1 - ((Bit(id, 2) + Bit(id, 16) + Bit(id, 32)) % 2)
P1(id) == 1 - ((Bit(id, 2) + Bit(id, 8) + Bit(id, 16) + Bit(id, 32)) % 2)
ProtectedId(id) == (id % 64) + 64 * P0(id) + 128 * P1(id)

\* The identifiers that lin_checksum_enhanced leaves out of the sum.
Diagnostic == {60, 61}    \* 0x3C, 0x3D

-----------------------------------------------------------------------------
FrameInit ==
    /\ raw_id \in RawIds
    /\ len \in 0..MaxLen
    /\ payload \in [1..len -> Bytes]
    /\ i = 0
    /\ sum = 0
    /\ checksum = 0
    /\ wire = <<>>
    /\ step = "id"
    /\ heard = 0 /\ acc = 0

\* Mutants: the classic checksum, and a sum that starts with the SYNC byte.
AddNoIdentifier ==
    /\ step = "id"
    /\ sum' = 0
    /\ step' = "add"
    /\ UNCHANGED <<raw_id, payload, len, i, checksum, wire, receiverVars>>

AddSyncToo ==
    /\ step = "id"
    /\ sum' = Sync + ProtectedId(raw_id)
    /\ step' = "add"
    /\ UNCHANGED <<raw_id, payload, len, i, checksum, wire, receiverVars>>

AddIdentifier ==
    /\ step = "id"
    /\ sum' = IF ProtectedId(raw_id) \in Diagnostic THEN 0 ELSE ProtectedId(raw_id)
    /\ step' = "add"
    /\ UNCHANGED <<raw_id, payload, len, i, checksum, wire, receiverVars>>

AddByte ==
    /\ step = "add"
    /\ i < len
    /\ i' = i + 1
    /\ sum' = (sum + payload[i + 1]) % Width16
    /\ UNCHANGED <<raw_id, payload, len, checksum, wire, step, receiverVars>>

EndOfData ==
    /\ step = "add"
    /\ i = len
    /\ step' = "fold"
    /\ UNCHANGED <<raw_id, payload, len, i, sum, checksum, wire, receiverVars>>

\* Mutant: the carry is dropped.
FoldDropsCarry ==
    /\ step = "fold"
    /\ sum > 255
    /\ sum' = sum % 256
    /\ UNCHANGED <<raw_id, payload, len, i, checksum, wire, step, receiverVars>>

FoldCarry ==
    /\ step = "fold"
    /\ sum > 255
    /\ sum' = (sum % 256) + (sum \div 256)
    /\ UNCHANGED <<raw_id, payload, len, i, checksum, wire, step, receiverVars>>

Complement ==
    /\ step = "fold"
    /\ sum <= 255
    /\ checksum' = 255 - sum
    /\ step' = "put"
    /\ UNCHANGED <<raw_id, payload, len, i, sum, wire, receiverVars>>

\* lin_send_command_frame: BREAK, SYNC, PID, DATA, CHECKSUM.
PutFrame ==
    /\ step = "put"
    /\ wire' = <<Break, Sync, ProtectedId(raw_id)>> \o payload \o <<checksum>>
    /\ step' = "sent"
    /\ UNCHANGED <<raw_id, payload, len, i, sum, checksum, receiverVars>>

\* The receiver: an eight-bit sum with end-around carry after every byte, over the
\* data and the checksum and, but for the frames of 0x3C and 0x3D, over the
\* protected identifier (0x3C and 0x7D there).
AddWithCarry(a, b) == IF a + b > 255 THEN a + b - 255 ELSE a + b
Covered(k) == k > 3 \/ (k = 3 /\ wire[3] \notin {60, 125})

Receive ==
    /\ step = "sent" /\ heard < Len(wire)
    /\ heard' = heard + 1
    /\ acc' = IF Covered(heard + 1) THEN AddWithCarry(acc, wire[heard + 1]) ELSE acc
    /\ UNCHANGED <<raw_id, payload, len, i, sum, checksum, wire, step>>

Received == step = "sent" /\ heard = Len(wire)
Sent == Received /\ UNCHANGED frameVars

FrameNext ==
    \/ AddIdentifier \/ AddByte \/ EndOfData \/ FoldCarry \/ Complement \/ PutFrame
    \/ Receive
    \/ Sent

FrameSpec == FrameInit /\ [][FrameNext]_frameVars

-----------------------------------------------------------------------------
(* Properties. *)

\* Type invariant: in particular the checksum is a byte.
FrameType ==
    /\ raw_id \in 0..63
    /\ len \in 0..MaxLen
    /\ payload \in [1..len -> 0..255]
    /\ i \in 0..len
    /\ sum \in Nat /\ sum < Width16
    /\ checksum \in 0..255
    /\ step \in {"id", "add", "fold", "put", "sent"}
    /\ heard \in Nat /\ acc \in 0..255

\* A receiver that follows the standard takes every frame: with the checksum its
\* sum is 0xFF.
ReceiverAccepts == Received => acc = 255

\* Every identifier is told from every other although one bit of the header is
\* flipped: two protected identifiers differ in two bits or more.
Distance(m, n) == Cardinality({w \in Weights : Bit(m, w) # Bit(n, w)})
HeaderDistance ==
    step = "id" => \A other \in 0..63 \ {raw_id} :
                     Distance(ProtectedId(raw_id), ProtectedId(other)) >= 2

\* The accumulator never reaches the width of its type: nothing is lost in it
\* before the carries are folded.
AccumulatorBound == sum <= 255 * (i + 1)

\* A turn of the fold loop (which has no bound in the code) keeps the value
\* modulo 255, which is what end-around carry computes, and makes it smaller.
FoldPreserves == [][step = "fold" /\ step' = "fold" => sum' % 255 = sum % 255 /\ sum' < sum]_frameVars
=============================================================================
