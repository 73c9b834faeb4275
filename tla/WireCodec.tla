------------------------------ MODULE WireCodec ------------------------------
(***************************************************************************)
(* The byte level of the wire: the big-endian field helpers and the        *)
(* checksum of types.h, and the word swap of NCSI_TxBePacket() in ncsi.c.  *)
(*                                                                         *)
(* A packet is a function from byte offsets to bytes.  The two routines    *)
(* with loops take one action per iteration; each call is on its own.      *)
(***************************************************************************)
EXTENDS Integers

CONSTANTS
  Base,      \* values of a byte (256)
  Size,      \* bytes of the packet buffer
  SwapMax,   \* sizeof(swapped) (256)
  None       \* nothing handed over; a byte of the stack never written

Byte    == 0 .. Base - 1
Offsets == 0 .. Size - 1

\* 2^16 and 2^32, for bytes of Base values.
Half == Base * Base
Full == Half * Half

ASSUME CodecAssumption ==
  /\ Base \in Nat /\ Base > 1
  /\ Size \in Nat /\ SwapMax \in Nat
  /\ Size - 4 <= 2 * Half   \* no region has more than 2^16 words
  /\ None \notin Byte

VARIABLES
  pc,        \* where the running call is
  packet,    \* the packet
  call,      \* its arguments: the region, or the length with start 0
  i,         \* the loop's index
  sum,       \* ncsi_compute_checksum(): the accumulator
  swapped,   \* NCSI_TxPacket_internal(): the buffer on the stack
  handed     \* what NCSI_TxBePacket() handed to Network_TxFrame(), if anything

vars == <<pc, packet, call, i, sum, swapped, handed>>

----------------------------------------------------------------------------
(* Big-endian fields *)

ncsi_rd16(p, o) == p[o] * Base + p[o + 1]

ncsi_rd32(p, o) ==
  p[o] * (Base * Half) + p[o + 1] * Half + p[o + 2] * Base + p[o + 3]

ncsi_wr32(p, o, v) ==
  [p EXCEPT ![o] = (v \div (Base * Half)) % Base, ![o + 1] = (v \div Half) % Base,
            ![o + 2] = (v \div Base) % Base, ![o + 3] = v % Base]

\* The reversal of a word's four bytes, by masks and shifts.
ncsi_be32toh(v) ==
  (v % Base) * (Base * Half) + ((v \div Base) % Base) * Half
    + ((v \div Half) % Base) * Base + ((v \div (Base * Half)) % Base)

----------------------------------------------------------------------------
(* ncsi_compute_checksum() *)

\* Operators marked "fault:" are bugs this code could have had.  No definition
\* uses them; each shows that a property notices such a bug.

Returned == pc \in {"idle", "stored", "refused", "sent"}

End == call.start + call.len

\* The locals of a call are gone when it returns.
FreshStack == [o \in 0 .. SwapMax - 1 |-> None]

\* The checksum field follows the region; both lie in the packet.
ncsi_compute_checksum(start, len) ==
  /\ Returned /\ start + len + 4 <= Size
  /\ pc' = "sum" /\ call' = [start |-> start, len |-> len]
  /\ i' = start /\ sum' = 0
  /\ swapped' = FreshStack /\ handed' = None
  /\ UNCHANGED packet

\* fault: the loop takes a word that is not whole
AddWordPastEnd ==
  /\ pc = "sum" /\ i < End
  /\ sum' = (sum + ncsi_rd16(packet, i)) % Full
  /\ i' = i + 2
  /\ UNCHANGED <<pc, packet, call, swapped, handed>>

\* fault: the accumulator is as wide as a word
AddWordNarrow ==
  /\ pc = "sum" /\ i + 2 <= End
  /\ sum' = (sum + ncsi_rd16(packet, i)) % Half
  /\ i' = i + 2
  /\ UNCHANGED <<pc, packet, call, swapped, handed>>

AddWord ==
  /\ pc = "sum" /\ i + 2 <= End
  /\ sum' = (sum + ncsi_rd16(packet, i)) % Full
  /\ i' = i + 2
  /\ UNCHANGED <<pc, packet, call, swapped, handed>>

\* fault: a trailing odd byte is dropped
AddNoOddByte ==
  /\ pc = "sum" /\ i + 2 > End
  /\ pc' = "store"
  /\ UNCHANGED <<packet, call, i, sum, swapped, handed>>

\* A trailing odd byte is the high half of a word padded with zero.
AddOddByte ==
  /\ pc = "sum" /\ i + 2 > End
  /\ sum' = IF i < End THEN (sum + packet[i] * Base) % Full ELSE sum
  /\ pc' = "store"
  /\ UNCHANGED <<packet, call, i, swapped, handed>>

\* The 2's complement of the sum.
Compensation == (Full - sum) % Full

Store ==
  /\ pc = "store"
  /\ packet' = ncsi_wr32(packet, End, Compensation)
  /\ pc' = "stored"
  /\ UNCHANGED <<call, i, sum, swapped, handed>>

----------------------------------------------------------------------------
(* NCSI_TxBePacket(): NCSI_TxPacket_internal() with swap_words *)

FullWords == call.len \div 4

\* A packet longer than the buffer on the stack is not sent.
NCSI_TxBePacket(packet_len) ==
  /\ Returned
  /\ call' = [start |-> 0, len |-> packet_len]
  /\ i' = 0 /\ sum' = 0 /\ handed' = None
  /\ swapped' = FreshStack
  /\ pc' = IF packet_len > SwapMax THEN "refused" ELSE "swap"
  /\ UNCHANGED packet

SwapWord ==
  /\ pc = "swap" /\ i < FullWords
  /\ LET off == i * 4
     IN  swapped' = [swapped EXCEPT ![off] = packet[off + 3], ![off + 1] = packet[off + 2],
                                    ![off + 2] = packet[off + 1], ![off + 3] = packet[off]]
  /\ i' = i + 1
  /\ UNCHANGED <<pc, packet, call, sum, handed>>

WordsSwapped ==
  /\ pc = "swap" /\ i = FullWords
  /\ pc' = "tail" /\ i' = FullWords * 4
  /\ UNCHANGED <<packet, call, sum, swapped, handed>>

CopyByte ==
  /\ pc = "tail" /\ i < call.len
  /\ swapped' = [swapped EXCEPT ![i] = packet[i]]
  /\ i' = i + 1
  /\ UNCHANGED <<pc, packet, call, sum, handed>>

\* fault: the bytes after the last whole word are not copied
HandOverEarly ==
  /\ pc = "tail"
  /\ handed' = [o \in 0 .. call.len - 1 |-> swapped[o]]
  /\ pc' = "sent"
  /\ UNCHANGED <<packet, call, i, sum, swapped>>

\* What Network_TxFrame() answers is ignored, and nothing is counted.
HandOver ==
  /\ pc = "tail" /\ i = call.len
  /\ handed' = [o \in 0 .. call.len - 1 |-> swapped[o]]
  /\ pc' = "sent"
  /\ UNCHANGED <<packet, call, i, sum, swapped>>

----------------------------------------------------------------------------

Init ==
  /\ pc = "idle" /\ packet \in [Offsets -> Byte]
  /\ call = [start |-> 0, len |-> 0] /\ i = 0 /\ sum = 0
  /\ swapped = FreshStack /\ handed = None

Next ==
  \/ \E start, len \in 0 .. Size : ncsi_compute_checksum(start, len)
  \/ AddWord
  \/ AddOddByte
  \/ Store
  \/ \E packet_len \in 0 .. Size : NCSI_TxBePacket(packet_len)
  \/ SwapWord
  \/ WordsSwapped
  \/ CopyByte
  \/ HandOver

Spec == Init /\ [][Next]_vars

----------------------------------------------------------------------------
(* Properties *)

\* The type invariant; a loop never looks outside its region, its packet or the
\* buffer on the stack.
CodecTypeOK ==
  /\ pc \in {"idle", "sum", "store", "stored", "swap", "tail", "refused", "sent"}
  /\ packet \in [Offsets -> Byte]
  /\ call \in [start : 0 .. Size, len : 0 .. Size]
  /\ i \in 0 .. Size /\ sum \in 0 .. Full - 1
  /\ pc \in {"sum", "store"} => i <= End /\ End + 4 <= Size
  /\ pc \in {"swap", "tail"} => i <= call.len /\ call.len <= SwapMax
  /\ swapped \in [0 .. SwapMax - 1 -> Byte \cup {None}]
  /\ handed = None \/ handed \in [0 .. call.len - 1 -> Byte]

\* The n-th byte of a region counts as the high or as the low half of its word.
Weight(n) == IF n % 2 = 1 THEN Base ELSE 1

\* What the first n bytes of a region add up to, for each n.
PrefixSums(p, start, len) ==
  LET sums[n \in 0 .. len] ==
        IF n = 0 THEN 0
        ELSE sums[n - 1] + p[start + n - 1] * Weight(n)
  IN  sums

\* The sum a receiver takes, byte by byte.
RegionSum == PrefixSums(packet, call.start, call.len)[call.len]

\* A receiver accepts what ncsi_compute_checksum() stored: the 32-bit sum of the
\* region's 16-bit words, of an odd number of bytes too, and the compensation
\* after it make zero, and storing it changed no byte of the region.
ChecksumCompensates ==
  pc = "stored" => (RegionSum + ncsi_rd32(packet, End)) % Full = 0

\* Zero in the field means "not calculated".  A computed checksum says so only
\* of a region of zeros: the sum of so few words cannot wrap around to zero.
ComputedIsNotSentinel ==
  pc = "stored" /\ ncsi_rd32(packet, End) = 0 =>
    \A o \in call.start .. End - 1 : packet[o] = 0

\* NCSI_TxBePacket() hands over every byte of the packet, each whole word of it
\* in the other byte order, the rest as it is, and no byte of the stack that was
\* never written.
SwapIsBeToHost ==
  pc = "sent" =>
    /\ DOMAIN handed = 0 .. call.len - 1
    /\ \A w \in 0 .. FullWords - 1 :
         ncsi_rd32(handed, w * 4) = ncsi_be32toh(ncsi_rd32(packet, w * 4))
    /\ \A o \in FullWords * 4 .. call.len - 1 : handed[o] = packet[o]
=============================================================================
