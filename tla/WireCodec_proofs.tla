-------------------------- MODULE WireCodec_proofs --------------------------
(***************************************************************************)
(* Theorems about WireCodec for packets and stack buffers of every size,   *)
(* and, where a word is put together or taken apart, for bytes of 8 bits.  *)
(***************************************************************************)
EXTENDS WireCodec, WellFoundedInduction, TLAPS

USE CodecAssumption

----------------------------------------------------------------------------
(* Fields *)

LEMMA ModType ==
  ASSUME NEW a \in Int, NEW m \in Nat, m > 0 PROVE a % m \in 0 .. m - 1
OBVIOUS

LEMMA HalfType == Half \in Nat /\ Half > 0
BY DEF Half

LEMMA FullType == Full \in Nat /\ Full > 0
BY HalfType DEF Full

LEMMA DivType ==
  ASSUME NEW a \in Int, NEW m \in Nat, m > 0 PROVE a \div m \in Int
OBVIOUS

\* Writing a word keeps a packet a packet, wherever the word is.
LEMMA Wr32Type ==
  ASSUME NEW p \in [Offsets -> Byte], NEW o \in Int, NEW v \in Int
  PROVE  ncsi_wr32(p, o, v) \in [Offsets -> Byte]
<1>1. /\ Base \in Nat /\ Base > 0
      /\ Half \in Nat /\ Half > 0
      /\ Base * Half \in Nat /\ Base * Half > 0
  BY HalfType
<1>2. /\ (v \div (Base * Half)) % Base \in Byte /\ (v \div Half) % Base \in Byte
      /\ (v \div Base) % Base \in Byte /\ v % Base \in Byte
  BY <1>1, DivType, ModType DEF Byte
<1> QED BY <1>2 DEF ncsi_wr32

\* Quotient and remainder by the number of values of a byte.
LEMMA Div256 ==
  ASSUME NEW n \in Nat
  PROVE  n \div 256 \in Nat /\ n % 256 \in 0..255 /\ n = (n \div 256) * 256 + (n % 256)
BY SMT

\* A 32-bit value is put together again from its four bytes.
LEMMA Digits ==
  ASSUME NEW v \in Nat, v < 65536 * 65536
  PROVE  v = ((v \div 16777216) % 256) * 16777216 + ((v \div 65536) % 256) * 65536
            + ((v \div 256) % 256) * 256 + (v % 256)
<1> DEFINE q == v \div 256
           r == q \div 256
           a == r \div 256
<1>1. v = q * 256 + (v % 256) /\ q \in Nat /\ v % 256 \in 0..255
  BY Div256
<1>2. q = r * 256 + (q % 256) /\ r \in Nat /\ q % 256 \in 0..255
  BY <1>1, Div256
<1>3. r = a * 256 + (r % 256) /\ a \in Nat /\ r % 256 \in 0..255
  BY <1>2, Div256
<1>4. v \div 65536 = r
  BY SMT
<1>5. v \div 16777216 = a
  BY SMT
<1> HIDE DEF q, r, a
<1>6. v >= q * 256 /\ q >= r * 256 /\ r >= a * 256
  BY <1>1, <1>2, <1>3, SMT
<1>7. a < 256
  <2>1. v >= a * 16777216
    BY <1>1, <1>2, <1>3, <1>6, SMT
  <2> QED BY <1>3, <2>1, SMT
<1>8. a % 256 = a
  BY <1>3, <1>7, SMT
<1>9. v = a * 16777216 + (r % 256) * 65536 + (q % 256) * 256 + (v % 256)
  BY <1>1, <1>2, <1>3, SMT
<1> QED BY <1>4, <1>5, <1>8, <1>9, SMT DEF q

\* What is written as a 32-bit field is read back from it.
LEMMA ReadBack ==
  ASSUME Base = 256, NEW p \in [Offsets -> Byte], NEW o \in Nat, o + 4 <= Size,
         NEW v \in Nat, v < Full
  PROVE  ncsi_rd32(ncsi_wr32(p, o, v), o) = v
<1>1. Half = 65536 /\ Base * Half = 16777216
  BY SMT DEF Half
<1>2. v < 65536 * 65536
  BY <1>1, SMT DEF Full
<1>3. o \in Offsets /\ o + 1 \in Offsets /\ o + 2 \in Offsets /\ o + 3 \in Offsets
  BY DEF Offsets
<1>4. LET q == ncsi_wr32(p, o, v) IN
      /\ q[o] = (v \div (Base * Half)) % Base /\ q[o + 1] = (v \div Half) % Base
      /\ q[o + 2] = (v \div Base) % Base /\ q[o + 3] = v % Base
  BY <1>3 DEF ncsi_wr32
<1> QED BY <1>1, <1>2, <1>4, Digits, SMT DEF ncsi_rd32

\* be32toh() of the bytes a, b, c, d is d, c, b, a.
LEMMA Reversal ==
  ASSUME Base = 256, NEW a \in Byte, NEW b \in Byte, NEW c \in Byte, NEW d \in Byte
  PROVE  ncsi_be32toh(a * (Base * Half) + b * Half + c * Base + d)
           = d * (Base * Half) + c * Half + b * Base + a
<1>1. Half = 65536 /\ Base * Half = 16777216
  BY DEF Half
<1> DEFINE v == a * 16777216 + b * 65536 + c * 256 + d
<1>2. /\ a \in 0..255 /\ b \in 0..255 /\ c \in 0..255 /\ d \in 0..255
  BY DEF Byte
<1>3. v % 256 = d /\ v \div 256 = a * 65536 + b * 256 + c
  BY <1>2
<1>4. (v \div 256) % 256 = c
  BY <1>2, <1>3
<1>5. v \div 65536 = a * 256 + b /\ (v \div 65536) % 256 = b
  BY <1>2
<1>6. v \div 16777216 = a /\ (v \div 16777216) % 256 = a
  BY <1>2
<1> QED BY <1>1, <1>3, <1>4, <1>5, <1>6 DEF ncsi_be32toh

----------------------------------------------------------------------------
(* Types and bounds *)

\* The strengthening: where the word loop and the byte loop are, and what they
\* have written so far.
Expected(o) ==
  IF o < FullWords * 4 THEN packet[4 * (o \div 4) + 3 - (o % 4)] ELSE packet[o]

SwapInv ==
  /\ pc \in {"swap", "tail", "sent"} => call.len <= SwapMax
  /\ pc = "swap" =>
       i <= FullWords /\ \A o \in 0 .. 4 * i - 1 : swapped[o] = Expected(o)
  /\ pc = "tail" =>
       FullWords * 4 <= i /\ \A o \in 0 .. i - 1 : swapped[o] = Expected(o)
  /\ pc = "sent" => handed = [o \in 0 .. call.len - 1 |-> Expected(o)]

CodecInv == CodecTypeOK /\ SwapInv

LEMMA FreshStackType == FreshStack \in [0 .. SwapMax - 1 -> Byte \cup {None}]
BY DEF FreshStack

LEMMA LengthFacts ==
  ASSUME CodecTypeOK
  PROVE  /\ FullWords \in Nat /\ FullWords * 4 <= call.len
         /\ call.len \in Nat /\ call.len <= Size
         /\ call.len < FullWords * 4 + 4
BY DEF CodecTypeOK, FullWords

LEMMA ExpectedType ==
  ASSUME CodecTypeOK, NEW o \in 0 .. call.len - 1
  PROVE  Expected(o) \in Byte
<1>1. o \in Offsets
  BY LengthFacts DEF Offsets
<1>2. ASSUME o < FullWords * 4 PROVE 4 * (o \div 4) + 3 - (o % 4) \in Offsets
  BY <1>2, LengthFacts DEF Offsets
<1> QED BY <1>1, <1>2 DEF Expected, CodecTypeOK

LEMMA CodecStep == CodecInv /\ [Next]_vars => CodecInv'
<1> SUFFICES ASSUME CodecInv, [Next]_vars PROVE CodecInv'
  OBVIOUS
<1>0. /\ CodecTypeOK /\ SwapInv
      /\ packet \in [Offsets -> Byte]
      /\ swapped \in [0 .. SwapMax - 1 -> Byte \cup {None}]
      /\ call.start \in 0 .. Size /\ call.len \in 0 .. Size
      /\ i \in 0 .. Size /\ sum \in 0 .. Full - 1
  BY DEF CodecInv, CodecTypeOK
<1>1. ASSUME NEW start \in 0 .. Size, NEW len \in 0 .. Size,
             ncsi_compute_checksum(start, len)
      PROVE  CodecInv'
  BY <1>0, <1>1, FreshStackType, FullType
  DEF ncsi_compute_checksum, CodecInv, CodecTypeOK, SwapInv, End
<1>2. CASE AddWord
  <2>1. i \in Offsets /\ i + 1 \in Offsets
    BY <1>0, <1>2 DEF AddWord, CodecTypeOK, End, Offsets
  <2>2. ncsi_rd16(packet, i) \in Int
    BY <1>0, <2>1 DEF ncsi_rd16, Byte
  <2>3. sum' \in 0 .. Full - 1
    BY <1>0, <1>2, <2>2, ModType, FullType DEF AddWord
  <2> QED BY <1>0, <1>2, <2>3 DEF AddWord, CodecInv, CodecTypeOK, SwapInv, End
<1>3. CASE AddOddByte
  <2>1. ASSUME i < End PROVE (sum + packet[i] * Base) % Full \in 0 .. Full - 1
    <3>1. i \in Offsets
      BY <1>0, <1>3, <2>1 DEF AddOddByte, CodecTypeOK, End, Offsets
    <3>2. packet[i] \in Byte
      BY <1>0, <3>1
    <3>3. packet[i] * Base \in Int
      BY <3>2 DEF Byte
    <3> QED BY <1>0, <3>3, ModType, FullType
  <2>2. sum' \in 0 .. Full - 1
    BY <1>0, <1>3, <2>1 DEF AddOddByte
  <2> QED BY <1>0, <1>3, <2>2 DEF AddOddByte, CodecInv, CodecTypeOK, SwapInv, End
<1>4. CASE Store
  <2>1. Compensation \in Int /\ End \in Int
    BY <1>0, FullType, ModType DEF Compensation, End
  <2>2. packet' \in [Offsets -> Byte]
    BY <1>0, <1>4, <2>1, Wr32Type DEF Store
  <2> QED BY <1>0, <1>4, <2>2 DEF Store, CodecInv, CodecTypeOK, SwapInv
<1>5. ASSUME NEW packet_len \in 0 .. Size, NCSI_TxBePacket(packet_len)
      PROVE  CodecInv'
  <2>1. FullWords' \in Nat
    BY <1>5 DEF NCSI_TxBePacket, FullWords
  <2> QED BY <1>0, <1>5, <2>1, FreshStackType, FullType
      DEF NCSI_TxBePacket, CodecInv, CodecTypeOK, SwapInv
<1>6. CASE SwapWord
  <2> DEFINE off == i * 4
  <2>1. /\ off \in 0 .. SwapMax - 1 /\ off + 1 \in 0 .. SwapMax - 1
        /\ off + 2 \in 0 .. SwapMax - 1 /\ off + 3 \in 0 .. SwapMax - 1
        /\ off \in Offsets /\ off + 1 \in Offsets
        /\ off + 2 \in Offsets /\ off + 3 \in Offsets
        /\ off + 3 < FullWords * 4
    BY <1>0, <1>6, LengthFacts DEF SwapWord, SwapInv, Offsets
  <2>2. swapped' = [swapped EXCEPT ![off] = packet[off + 3], ![off + 1] = packet[off + 2],
                                   ![off + 2] = packet[off + 1], ![off + 3] = packet[off]]
    BY <1>6 DEF SwapWord
  <2>3. swapped' \in [0 .. SwapMax - 1 -> Byte \cup {None}]
    <3> HIDE DEF off
    <3> QED BY <1>0, <2>1, <2>2
  <2>4. /\ swapped'[off] = packet[off + 3] /\ swapped'[off + 1] = packet[off + 2]
        /\ swapped'[off + 2] = packet[off + 1] /\ swapped'[off + 3] = packet[off]
        /\ \A o \in 0 .. off - 1 : swapped'[o] = swapped[o]
    BY <1>0, <2>1, <2>2
  <2>5. UNCHANGED <<packet, call>> /\ FullWords' = FullWords /\ i' = i + 1 /\ pc' = "swap"
    BY <1>6 DEF SwapWord, FullWords
  <2>6. /\ off \div 4 = i /\ (off + 1) \div 4 = i
        /\ (off + 2) \div 4 = i /\ (off + 3) \div 4 = i
        /\ off % 4 = 0 /\ (off + 1) % 4 = 1 /\ (off + 2) % 4 = 2 /\ (off + 3) % 4 = 3
    BY <1>0
  <2>7. \A o \in 0 .. off - 1 : swapped[o] = Expected(o)
    <3>1. 4 * i - 1 = off - 1
      BY <1>0
    <3> QED BY <1>0, <1>6, <3>1 DEF SwapWord, SwapInv
  <2>8. FullWords \in Nat /\ i \in Nat
    BY <1>0, LengthFacts
  <2>9. ASSUME NEW o \in 0 .. 4 * (i + 1) - 1 PROVE swapped'[o] = Expected(o)
    <3>1. CASE o < off
      BY <2>4, <2>7, <2>8, <3>1
    <3>2. CASE o = off
      BY <2>1, <2>4, <2>6, <2>8, <3>2 DEF Expected
    <3>3. CASE o = off + 1
      BY <2>1, <2>4, <2>6, <2>8, <3>3 DEF Expected
    <3>4. CASE o = off + 2
      BY <2>1, <2>4, <2>6, <2>8, <3>4 DEF Expected
    <3>5. CASE o = off + 3
      BY <2>1, <2>4, <2>6, <2>8, <3>5 DEF Expected
    <3> QED BY <2>8, <3>1, <3>2, <3>3, <3>4, <3>5
  <2>10. i + 1 <= FullWords /\ i + 1 <= call.len
    BY <1>0, <1>6, LengthFacts DEF SwapWord
  <2>11. SwapInv'
    BY <1>0, <1>6, <2>5, <2>9, <2>10 DEF SwapInv, SwapWord, Expected
  <2>12. UNCHANGED <<sum, handed>> /\ call.len <= SwapMax
    BY <1>0, <1>6 DEF SwapWord, CodecTypeOK
  <2> QED BY <1>0, <2>3, <2>5, <2>10, <2>11, <2>12 DEF CodecInv, CodecTypeOK
<1>7. CASE WordsSwapped
  <2>1. FullWords' = FullWords /\ FullWords \in Nat /\ FullWords * 4 <= call.len
    BY <1>0, <1>7, LengthFacts DEF WordsSwapped, FullWords
  <2>2. i' = FullWords * 4 /\ pc' = "tail" /\ UNCHANGED <<packet, call, swapped, handed, sum>>
    BY <1>7 DEF WordsSwapped
  <2>3. \A o \in 0 .. FullWords * 4 - 1 : swapped[o] = Expected(o)
    <3>1. 4 * i - 1 = FullWords * 4 - 1
      BY <1>0, <1>7, <2>1 DEF WordsSwapped
    <3> QED BY <1>0, <1>7, <3>1 DEF WordsSwapped, SwapInv
  <2>4. SwapInv'
    BY <1>0, <1>7, <2>1, <2>2, <2>3 DEF WordsSwapped, SwapInv, Expected
  <2> QED BY <1>0, <1>7, <2>1, <2>2, <2>4 DEF WordsSwapped, CodecInv, CodecTypeOK
<1>8. CASE CopyByte
  <2>1. i \in Offsets /\ i \in 0 .. SwapMax - 1
    BY <1>0, <1>8 DEF CopyByte, SwapInv, Offsets
  <2>2. /\ swapped' \in [0 .. SwapMax - 1 -> Byte \cup {None}]
        /\ swapped'[i] = packet[i]
        /\ \A o \in 0 .. i - 1 : swapped'[o] = swapped[o]
    BY <1>0, <1>8, <2>1 DEF CopyByte
  <2>3. UNCHANGED <<packet, call>> /\ FullWords' = FullWords /\ i' = i + 1 /\ pc' = "tail"
    BY <1>8 DEF CopyByte, FullWords
  <2>4. FullWords * 4 <= i /\ FullWords * 4 \in Nat
    BY <1>0, <1>8, LengthFacts DEF CopyByte, SwapInv
  <2>5. ASSUME NEW o \in 0 .. i PROVE swapped'[o] = Expected(o)
    <3>1. CASE o < i
      BY <1>0, <1>8, <2>2, <3>1 DEF CopyByte, SwapInv
    <3>2. CASE o = i
      BY <1>0, <2>2, <2>4, <3>2 DEF Expected
    <3> QED BY <1>0, <3>1, <3>2
  <2>6. SwapInv'
    BY <1>0, <1>8, <2>3, <2>4, <2>5 DEF CopyByte, SwapInv, Expected
  <2> QED BY <1>0, <1>8, <2>2, <2>3, <2>6 DEF CopyByte, CodecInv, CodecTypeOK
<1>9. CASE HandOver
  <2>1. handed' = [o \in 0 .. call.len - 1 |-> Expected(o)]
    BY <1>0, <1>9 DEF HandOver, SwapInv
  <2>2. handed' \in [0 .. call.len - 1 -> Byte]
    BY <1>0, <2>1, ExpectedType
  <2>3. SwapInv'
    BY <1>0, <1>9, <2>1 DEF HandOver, SwapInv, Expected, FullWords
  <2> QED BY <1>0, <1>9, <2>2, <2>3 DEF HandOver, CodecInv, CodecTypeOK
<1>10. CASE UNCHANGED vars
  BY <1>0, <1>10 DEF vars, CodecInv, CodecTypeOK, SwapInv, End, FullWords, Expected
<1> QED BY <1>1, <1>2, <1>3, <1>4, <1>5, <1>6, <1>7, <1>8, <1>9, <1>10 DEF Next

LEMMA CodecInvariant == Spec => []CodecInv
<1>1. Init => CodecInv
  BY FreshStackType, FullType DEF Init, CodecInv, CodecTypeOK, SwapInv
<1> QED BY <1>1, CodecStep, PTL DEF Spec

\* Neither loop reads or writes outside its region, its packet or the buffer on
\* the stack, for packets and buffers of every size.
THEOREM CodecTypeCorrect == Spec => []CodecTypeOK
BY CodecInvariant, PTL DEF CodecInv

\* With bytes of 8 bits, every packet NCSI_TxBePacket() sends is the be32toh()
\* of each of its words, and its trailing bytes as they are.
THEOREM SwapCorrect == ASSUME Base = 256 PROVE Spec => []SwapIsBeToHost
<1>1. ASSUME CodecInv PROVE SwapIsBeToHost
  <2>1. SUFFICES ASSUME pc = "sent" PROVE SwapIsBeToHost
    BY DEF SwapIsBeToHost
  <2>2. handed = [o \in 0 .. call.len - 1 |-> Expected(o)] /\ CodecTypeOK
    BY <1>1, <2>1 DEF CodecInv, SwapInv
  <2>3. ASSUME NEW w \in 0 .. FullWords - 1
        PROVE  ncsi_rd32(handed, w * 4) = ncsi_be32toh(ncsi_rd32(packet, w * 4))
    <3>1. /\ w * 4 \in 0 .. call.len - 1 /\ w * 4 + 1 \in 0 .. call.len - 1
          /\ w * 4 + 2 \in 0 .. call.len - 1 /\ w * 4 + 3 \in 0 .. call.len - 1
          /\ w * 4 + 3 < FullWords * 4 /\ FullWords \in Nat
      BY <2>2, LengthFacts
    <3>2. /\ w * 4 \in Offsets /\ w * 4 + 1 \in Offsets
          /\ w * 4 + 2 \in Offsets /\ w * 4 + 3 \in Offsets
      BY <2>2, <3>1, LengthFacts DEF Offsets
    <3>3. /\ handed[w * 4] = packet[w * 4 + 3] /\ handed[w * 4 + 1] = packet[w * 4 + 2]
          /\ handed[w * 4 + 2] = packet[w * 4 + 1] /\ handed[w * 4 + 3] = packet[w * 4]
      BY <2>2, <3>1 DEF Expected
    <3>4. /\ packet[w * 4] \in Byte /\ packet[w * 4 + 1] \in Byte
          /\ packet[w * 4 + 2] \in Byte /\ packet[w * 4 + 3] \in Byte
      BY <2>2, <3>2 DEF CodecTypeOK
    <3> QED BY <3>3, <3>4, Reversal DEF ncsi_rd32
  <2>4. ASSUME NEW o \in FullWords * 4 .. call.len - 1 PROVE handed[o] = packet[o]
    BY <2>2, LengthFacts DEF Expected
  <2> QED BY <2>2, <2>3, <2>4 DEF SwapIsBeToHost
<1> QED BY <1>1, CodecInvariant, PTL

\* With bytes of 8 bits, what Store leaves in the field is the 2's complement of
\* the accumulator: together they make zero.
LEMMA StoreCompensates ==
  ASSUME Base = 256, CodecTypeOK, Store
  PROVE  (sum' + ncsi_rd32(packet', End')) % Full = 0
<1>1. sum' = sum /\ End' = End /\ packet' = ncsi_wr32(packet, End, Compensation)
  BY DEF Store, End
<1>2. sum \in Nat /\ sum < Full /\ packet \in [Offsets -> Byte]
      /\ End \in Nat /\ End + 4 <= Size
  BY FullType DEF CodecTypeOK, Store, End
<1>3. Compensation \in Nat /\ Compensation < Full
  <2>1. Full - sum \in Int
    BY <1>2, FullType
  <2> QED BY <2>1, ModType, FullType DEF Compensation
<1>4. ncsi_rd32(packet', End') = Compensation
  BY <1>1, <1>2, <1>3, ReadBack
<1>5. (sum + Compensation) % Full = 0
  <2>1. CASE sum = 0
    <3>1. Compensation = Full % Full
      BY <2>1, FullType DEF Compensation
    <3>2. Full % Full = 0
      BY FullType
    <3> QED BY <2>1, <3>1, <3>2, FullType
  <2>2. CASE sum > 0
    <3>1. Full - sum \in 0 .. Full - 1
      BY <1>2, <2>2, FullType
    <3>2. Compensation = Full - sum
      BY <3>1, FullType DEF Compensation
    <3> QED BY <1>2, <3>2, FullType
  <2> QED BY <1>2, <2>1, <2>2
<1> QED BY <1>1, <1>4, <1>5

\* With bytes of 8 bits, the field of every checksum the code stores is the
\* 2's complement of the sum its loop ended with.
THEOREM FieldCompensates ==
  ASSUME Base = 256
  PROVE  Spec => [](pc = "stored" => (sum + ncsi_rd32(packet, End)) % Full = 0)
<1> DEFINE Inv == pc = "stored" => (sum + ncsi_rd32(packet, End)) % Full = 0
<1>1. Init => Inv
  BY DEF Init
<1>2. ASSUME CodecTypeOK, Inv, [Next]_vars PROVE Inv'
  <2>1. CASE Store
    BY <1>2, <2>1, StoreCompensates
  <2>2. CASE pc' # "stored"
    BY <2>2
  <2>3. CASE UNCHANGED vars
    BY <1>2, <2>3 DEF vars, End
  <2> QED BY <1>2, <2>1, <2>2, <2>3
      DEF Next, ncsi_compute_checksum, AddWord, AddOddByte, NCSI_TxBePacket, SwapWord,
          WordsSwapped, CopyByte, HandOver
<1> QED BY <1>1, <1>2, CodecTypeCorrect, PTL DEF Spec

----------------------------------------------------------------------------
(* The sum of a region *)

\* A set of natural numbers has a least element: what stands for induction here.
LEMMA LeastElement ==
  ASSUME NEW T \in SUBSET Nat, T # {}
  PROVE  \E x \in T : \A y \in T : x <= y
<1>1. \E x \in T : \A y \in T : ~ (<<y, x>> \in OpToRel(<, Nat))
  BY NatLessThanWellFounded, WFMin
<1>2. ASSUME NEW x \in T, NEW y \in T, ~ (<<y, x>> \in OpToRel(<, Nat))
      PROVE  x <= y
  BY <1>2 DEF OpToRel
<1> QED BY <1>1, <1>2

\* What the equation of PrefixSums says of a candidate.
AddsUp(sums, p, start, len) ==
  sums = [n \in 0 .. len |->
            IF n = 0 THEN 0
            ELSE sums[n - 1] + p[start + n - 1] * Weight(n)]

\* The equation has a solution for every length: one for a shorter region is
\* continued by one byte, so there is no shortest region without.
LEMMA SumsExist ==
  ASSUME NEW p, NEW start, NEW len \in Nat
  PROVE  \E sums : AddsUp(sums, p, start, len)
<1> DEFINE T == {n \in Nat : ~ \E sums : AddsUp(sums, p, start, n)}
<1>1. SUFFICES ASSUME T # {} PROVE FALSE
  OBVIOUS
<1>2. PICK n \in T : \A m \in T : n <= m
  BY <1>1, LeastElement
<1>3. n # 0
  <2> DEFINE zero == [m \in 0 .. 0 |-> 0]
  <2>1. AddsUp(zero, p, start, 0)
    BY DEF AddsUp
  <2> QED BY <1>2, <2>1
<1>4. n - 1 \in Nat /\ n - 1 \notin T
  BY <1>2, <1>3
<1>5. PICK s : AddsUp(s, p, start, n - 1)
  BY <1>4
<1> DEFINE step(g, m) == g[m - 1] + p[start + m - 1] * Weight(m)
           t == [m \in 0 .. n |-> IF m < n THEN s[m] ELSE step(s, n)]
<1>6. \A m \in 0 .. n - 1 : s[m] = IF m = 0 THEN 0 ELSE step(s, m)
  BY <1>5 DEF AddsUp
<1>7. ASSUME NEW m \in 0 .. n PROVE t[m] = IF m = 0 THEN 0 ELSE step(t, m)
  <2>1. t[m] = IF m < n THEN s[m] ELSE step(s, n)
    OBVIOUS
  <2>2. m # 0 => t[m - 1] = s[m - 1]
    <3>1. m # 0 => m - 1 \in 0 .. n /\ m - 1 < n
      BY <1>4
    <3> QED BY <3>1
  <2>3. m < n => m \in 0 .. n - 1
    BY <1>4
  <2>4. ~ m < n => m = n
    BY <1>4
  <2> HIDE DEF t
  <2> QED BY <1>3, <1>6, <2>1, <2>2, <2>3, <2>4
<1>8. t = [m \in 0 .. n |-> t[m]]
  OBVIOUS
<1>9. AddsUp(t, p, start, n)
  <2> HIDE DEF t
  <2> QED BY <1>7, <1>8 DEF AddsUp
<1> QED BY <1>2, <1>9

LEMMA SumsAddUp ==
  ASSUME NEW p, NEW start, NEW len \in Nat
  PROVE  AddsUp(PrefixSums(p, start, len), p, start, len)
<1>1. \E sums : AddsUp(sums, p, start, len)
  BY SumsExist
<1> QED BY <1>1 DEF PrefixSums, AddsUp

\* Sums of regions that hold the same bytes are the same.
SameBytes(p, q, start, len) == \A o \in start .. start + len - 1 : p[o] = q[o]

LEMMA SumsAgree ==
  ASSUME NEW p, NEW q, NEW start \in Nat, NEW len \in Nat, SameBytes(p, q, start, len)
  PROVE  PrefixSums(p, start, len)[len] = PrefixSums(q, start, len)[len]
<1> DEFINE P == PrefixSums(p, start, len)
           Q == PrefixSums(q, start, len)
           T == {n \in 0 .. len : P[n] # Q[n]}
<1>1. AddsUp(P, p, start, len) /\ AddsUp(Q, q, start, len)
  BY SumsAddUp
<1> HIDE DEF P, Q
<1>2. SUFFICES ASSUME T # {} PROVE FALSE
  BY DEF P, Q
<1>3. PICK n \in T : \A m \in T : n <= m
  <2>1. T \in SUBSET Nat
    OBVIOUS
  <2> QED BY <1>2, <2>1, LeastElement
<1>4. n # 0
  BY <1>1, <1>3 DEF AddsUp
<1>5. n - 1 \in 0 .. len /\ P[n - 1] = Q[n - 1]
  BY <1>3, <1>4
<1>6. p[start + n - 1] = q[start + n - 1]
  BY <1>3, <1>4 DEF SameBytes
<1>7. /\ P[n] = P[n - 1] + p[start + n - 1] * Weight(n)
      /\ Q[n] = Q[n - 1] + q[start + n - 1] * Weight(n)
  BY <1>1, <1>3, <1>4 DEF AddsUp
<1> QED BY <1>3, <1>5, <1>6, <1>7

\* The strengthening: the accumulator has not wrapped around, because a region
\* has few enough words, so it is the sum of the bytes the loop has passed, and
\* it is zero only if all of those are.
Passed == i - call.start

ZeroUpTo(last) == \A o \in call.start .. last - 1 : packet[o] = 0

SumInv ==
  /\ pc = "sum" =>
       /\ Passed \in 0 .. call.len /\ Passed % 2 = 0
       /\ sum = PrefixSums(packet, call.start, call.len)[Passed]
       /\ 2 * sum <= Passed * (Half - 1)
       /\ sum = 0 => ZeroUpTo(i)
  /\ pc \in {"store", "stored"} =>
       /\ sum = RegionSum
       /\ sum = 0 => ZeroUpTo(End)

\* What n bytes of a region add up to: nothing, or a byte more than n - 1 bytes.
LEMMA NoSum ==
  ASSUME NEW p, NEW start \in Nat, NEW len \in Nat
  PROVE  PrefixSums(p, start, len)[0] = 0
<1> DEFINE P == PrefixSums(p, start, len)
<1>1. AddsUp(P, p, start, len)
  BY SumsAddUp
<1> HIDE DEF P
<1>2. P[0] = 0
  BY <1>1 DEF AddsUp
<1> QED BY <1>2 DEF P

LEMMA NextSum ==
  ASSUME NEW p, NEW start \in Nat, NEW len \in Nat
  PROVE  \A n \in Nat : n < len =>
           PrefixSums(p, start, len)[n + 1] =
             PrefixSums(p, start, len)[n] + p[start + n] * Weight(n + 1)
<1> TAKE n \in Nat
<1> HAVE n < len
<1> DEFINE P == PrefixSums(p, start, len)
<1>1. AddsUp(P, p, start, len)
  BY SumsAddUp
<1> HIDE DEF P
<1>2. n + 1 \in 0 .. len /\ n + 1 # 0 /\ (n + 1) - 1 = n /\ start + (n + 1) - 1 = start + n
  OBVIOUS
<1>3. P[n + 1] = P[n] + p[start + n] * Weight(n + 1)
  BY <1>1, <1>2 DEF AddsUp
<1> QED BY <1>3 DEF P

LEMMA EvenWeights ==
  ASSUME NEW n \in Nat, n % 2 = 0 PROVE Weight(n + 1) = Base /\ Weight(n + 2) = 1
BY DEF Weight

\* Two bytes that are a word of the region.
LEMMA WordSum ==
  ASSUME NEW p, NEW start \in Nat, NEW len \in Nat, NEW n \in Nat, n + 1 < len,
         Weight(n + 1) = Base, Weight(n + 2) = 1,
         PrefixSums(p, start, len)[n] \in Nat, p[start + n] \in Nat, p[start + n + 1] \in Nat
  PROVE  PrefixSums(p, start, len)[n + 2] =
           PrefixSums(p, start, len)[n] + ncsi_rd16(p, start + n)
<1> DEFINE P == PrefixSums(p, start, len)
<1>1. P[n + 1] = P[n] + p[start + n] * Weight(n + 1)
  BY NextSum
<1>2. P[(n + 1) + 1] = P[n + 1] + p[start + (n + 1)] * Weight((n + 1) + 1)
  BY NextSum
<1> HIDE DEF P
<1>3. (n + 1) + 1 = n + 2 /\ start + (n + 1) = start + n + 1
  OBVIOUS
<1>4. P[n + 2] = P[n + 1] + p[start + n + 1] * 1
  BY <1>2, <1>3
<1>5. P[n] \in Nat
  BY DEF P
<1>6. P[n + 2] = P[n] + (p[start + n] * Base + p[start + n + 1])
  BY <1>1, <1>4, <1>5
<1> QED BY <1>6 DEF P, ncsi_rd16

\* The last byte of a region of an odd number of bytes.
OddWord(p, o) == p[o] * Base

LEMMA OddSum ==
  ASSUME NEW p, NEW start \in Nat, NEW len \in Nat, NEW n \in Nat, n < len,
         Weight(n + 1) = Base
  PROVE  PrefixSums(p, start, len)[n + 1] =
           PrefixSums(p, start, len)[n] + OddWord(p, start + n)
<1>1. PrefixSums(p, start, len)[n + 1] =
        PrefixSums(p, start, len)[n] + p[start + n] * Weight(n + 1)
  BY NextSum
<1> QED BY <1>1 DEF OddWord

LEMMA SmallMod == ASSUME NEW t \in Nat, t <= 4294967295 PROVE t % 4294967296 = t
OBVIOUS

\* With bytes of 8 bits, a word more does not make the accumulator wrap around
\* as long as the region has no more than 2^16 words.
LEMMA NoWrap ==
  ASSUME NEW n \in Nat, n <= 131070, NEW s \in Nat, 2 * s <= n * 65535,
         NEW w \in Nat, w <= 65535
  PROVE  /\ (s + w) % 4294967296 = s + w
         /\ 2 * (s + w) <= (n + 2) * 65535
<1>1. s + w <= 4294967295 /\ s + w \in Nat
  OBVIOUS
<1>2. 2 * (s + w) <= (n + 2) * 65535
  OBVIOUS
<1>3. PICK t \in Nat : t = s + w
  BY <1>1
<1>4. t % 4294967296 = t
  BY <1>1, <1>3, SmallMod
<1> QED BY <1>2, <1>3, <1>4

LEMMA WordType ==
  ASSUME NEW a \in Nat, a <= 255, NEW b \in Nat, b <= 255
  PROVE  /\ a * 256 + b \in Nat /\ a * 256 + b <= 65535
         /\ a * 256 + b = 0 => a = 0 /\ b = 0
OBVIOUS

\* The region of a call, and the bytes in it.
LEMMA RegionFacts ==
  ASSUME CodecTypeOK, pc \in {"sum", "store"}
  PROVE  /\ call.start \in Nat /\ call.len \in Nat /\ End = call.start + call.len
         /\ End \in Nat /\ End + 4 <= Size /\ i \in Nat /\ i <= End
         /\ sum \in Nat /\ sum < Full /\ packet \in [Offsets -> Byte]
         /\ \A o \in call.start .. End - 1 : packet[o] \in Byte
BY FullType DEF CodecTypeOK, End, Offsets

LEMMA WordStep ==
  ASSUME Base = 256, CodecTypeOK, SumInv, AddWord
  PROVE  SumInv'
<1> DEFINE n == Passed
           S == PrefixSums(packet, call.start, call.len)
<1>1. /\ pc = "sum" /\ pc' = "sum" /\ i + 2 <= End /\ i' = i + 2
      /\ packet' = packet /\ call' = call
  BY DEF AddWord
<1>2. Half = 65536 /\ Full = 4294967296 /\ Size - 4 <= 131072
  BY DEF Half, Full
<1>3. /\ call.start \in Nat /\ call.len \in Nat /\ End = call.start + call.len
      /\ End + 4 <= Size /\ i \in Nat /\ i <= End /\ sum \in Nat
  BY <1>1, RegionFacts
<1>4. /\ n \in Nat /\ n <= call.len /\ i = call.start + n /\ Passed' = n + 2
      /\ n + 2 <= call.len /\ call.len <= 131072
  BY <1>1, <1>2, <1>3 DEF SumInv, Passed
<1>5. n % 2 = 0
  BY <1>1 DEF SumInv
<1>6. sum = S[n] /\ 2 * sum <= n * 65535 /\ (sum = 0 => ZeroUpTo(i))
  BY <1>1, <1>2 DEF SumInv
<1> HIDE DEF n, S
<1>7. /\ packet[i] \in Nat /\ packet[i] <= 255
      /\ packet[i + 1] \in Nat /\ packet[i + 1] <= 255
  <2>1. i \in call.start .. End - 1 /\ i + 1 \in call.start .. End - 1
    BY <1>1, <1>3, <1>4
  <2>2. packet[i] \in Byte /\ packet[i + 1] \in Byte
    BY <1>1, <2>1, RegionFacts
  <2> QED BY <2>2 DEF Byte
<1> DEFINE w == packet[i] * 256 + packet[i + 1]
<1>8. w \in Nat /\ w <= 65535 /\ (w = 0 => packet[i] = 0 /\ packet[i + 1] = 0)
  BY <1>7, WordType
<1>9. S[n + 2] = sum + w
  <2>1. Weight(n + 1) = Base /\ Weight(n + 2) = 1
    BY <1>4, <1>5, EvenWeights
  <2>2. call.start + n = i /\ call.start + n + 1 = i + 1
    BY <1>3, <1>4
  <2>3. S[n] \in Nat /\ packet[call.start + n] \in Nat /\ packet[call.start + n + 1] \in Nat
    BY <1>3, <1>6, <1>7, <2>2
  <2>4. S[n + 2] = S[n] + ncsi_rd16(packet, call.start + n)
    <3>1. call.start \in Nat /\ call.len \in Nat /\ n \in Nat /\ n + 1 < call.len
      BY <1>3, <1>4
    <3> QED BY <2>1, <2>3, <3>1, WordSum DEF S
  <2> QED BY <1>6, <2>2, <2>4 DEF ncsi_rd16
<1>10. sum' = (sum + w) % 4294967296
  BY <1>2 DEF AddWord, ncsi_rd16
<1> HIDE DEF w
<1>11. sum' = sum + w /\ 2 * sum' <= (n + 2) * 65535
  <2>1. n <= 131070
    BY <1>3, <1>4
  <2> QED BY <1>3, <1>4, <1>6, <1>8, <1>10, <2>1, NoWrap
<1>12. sum' = 0 => ZeroUpTo(i)'
  <2> SUFFICES ASSUME sum' = 0, NEW o \in call.start .. (i + 2) - 1 PROVE packet[o] = 0
    BY <1>1 DEF ZeroUpTo
  <2>1. sum = 0 /\ packet[i] = 0 /\ packet[i + 1] = 0
    BY <1>3, <1>8, <1>11
  <2>2. o \in call.start .. i - 1 \/ o = i \/ o = i + 1
    BY <1>3
  <2> QED BY <1>6, <2>1, <2>2 DEF ZeroUpTo
<1>13. Passed' \in 0 .. call.len
  BY <1>3, <1>4
<1>14. Passed' % 2 = 0
  BY <1>4, <1>5
<1>15. sum' = PrefixSums(packet', call'.start, call'.len)[Passed']
  BY <1>1, <1>4, <1>9, <1>11 DEF S
<1>16. 2 * sum' <= Passed' * (Half - 1)
  BY <1>2, <1>4, <1>11
<1> QED BY <1>1, <1>12, <1>13, <1>14, <1>15, <1>16 DEF SumInv

LEMMA OddByteStep ==
  ASSUME Base = 256, CodecTypeOK, SumInv, AddOddByte
  PROVE  SumInv'
<1> DEFINE n == Passed
           S == PrefixSums(packet, call.start, call.len)
<1>1. /\ pc = "sum" /\ pc' = "store" /\ i + 2 > End
      /\ packet' = packet /\ call' = call
  BY DEF AddOddByte
<1>2. Half = 65536 /\ Full = 4294967296 /\ Size - 4 <= 131072
  BY DEF Half, Full
<1>3. /\ call.start \in Nat /\ call.len \in Nat /\ End = call.start + call.len
      /\ End + 4 <= Size /\ i \in Nat /\ i <= End /\ sum \in Nat
  BY <1>1, RegionFacts
<1>4. n \in Nat /\ n <= call.len /\ i = call.start + n /\ call.len <= 131072
  BY <1>1, <1>2, <1>3 DEF SumInv, Passed
<1>4a. n = call.len \/ n + 1 = call.len
  BY <1>1, <1>3, <1>4
<1>5. n % 2 = 0
  BY <1>1 DEF SumInv
<1>6. sum = S[n] /\ 2 * sum <= n * 65535 /\ (sum = 0 => ZeroUpTo(i))
  BY <1>1, <1>2 DEF SumInv
<1>7. RegionSum' = S[call.len] /\ End' = End
  BY <1>1 DEF RegionSum, End
<1> HIDE DEF n, S
<1>8. CASE n = call.len
  <2>1. i = End
    BY <1>3, <1>4, <1>8
  <2>2. sum' = sum
    BY <1>3, <2>1 DEF AddOddByte
  <2>3. sum' = RegionSum'
    BY <1>6, <1>7, <1>8, <2>2
  <2>4. sum' = 0 => ZeroUpTo(End)'
    BY <1>1, <1>6, <1>7, <2>1, <2>2 DEF ZeroUpTo
  <2> QED BY <1>1, <2>3, <2>4 DEF SumInv
<1>9. CASE n + 1 = call.len
  <2>1. i + 1 = End /\ i \in call.start .. End - 1
    BY <1>3, <1>4, <1>9
  <2>2. packet[i] \in Nat /\ packet[i] <= 255
    <3>1. packet[i] \in Byte
      BY <1>1, <2>1, RegionFacts
    <3> QED BY <3>1 DEF Byte
  <2> DEFINE w == OddWord(packet, i)
  <2>3. w \in Nat /\ w <= 65535 /\ (w = 0 => packet[i] = 0)
    BY <2>2 DEF OddWord
  <2>4. sum' = (sum + w) % 4294967296
    BY <1>2, <1>3, <2>1 DEF AddOddByte, OddWord
  <2> HIDE DEF w
  <2>5. sum' = sum + w
    <3>1. n <= 131070
      <4>1. n # 131071
        BY <1>5
      <4> QED BY <1>4, <1>9, <4>1
    <3>2. n \in Nat /\ sum \in Nat /\ 2 * sum <= n * 65535 /\ w \in Nat /\ w <= 65535
      BY <1>3, <1>4, <1>6, <2>3
    <3>3. (sum + w) % 4294967296 = sum + w
      BY <3>1, <3>2, NoWrap
    <3> QED BY <2>4, <3>3
  <2>6. sum' = RegionSum'
    <3>1. call.start \in Nat /\ call.len \in Nat /\ n \in Nat /\ n < call.len
      BY <1>3, <1>4, <1>9
    <3>2. Weight(n + 1) = Base
      BY <1>4, <1>5, EvenWeights
    <3>3. S[n + 1] = S[n] + OddWord(packet, call.start + n)
      BY <3>1, <3>2, OddSum DEF S
    <3> QED BY <1>4, <1>6, <1>7, <1>9, <2>5, <3>3 DEF w
  <2>7. sum' = 0 => ZeroUpTo(End)'
    <3> SUFFICES ASSUME sum' = 0, NEW o \in call.start .. End - 1 PROVE packet[o] = 0
      BY <1>1, <1>7 DEF ZeroUpTo
    <3>1. sum = 0 /\ packet[i] = 0
      BY <1>3, <2>3, <2>5
    <3>2. o \in call.start .. i - 1 \/ o = i
      BY <1>3, <2>1
    <3> QED BY <1>6, <3>1, <3>2 DEF ZeroUpTo
  <2> QED BY <1>1, <2>6, <2>7 DEF SumInv
<1> QED BY <1>8, <1>9, <1>4a

\* Writing the field changes no byte of the region, so its sum stays.
LEMMA StoreStep ==
  ASSUME CodecTypeOK, SumInv, Store
  PROVE  SumInv'
<1>1. /\ pc = "store" /\ pc' = "stored" /\ call' = call /\ sum' = sum
      /\ packet' = ncsi_wr32(packet, End, Compensation)
  BY DEF Store
<1>2. /\ call.start \in Nat /\ call.len \in Nat /\ End = call.start + call.len
      /\ End \in Nat /\ packet \in [Offsets -> Byte]
  BY <1>1, RegionFacts
<1>3. End' = End
  BY <1>1 DEF End
<1>4. ASSUME NEW o \in call.start .. End - 1 PROVE packet'[o] = packet[o]
  <2>1. o \in Offsets
    BY <1>1, <1>2, RegionFacts DEF Offsets
  <2>2. o # End /\ o # End + 1 /\ o # End + 2 /\ o # End + 3
    BY <1>2
  <2> QED BY <1>1, <1>2, <2>1, <2>2 DEF ncsi_wr32
<1>5. RegionSum' = RegionSum
  <2>1. SameBytes(packet, packet', call.start, call.len)
    BY <1>2, <1>4 DEF SameBytes
  <2>2. PrefixSums(packet, call.start, call.len)[call.len]
          = PrefixSums(packet', call.start, call.len)[call.len]
    <3>1. call.start \in Nat /\ call.len \in Nat
      BY <1>2
    <3> QED BY <2>1, <3>1, SumsAgree
  <2> QED BY <1>1, <2>2 DEF RegionSum
<1>6. sum = 0 => ZeroUpTo(End)'
  BY <1>1, <1>3, <1>4 DEF SumInv, ZeroUpTo
<1> QED BY <1>1, <1>5, <1>6 DEF SumInv

LEMMA SumStart ==
  ASSUME NEW start \in 0 .. Size, NEW len \in 0 .. Size, CodecTypeOK,
         ncsi_compute_checksum(start, len)
  PROVE  SumInv'
<1>1. /\ pc' = "sum" /\ call'.start = start /\ call'.len = len /\ i' = start /\ sum' = 0
      /\ start \in Nat /\ len \in Nat
  BY DEF ncsi_compute_checksum
<1>2. Passed' = 0 /\ Passed' \in 0 .. call'.len /\ Passed' % 2 = 0
  BY <1>1 DEF Passed
<1>3. PrefixSums(packet', start, len)[0] = 0
  BY <1>1, NoSum
<1>4. 2 * sum' <= Passed' * (Half - 1)
  BY <1>1, <1>2, HalfType
<1>5. ZeroUpTo(i)'
  BY <1>1 DEF ZeroUpTo
<1> QED BY <1>1, <1>2, <1>3, <1>4, <1>5 DEF SumInv

LEMMA SumStep ==
  ASSUME Base = 256, CodecTypeOK, SumInv, [Next]_vars
  PROVE  SumInv'
<1>1. ASSUME NEW start \in 0 .. Size, NEW len \in 0 .. Size, ncsi_compute_checksum(start, len)
      PROVE  SumInv'
  BY <1>1, SumStart
<1>2. CASE AddWord
  BY <1>2, WordStep
<1>3. CASE AddOddByte
  BY <1>3, OddByteStep
<1>4. CASE Store
  BY <1>4, StoreStep
<1>5. CASE pc' \notin {"sum", "store", "stored"}
  BY <1>5 DEF SumInv
<1>6. CASE UNCHANGED vars
  BY <1>6 DEF vars, SumInv, Passed, RegionSum, ZeroUpTo, End
<1> QED
  BY <1>1, <1>2, <1>3, <1>4, <1>5, <1>6
  DEF Next, NCSI_TxBePacket, SwapWord, WordsSwapped, CopyByte, HandOver

LEMMA SumInvariant == ASSUME Base = 256 PROVE Spec => []SumInv
<1>1. Init => SumInv
  BY DEF Init, SumInv
<1>2. CodecTypeOK /\ SumInv /\ [Next]_vars => SumInv'
  BY SumStep
<1> QED BY <1>1, <1>2, CodecTypeCorrect, PTL DEF Spec

\* With bytes of 8 bits, what ncsi_compute_checksum() stores after a region, of
\* any length the buffer has room for, is what a receiver that adds up the whole
\* region, an odd last byte too, finds to make zero with its sum.
THEOREM ChecksumIsAccepted == ASSUME Base = 256 PROVE Spec => []ChecksumCompensates
<1>1. SumInv /\ (pc = "stored" => (sum + ncsi_rd32(packet, End)) % Full = 0)
        => ChecksumCompensates
  BY DEF SumInv, ChecksumCompensates
<1> QED BY <1>1, SumInvariant, FieldCompensates, PTL

\* With bytes of 8 bits, a computed checksum reads "not calculated" only after a
\* region of zeros: the sum of at most 2^16 words does not wrap around to zero.
THEOREM ZeroMeansZeros == ASSUME Base = 256 PROVE Spec => []ComputedIsNotSentinel
<1>1. ASSUME CodecTypeOK, SumInv, pc = "stored", ncsi_rd32(packet, End) = 0,
             (sum + ncsi_rd32(packet, End)) % Full = 0
      PROVE  \A o \in call.start .. End - 1 : packet[o] = 0
  <2>1. Full = 4294967296
    BY DEF Full, Half
  <2>2. sum \in Nat /\ sum <= 4294967295
    <3>1. sum \in Nat /\ sum < Full
      BY <1>1, FullType DEF CodecTypeOK
    <3> QED BY <2>1, <3>1
  <2>3. sum % 4294967296 = 0
    BY <1>1, <2>1, <2>2
  <2>4. sum = 0
    BY <2>2, <2>3, SmallMod
  <2> QED BY <1>1, <2>4 DEF SumInv, ZeroUpTo
<1>2. /\ CodecTypeOK /\ SumInv
      /\ pc = "stored" => (sum + ncsi_rd32(packet, End)) % Full = 0
      => ComputedIsNotSentinel
  BY <1>1 DEF ComputedIsNotSentinel
<1> QED BY <1>2, SumInvariant, CodecTypeCorrect, FieldCompensates, PTL

=============================================================================
