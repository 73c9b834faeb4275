--------------------------- MODULE TxPath_proofs ---------------------------
(***************************************************************************)
(* Theorems about TxPath for any number of static frames and any contents. *)
(***************************************************************************)
EXTENDS TxPath, TLAPS

USE TxAssumption

\* The descriptor and the DMA engine only ever name one of the static frames,
\* whatever the timeouts and the hardware do.
THEOREM TxTypeCorrect == Spec => []TxTypeOK
<1>1. ASSUME Init PROVE TxTypeOK
  <2>1. frame \in [Buffers -> Frame]
    BY <1>1 DEF Init, Frame
  <2> QED BY <1>1, <2>1 DEF Init, TxTypeOK
<1>2. ASSUME TxTypeOK, [Next]_vars PROVE TxTypeOK'
  <2> USE <1>2 DEF TxTypeOK, hw
  <2>1. ASSUME NEW enable \in BOOLEAN, SetComputeChecksum(enable) PROVE TxTypeOK'
    BY <2>1 DEF SetComputeChecksum
  <2>2. ASSUME NEW b \in Buffers, NEW body \in Bodies, Build(b, body) PROVE TxTypeOK'
    <3>1. Apply(frame[b], body) \in Frame
      BY DEF Apply, Checksum, Frame
    <3> QED BY <2>2, <3>1 DEF Build
  <2>3. CASE Kick
    BY <2>3 DEF Kick
  <2>4. CASE SeeDone
    BY <2>4 DEF SeeDone
  <2>5. CASE GiveUp
    BY <2>5 DEF GiveUp
  <2>6. CASE Fetch
    BY <2>6 DEF Fetch, cpu, Read
  <2>7. CASE Finish
    BY <2>7 DEF Finish, cpu, Read, OnWire
  <2>8. CASE Stall
    BY <2>8 DEF Stall, cpu
  <2>9. CASE UNCHANGED vars
    BY <2>9 DEF vars, hw
  <2> QED BY <2>1, <2>2, <2>3, <2>4, <2>5, <2>6, <2>7, <2>8, <2>9 DEF Next
<1> QED BY <1>1, <1>2, PTL DEF Spec

\* The inductive invariant behind WireIntact and CountedIsOnWire: while the CPU
\* is not waiting, the hardware is idle or stuck; while it waits, the descriptor
\* names the frame being sent, and what a working engine read of it is still
\* there.
TxInv ==
  /\ pc # "wait" => stuck \/ (~polling /\ dma = None)
  /\ pc = "wait" => descAddr = current
  /\ pc = "wait" /\ done => ~polling /\ dma = None
  /\ pc = "wait" /\ ~done => polling \/ dma # None
  /\ polling => stuck \/ dma = None
  /\ dma # None => stuck \/ (dma.addr = current /\ dma.head = frame[current])
  /\ WireIntact
  /\ pc = "wait" /\ done =>
       wire # None /\ wire.from = current /\ wire.tail = frame[current]
  /\ CountedIsOnWire

\* With a doorbell that clears the done bit and a timeout that expires only when
\* the engine is stuck, the CPU and the engine take turns.
LEMMA TurnsStep ==
  ASSUME ~MayTimeOut, ClearsDone, TxTypeOK, TxInv, [Next]_vars
  PROVE  TxInv'
<1> USE DEF TxInv, TxTypeOK, WireIntact, CountedIsOnWire, hw
<1>1. ASSUME NEW enable \in BOOLEAN, SetComputeChecksum(enable) PROVE TxInv'
  BY <1>1 DEF SetComputeChecksum
<1>2. ASSUME NEW b \in Buffers, NEW body \in Bodies, Build(b, body) PROVE TxInv'
  BY <1>2 DEF Build
<1>3. CASE Kick
  BY <1>3 DEF Kick
<1>4. CASE SeeDone
  BY <1>4 DEF SeeDone
<1>5. CASE GiveUp
  BY <1>5 DEF GiveUp
<1>6. CASE Fetch
  <2>1. dma' \in Read
    BY <1>6 DEF Fetch, cpu, Read
  <2> QED BY <1>6, <2>1 DEF Fetch, cpu
<1>7. CASE Finish
  <2>1. pc = "wait" /\ ~done
    BY <1>7 DEF Finish
  <2>2. wire' \in OnWire
    BY <1>7 DEF Finish, Read, OnWire, cpu
  <2> QED BY <1>7, <2>1, <2>2 DEF Finish, cpu
<1>8. CASE Stall
  BY <1>8 DEF Stall, cpu
<1>9. CASE UNCHANGED vars
  BY <1>9 DEF vars
<1> QED BY <1>1, <1>2, <1>3, <1>4, <1>5, <1>6, <1>7, <1>8, <1>9 DEF Next

\* The CPU and the engine take turns at a static frame.
LEMMA TurnsAreTaken ==
  ASSUME ~MayTimeOut, ClearsDone
  PROVE  Spec => []TxInv
<1>1. Init => TxInv
  BY DEF Init, TxInv, WireIntact, CountedIsOnWire
<1>2. TxTypeOK /\ TxInv /\ [Next]_vars => TxInv'
  BY TurnsStep
<1> QED BY <1>1, <1>2, TxTypeCorrect, PTL DEF Spec

\* No response is rewritten while it is being sent.
THEOREM ResponsesIntact ==
  ASSUME ~MayTimeOut, ClearsDone
  PROVE  Spec => []WireIntact
BY TurnsAreTaken, PTL DEF TxInv

\* A response that is counted as sent is on the wire.
THEOREM CountedAreSent ==
  ASSUME ~MayTimeOut, ClearsDone
  PROVE  Spec => []CountedIsOnWire
BY TurnsAreTaken, PTL DEF TxInv

\* As long as checksums are never switched off at run time, a response carries
\* none or the right one.
THEOREM ChecksumsHonest ==
  ASSUME ~MayDisable, ~MayTimeOut, ClearsDone
  PROVE  Spec => []ChecksumHonest
<1> DEFINE Honest(f) == f.checksum \in {NotCalculated, Checksum(f.body)}
           Inv == /\ \A b \in Buffers : Honest(frame[b])
                  /\ ~computing => \A b \in Buffers : frame[b].checksum = NotCalculated
                  /\ wire # None => Honest(wire.tail)
<1>1. Init => Inv
  BY DEF Init
<1>2. TxTypeOK /\ Inv /\ [Next]_vars => Inv'
  <2> SUFFICES ASSUME TxTypeOK, Inv, [Next]_vars PROVE Inv'
    OBVIOUS
  <2> USE DEF TxTypeOK, hw
  <2>1. ASSUME NEW enable \in BOOLEAN, SetComputeChecksum(enable) PROVE Inv'
    BY <2>1 DEF SetComputeChecksum
  <2>2. ASSUME NEW b \in Buffers, NEW body \in Bodies, Build(b, body) PROVE Inv'
    <3>1. Honest(Apply(frame[b], body))
      BY DEF Apply, Checksum
    <3>2. ~computing => Apply(frame[b], body).checksum = NotCalculated
      BY DEF Apply
    <3> QED BY <2>2, <3>1, <3>2 DEF Build
  <2>3. CASE Kick \/ SeeDone \/ GiveUp \/ Fetch \/ Stall
    BY <2>3 DEF Kick, SeeDone, GiveUp, Fetch, Stall, cpu
  <2>4. CASE Finish
    BY <2>4 DEF Finish, cpu, Read
  <2>5. CASE UNCHANGED vars
    BY <2>5 DEF vars
  <2> QED BY <2>1, <2>2, <2>3, <2>4, <2>5 DEF Next
<1>3. Inv /\ WireIntact => ChecksumHonest
  BY DEF WireIntact, ChecksumHonest
<1> QED BY <1>1, <1>2, <1>3, TxTypeCorrect, ResponsesIntact, PTL DEF Spec
============================================================================
