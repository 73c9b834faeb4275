-------------------------- MODULE RxHandoff_proofs --------------------------
(***************************************************************************)
(* Theorems about RxHandoff with the one buffer of the template and a      *)
(* build that keeps the order of the loads, for any number of frames.      *)
(***************************************************************************)
EXTENDS RxHandoff, TLAPS

USE RxAssumption

Outside == {"start", "masked", "poll", "test"}
Inside  == {"load", "handle", "reading", "return"}

\* The inductive invariant for one buffer b.  A frame passes from the hardware
\* to the interrupt, the flag, the main loop and back, and is in one place at a
\* time; whoever has it finds the whole of it.
RxInv(b) ==
  /\ owner[b] = "device" => ~irq /\ isr = "off" /\ ~gRxPending /\ pc \in Outside
  /\ owner[b] = "cpu" =>
       /\ dma = None /\ desc.buffer_addr = b /\ desc.length > 0
       /\ mem[b] = [head |-> desc.length, tail |-> desc.length]
  /\ irq => ~gRxPending /\ pc \in Outside
  /\ isr = "length" => irq /\ gRxFrame = b /\ pc \in {"poll", "test"}
  /\ gRxPending => pc \in {"poll", "test", "clear"}
  /\ pc = "clear" => gRxPending
  /\ gRxPending \/ pc \in Inside => gRxFrame = b /\ gRxFrameLen = desc.length
  /\ pc \in Inside =>
       /\ arg.frame \in {None, b} /\ arg.frame_len \in {None, desc.length}
  /\ pc \in Inside \ {"load"} => arg.frame = b /\ arg.frame_len = desc.length
  /\ pc \in {"reading", "return"} => seen = desc.length
  /\ desc.length <= next
  /\ dma # None => desc.length < next
  /\ dma # None => mem[b].head = next

----------------------------------------------------------------------------

\* The initial state has its types.
LEMMA RxTypeStart == Init => RxTypeOK
<1> SUFFICES ASSUME Init PROVE RxTypeOK
  OBVIOUS
<1>1. 0 \in FrameOr0
  BY DEF FrameOr0
<1>2. mem \in [Buffers -> Contents] /\ owner \in [Buffers -> {"device", "cpu"}]
  BY <1>1 DEF Init, Contents
<1> QED BY <1>1, <1>2 DEF Init, RxTypeOK, Arguments

\* It satisfies the invariant.
LEMMA RxStart == ASSUME NEW b \in Buffers, Init PROVE RxTypeOK /\ RxInv(b)
BY RxTypeStart DEF Init, RxInv, Outside, Inside

\* Each step of the hardware, the interrupt and the main loop keeps both.
LEMMA RxStep ==
  ASSUME NEW b \in Buffers, Buffers = {b}, ~MayHoist,
         RxTypeOK, RxInv(b), [Next]_vars
  PROVE  RxTypeOK' /\ RxInv(b)'
<1> USE DEF RxTypeOK, RxInv, Outside, Inside, device, shared, main,
            FrameOr0, Contents, Arguments
<1>1. CASE Receive(b)
  <2>1. next' \in FrameOr0 /\ next' = next + 1
    BY <1>1 DEF Receive
  <2>2. /\ mem' \in [Buffers -> Contents]
        /\ mem'[b].head = next'
    BY <1>1, <2>1 DEF Receive
  <2>3. desc.length \in FrameOr0
    OBVIOUS
  <2> QED BY <1>1, <2>1, <2>2, <2>3 DEF Receive
<1>2. CASE Overrun
  <2>1. next' \in FrameOr0
    BY <1>2 DEF Overrun
  <2> QED BY <1>2, <2>1 DEF Overrun
<1>3. CASE Received
  <2>1. dma = b
    BY <1>3 DEF Received
  <2>2. mem'[b] = [head |-> next, tail |-> next] /\ mem' \in [Buffers -> Contents]
    BY <1>3, <2>1 DEF Received
  <2>3. next > 0
    BY <1>3 DEF Received
  <2> QED BY <1>3, <2>1, <2>2, <2>3 DEF Received
<1>4. CASE IsrReadsAddress
  BY <1>4 DEF IsrReadsAddress, Unmasked
<1>5. CASE IsrReadsLength
  BY <1>5 DEF IsrReadsLength
<1>6. CASE RegisterPorts \/ RegisterInterrupt \/ Poll \/ Test \/ Clear
  <2>1. CASE RegisterPorts \/ RegisterInterrupt
    BY <2>1 DEF RegisterPorts, RegisterInterrupt, MainStep
  <2>2. CASE Poll
    BY <2>2 DEF Poll, MainStep
  <2>3. CASE Test
    BY <2>3 DEF Test, MainStep
  <2>4. CASE Clear
    BY <2>4 DEF Clear, MainStep
  <2> QED BY <1>6, <2>1, <2>2, <2>3, <2>4
<1>7. CASE LoadFrame
  <2>1. arg' = [frame |-> b, frame_len |-> arg.frame_len]
    BY <1>7 DEF LoadFrame, MainStep, Hoisted
  <2> QED BY <1>7, <2>1 DEF LoadFrame, MainStep
<1>8. CASE LoadLength
  <2>1. arg' = [frame |-> arg.frame, frame_len |-> desc.length]
    BY <1>8 DEF LoadLength, MainStep, Hoisted
  <2> QED BY <1>8, <2>1 DEF LoadLength, MainStep
<1>9. CASE HandleBegins
  BY <1>9 DEF HandleBegins, MainStep
<1>10. CASE HandleEnds
  BY <1>10 DEF HandleEnds, MainStep
<1>11. CASE Return
  BY <1>11 DEF Return, MainStep
<1>12. CASE UNCHANGED vars
  BY <1>12 DEF vars
<1> QED BY <1>1, <1>2, <1>3, <1>4, <1>5, <1>6, <1>7, <1>8, <1>9, <1>10, <1>11, <1>12
  DEF Next, Hardware, Isr, Main, MainLoop

\* The handler reads one whole frame: with one buffer that goes back to the
\* hardware only at the end of NCSI_PollRx(), neither the interrupt nor the DMA
\* engine can come between its loads, although the flag is already clear.
THEOREM FramesAreWhole ==
  ASSUME NEW b \in Buffers, Buffers = {b}, ~MayHoist
  PROVE  Spec => [](RxTypeOK /\ FrameIsWhole)
<1>1. Init => RxTypeOK /\ RxInv(b)
  BY RxStart
<1>2. RxTypeOK /\ RxInv(b) /\ [Next]_vars => RxTypeOK' /\ RxInv(b)'
  BY RxStep
<1>3. RxInv(b) /\ RxTypeOK => FrameIsWhole
  BY DEF RxInv, RxTypeOK, FrameIsWhole, Outside, Inside
<1> QED BY <1>1, <1>2, <1>3, PTL DEF Spec

\* Under the same assumptions the receive path is a mailbox of one frame: each
\* frame that the MAC could store is handled once, in the order of arrival.
THEOREM HandoffIsMailbox ==
  ASSUME NEW b \in Buffers, Buffers = {b}, ~MayHoist
  PROVE  Spec => ImplementsMailbox
<1>1. Init => Mailbox!Init
  BY DEF Init, Mailbox!Init
<1>2. ASSUME RxTypeOK, RxInv(b), RxTypeOK', RxInv(b)', [Next]_vars
      PROVE  [Mailbox!Next]_Mailbox!vars
  <2> USE DEF Mailbox!vars, RxTypeOK, RxInv, Outside, Inside, device, shared, main,
              FrameOr0, Contents, Arguments
  <2>1. CASE Received
    <3>1. owner[b] = "device" /\ owner'[b] = "cpu" /\ next \in Frames
      BY <1>2, <2>1 DEF Received, Frames
    <3>2. \E n \in Frames : Mailbox!Enter(n)
      BY <1>2, <2>1, <3>1 DEF Received, Mailbox!Enter
    <3> QED BY <3>2 DEF Mailbox!Next
  <2>2. CASE HandleEnds
    <3>1. Mailbox!Handle
      BY <1>2, <2>2 DEF HandleEnds, MainStep, Mailbox!Handle
    <3> QED BY <3>1 DEF Mailbox!Next
  <2>3. CASE Receive(b) \/ Overrun
    <3>1. UNCHANGED <<desc, owner, pc, handled>>
      BY <2>3 DEF Receive, Overrun
    <3> QED BY <3>1
  <2>4. CASE Isr
    BY <1>2, <2>4 DEF Isr, IsrReadsAddress, IsrReadsLength
  <2>5. CASE RegisterPorts \/ RegisterInterrupt \/ Poll \/ Test \/ Clear
    BY <1>2, <2>5 DEF RegisterPorts, RegisterInterrupt, Poll, Test, Clear, MainStep
  <2>6. CASE LoadFrame \/ LoadLength \/ HandleBegins
    BY <1>2, <2>6 DEF LoadFrame, LoadLength, HandleBegins, MainStep
  <2>7. CASE Return
    BY <1>2, <2>7 DEF Return, MainStep
  <2>8. CASE UNCHANGED vars
    BY <2>8 DEF vars
  <2> QED BY <1>2, <2>1, <2>2, <2>3, <2>4, <2>5, <2>6, <2>7, <2>8
    DEF Next, Hardware, Main, MainLoop
<1>3. RxTypeOK /\ RxInv(b) /\ [Next]_vars => RxTypeOK' /\ RxInv(b)'
  BY RxStep
<1> QED BY <1>1, <1>2, <1>3, RxStart, PTL DEF Spec, ImplementsMailbox, Mailbox!Spec

\* Nothing is handled after something younger, and nothing twice; derived from
\* the mailbox through the refinement.
THEOREM NothingHandledTwice ==
  ASSUME NEW b \in Buffers, Buffers = {b}, ~MayHoist
  PROVE  Spec => []Mailbox!NeverBackwards
<1>1. Mailbox!Init => Mailbox!NeverBackwards
  BY DEF Mailbox!Init, Mailbox!NeverBackwards
<1>2. /\ RxTypeOK /\ RxTypeOK' /\ Mailbox!NeverBackwards
      /\ [Mailbox!Next]_Mailbox!vars
      => Mailbox!NeverBackwards'
  BY DEF RxTypeOK, FrameOr0, Frames, Mailbox!NeverBackwards, Mailbox!Next,
         Mailbox!Enter, Mailbox!Handle, Mailbox!vars
<1> QED BY <1>1, <1>2, FramesAreWhole, HandoffIsMailbox, PTL
    DEF ImplementsMailbox, Mailbox!Spec

----------------------------------------------------------------------------
(* Any number of buffers *)

\* Wherever a pointer is used, it has been written before: from the descriptor
\* to the interrupt, to gRxFrame, to the argument of the handler.
PointersSet ==
  /\ irq => desc.buffer_addr \in Buffers
  /\ gRxPending \/ isr = "length" \/ pc \in {"clear"} \cup Inside
       => gRxFrame \in Buffers
  /\ isr = "length" => irq
  /\ pc = "clear" => gRxPending
  /\ pc \in {"handle", "reading", "return"} =>
       arg.frame \in Buffers /\ arg.frame_len \in FrameOr0

\* With any number of buffers, and although the interrupt may then change the
\* three variables under NCSI_PollRx(), no pointer is followed or handed back
\* before it was written, and no length is used that is not one of a frame.
THEOREM RxTypeCorrect == ASSUME ~MayHoist PROVE Spec => []RxTypeOK
<1> USE DEF RxTypeOK, PointersSet, Inside, device, shared, main,
            FrameOr0, Contents, Arguments
<1>1. Init => PointersSet
  BY DEF Init
<1>2. ASSUME RxTypeOK, PointersSet, [Next]_vars PROVE RxTypeOK' /\ PointersSet'
  <2>1. ASSUME NEW b \in Buffers, Receive(b) PROVE RxTypeOK' /\ PointersSet'
    <3>1. next' \in FrameOr0 /\ mem' \in [Buffers -> Contents]
      BY <1>2, <2>1 DEF Receive
    <3> QED BY <1>2, <2>1, <3>1 DEF Receive
  <2>2. CASE Overrun
    BY <1>2, <2>2 DEF Overrun
  <2>3. CASE Received
    <3>1. mem' \in [Buffers -> Contents] /\ owner' \in [Buffers -> {"device", "cpu"}]
      BY <1>2, <2>3 DEF Received
    <3> QED BY <1>2, <2>3, <3>1 DEF Received
  <2>4. CASE IsrReadsAddress
    BY <1>2, <2>4 DEF IsrReadsAddress
  <2>5. CASE IsrReadsLength
    BY <1>2, <2>5 DEF IsrReadsLength
  <2>6. CASE RegisterPorts \/ RegisterInterrupt
    BY <1>2, <2>6 DEF RegisterPorts, RegisterInterrupt, MainStep
  <2>7. CASE Poll
    BY <1>2, <2>7 DEF Poll, MainStep
  <2>8. CASE Test
    BY <1>2, <2>8 DEF Test, MainStep
  <2>9. CASE Clear
    BY <1>2, <2>9 DEF Clear, MainStep
  <2>10. CASE LoadFrame
    <3>1. arg' = [frame |-> gRxFrame, frame_len |-> arg.frame_len]
      BY <1>2, <2>10 DEF LoadFrame, MainStep, Hoisted
    <3> QED BY <1>2, <2>10, <3>1 DEF LoadFrame, MainStep
  <2>11. CASE LoadLength
    <3>1. arg' = [frame |-> arg.frame, frame_len |-> gRxFrameLen]
      BY <1>2, <2>11 DEF LoadLength, MainStep, Hoisted
    <3> QED BY <1>2, <2>11, <3>1 DEF LoadLength, MainStep
  <2>12. CASE HandleBegins
    BY <1>2, <2>12 DEF HandleBegins, MainStep
  <2>13. CASE HandleEnds
    BY <1>2, <2>13 DEF HandleEnds, MainStep
  <2>14. CASE Return
    BY <1>2, <2>14 DEF Return, MainStep
  <2>15. CASE UNCHANGED vars
    BY <1>2, <2>15 DEF vars
  <2> QED BY <1>2, <2>1, <2>2, <2>3, <2>4, <2>5, <2>6, <2>7, <2>8, <2>9, <2>10,
             <2>11, <2>12, <2>13, <2>14, <2>15
      DEF Next, Hardware, Isr, Main, MainLoop
<1> QED BY <1>1, <1>2, RxTypeStart, PTL DEF Spec
============================================================================
