----------------------------- MODULE RxHandoff -----------------------------
(***************************************************************************)
(* How a received frame gets from the DMA engine to the command engine:    *)
(* the RX descriptor, NCSI_RxOk_ISR(), the three variables it shares with  *)
(* NCSI_PollRx() (ncsi_hal_template.c), and the start-up order of          *)
(* examples/nc.c.  The interrupt may come between any two steps of the     *)
(* main loop, and the DMA engine runs beside both.                         *)
(*                                                                         *)
(* The template leaves three things to the board, which are modelled the   *)
(* way its comments ask for them: the interrupt is acknowledged in the     *)
(* ISR, stays asserted until then, and the DMA engine fills a buffer again *)
(* only after NCSI_PollRx() has handed it back.                            *)
(***************************************************************************)
EXTENDS Integers

CONSTANTS
  Buffers,    \* RX buffers; the template's register block describes one
  MaxFrames,  \* bound: frames that arrive
  MayHoist,   \* the build loads gRxFrame and gRxFrameLen, which are not
              \* volatile, before it tests gRxPending
  None

\* A frame is its number in the order of arrival, which stands for its bytes
\* and for its length too; 0 is no frame.
Frames    == 1 .. MaxFrames
FrameOr0  == 0 .. MaxFrames
Contents  == [head : FrameOr0, tail : FrameOr0]
Arguments == [frame : Buffers \cup {None}, frame_len : FrameOr0 \cup {None}]

ASSUME RxAssumption == MaxFrames \in Nat /\ None \notin Buffers /\ None \notin FrameOr0

VARIABLES
  pc,           \* where the main loop is
  isr,          \* where the ISR is: "off", or "length": buffer_addr is read
  gRxPending, gRxFrame, gRxFrameLen,
  early,        \* what a hoisted load would have found
  arg,          \* the arguments of ncsi_on_rx_frame(), None until loaded
  seen,         \* the first half of the frame, as the handler read it
  handled,      \* the frame that was handled last
  next,         \* external: the frame that arrived last
  mem,          \* external: the RX buffers
  owner,        \* external: who may use a buffer, "device" or "cpu"
  dma,          \* external: the buffer being filled, or None
  desc,         \* the RX descriptor
  irq           \* external: RX OK is asserted

shared == <<gRxPending, gRxFrame, gRxFrameLen>>
main   == <<pc, early, arg, seen, handled>>
device == <<next, mem, owner, dma, desc>>
vars   == <<main, isr, shared, device, irq>>

\* Operators marked "fault:" are bugs this code could have had.  No definition
\* uses them; each shows that a property notices such a bug.

----------------------------------------------------------------------------
(* external: the MAC and its DMA engine *)

\* The engine begins to fill a buffer it owns.
Receive(b) ==
  /\ dma = None /\ next < MaxFrames /\ owner[b] = "device"
  /\ next' = next + 1
  /\ mem' = [mem EXCEPT ![b] = [head |-> next', tail |-> @.tail]]
  /\ dma' = b
  /\ UNCHANGED <<main, isr, shared, owner, desc, irq>>

\* A frame that finds no buffer is lost.
Overrun ==
  /\ dma = None /\ next < MaxFrames
  /\ \A b \in Buffers : owner[b] = "cpu"
  /\ next' = next + 1
  /\ UNCHANGED <<main, isr, shared, mem, owner, dma, desc, irq>>

\* The frame is complete: "by the time the interrupt fires".
Received ==
  /\ dma # None
  /\ mem' = [mem EXCEPT ![dma] = [head |-> @.head, tail |-> next]]
  /\ owner' = [owner EXCEPT ![dma] = "cpu"]
  /\ desc' = [buffer_addr |-> dma, length |-> next]
  /\ irq' = TRUE /\ dma' = None
  /\ UNCHANGED <<main, isr, shared, next>>

----------------------------------------------------------------------------
(* NCSI_RxOk_ISR(), which the main loop cannot interrupt *)

Unmasked == pc \notin {"start", "masked"}

IsrReadsAddress ==
  /\ irq /\ Unmasked /\ isr = "off"
  /\ gRxFrame' = desc.buffer_addr
  /\ isr' = "length"
  /\ UNCHANGED <<main, gRxPending, gRxFrameLen, device, irq>>

\* fault: the flag is set only if the main loop is not in NCSI_PollRx()
IsrReadsLengthIfIdle ==
  /\ isr = "length"
  /\ gRxFrameLen' = desc.length
  /\ gRxPending' = (pc = "poll")
  /\ irq' = FALSE /\ isr' = "off"
  /\ UNCHANGED <<main, gRxFrame, device>>

\* fault: the length counts the FCS too
IsrReadsLengthWithFcs ==
  /\ isr = "length"
  /\ gRxFrameLen' = desc.length + 1
  /\ gRxPending' = TRUE
  /\ irq' = FALSE /\ isr' = "off"
  /\ UNCHANGED <<main, gRxFrame, device>>

IsrReadsLength ==
  /\ isr = "length"
  /\ gRxFrameLen' = desc.length
  /\ gRxPending' = TRUE
  /\ irq' = FALSE /\ isr' = "off"
  /\ UNCHANGED <<main, gRxFrame, device>>

----------------------------------------------------------------------------
(* main(): start-up, and NCSI_PollRx() *)

MainStep(from, to) == isr = "off" /\ pc = from /\ pc' = to

\* ncsi_init_and_register_ports(); the DMA engine already runs.
RegisterPorts ==
  /\ MainStep("start", "masked")
  /\ UNCHANGED <<early, arg, seen, handled, isr, shared, device, irq>>

\* register_rx_ok_interrupt()
RegisterInterrupt ==
  /\ MainStep("masked", "poll")
  /\ UNCHANGED <<early, arg, seen, handled, isr, shared, device, irq>>

Poll ==
  /\ MainStep("poll", "test")
  /\ early' = [frame |-> gRxFrame, frame_len |-> gRxFrameLen]
  /\ UNCHANGED <<arg, seen, handled, isr, shared, device, irq>>

Test ==
  /\ MainStep("test", IF gRxPending THEN "clear" ELSE "poll")
  /\ UNCHANGED <<early, arg, seen, handled, isr, shared, device, irq>>

\* fault: the flag stays set
ClearForgotten ==
  /\ MainStep("clear", "load")
  /\ arg' = [frame |-> None, frame_len |-> None]
  /\ UNCHANGED <<early, seen, handled, isr, shared, device, irq>>

\* fault: the buffer is handed back together with the flag
ClearHandsBack ==
  /\ MainStep("clear", "load")
  /\ gRxPending' = FALSE
  /\ owner' = [owner EXCEPT ![gRxFrame] = "device"]
  /\ arg' = [frame |-> None, frame_len |-> None]
  /\ UNCHANGED <<early, seen, handled, isr, gRxFrame, gRxFrameLen, next, mem, dma, desc, irq>>

Clear ==
  /\ MainStep("clear", "load")
  /\ gRxPending' = FALSE
  /\ arg' = [frame |-> None, frame_len |-> None]
  /\ UNCHANGED <<early, seen, handled, isr, gRxFrame, gRxFrameLen, device, irq>>

\* The arguments are loaded in an order C does not specify.
Hoisted(x) == IF MayHoist THEN {x} ELSE {}

LoadFrame ==
  /\ MainStep("load", IF arg.frame_len = None THEN "load" ELSE "handle")
  /\ arg.frame = None
  /\ \E b \in {gRxFrame} \cup Hoisted(early.frame) : arg' = [arg EXCEPT !.frame = b]
  /\ UNCHANGED <<early, seen, handled, isr, shared, device, irq>>

LoadLength ==
  /\ MainStep("load", IF arg.frame = None THEN "load" ELSE "handle")
  /\ arg.frame_len = None
  /\ \E n \in {gRxFrameLen} \cup Hoisted(early.frame_len) :
       arg' = [arg EXCEPT !.frame_len = n]
  /\ UNCHANGED <<early, seen, handled, isr, shared, device, irq>>

\* ncsi_on_rx_frame() reads the frame where the DMA engine wrote it.
HandleBegins ==
  /\ MainStep("handle", "reading")
  /\ seen' = mem[arg.frame].head
  /\ UNCHANGED <<early, arg, handled, isr, shared, device, irq>>

HandleEnds ==
  /\ MainStep("reading", "return")
  /\ handled' = seen
  /\ UNCHANGED <<early, arg, seen, isr, shared, device, irq>>

\* The buffer goes back to the hardware at the end of NCSI_PollRx().
Return ==
  /\ MainStep("return", "poll")
  /\ owner' = [owner EXCEPT ![arg.frame] = "device"]
  /\ UNCHANGED <<early, arg, seen, handled, isr, shared, next, mem, dma, desc, irq>>

Init ==
  /\ pc = "start" /\ isr = "off"
  /\ gRxPending = FALSE /\ gRxFrame = None /\ gRxFrameLen = 0
  /\ early = [frame |-> None, frame_len |-> 0]
  /\ arg = [frame |-> None, frame_len |-> None]
  /\ seen = 0 /\ handled = 0 /\ next = 0
  /\ mem = [b \in Buffers |-> [head |-> 0, tail |-> 0]]
  /\ owner = [b \in Buffers |-> "device"]
  /\ dma = None /\ irq = FALSE
  /\ desc = [buffer_addr |-> None, length |-> 0]

Hardware == (\E b \in Buffers : Receive(b)) \/ Overrun \/ Received
Isr      == IsrReadsAddress \/ IsrReadsLength
MainLoop == Poll \/ Test \/ Clear \/ LoadFrame \/ LoadLength
              \/ HandleBegins \/ HandleEnds \/ Return
Main     == RegisterPorts \/ RegisterInterrupt \/ MainLoop

Next == Hardware \/ Isr \/ Main

Spec == Init /\ [][Next]_vars

\* The CPU executes main() for ever, and takes an interrupt that is asserted.
FairSpec == Spec /\ WF_vars(Main) /\ WF_vars(Isr)

----------------------------------------------------------------------------
(* Properties *)

\* The type invariant of the hand-over.
RxTypeOK ==
  /\ pc \in {"start", "masked", "poll", "test", "clear", "load", "handle",
             "reading", "return"}
  /\ isr \in {"off", "length"}
  /\ gRxPending \in BOOLEAN
  /\ gRxFrame \in Buffers \cup {None} /\ gRxFrameLen \in FrameOr0
  /\ early \in [frame : Buffers \cup {None}, frame_len : FrameOr0]
  /\ arg \in Arguments
  /\ seen \in FrameOr0 /\ handled \in FrameOr0 /\ next \in FrameOr0
  /\ mem \in [Buffers -> Contents]
  /\ owner \in [Buffers -> {"device", "cpu"}]
  /\ dma \in Buffers \cup {None}
  /\ desc \in [buffer_addr : Buffers \cup {None}, length : FrameOr0]
  /\ irq \in BOOLEAN

\* While ncsi_on_rx_frame() reads, its pointer, its length and all the bytes
\* behind the pointer belong to one and the same frame: the interrupt did not
\* come between the loads, and the DMA engine does not write the buffer.
FrameIsWhole ==
  pc \in {"handle", "reading"} =>
    /\ arg.frame \in Buffers
    /\ mem[arg.frame] = [head |-> arg.frame_len, tail |-> arg.frame_len]
    /\ pc = "reading" => seen = arg.frame_len

\* The DMA engine always gets its buffer back ("until this happens the MAC
\* likely can't receive another frame"): no interrupt is lost, not even that of
\* a frame that arrived before the interrupt was registered.
BufferComesBack ==
  \A b \in Buffers : (owner[b] = "cpu") ~> (owner[b] = "device")

Mailbox ==
  INSTANCE RxMailbox WITH
    arrived <- desc.length,
    box     <- IF pc # "return" /\ \E b \in Buffers : owner[b] = "cpu"
                 THEN desc.length ELSE 0

\* Seen from the command engine, the receive path is a mailbox of one frame:
\* every frame in it is handled once, and never after a younger one.
ImplementsMailbox == Mailbox!Spec
============================================================================
