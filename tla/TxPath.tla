------------------------------- MODULE TxPath -------------------------------
(***************************************************************************)
(* How a response leaves a chip: the static response frames of ncsi.c, the *)
(* optional checksum, the TX descriptor with its polling bit, and the DMA  *)
(* engine that reads the frame while the CPU goes on (Network_TxFrame() in *)
(* ncsi_hal_template.c).                                                   *)
(*                                                                         *)
(* NcsiResponder treats all of this as one step; this module shows when it *)
(* may.                                                                    *)
(***************************************************************************)
EXTENDS Integers

CONSTANTS
  Buffers,     \* gResponseFrame, gLinkStatusResponseFrame, ...
  Bodies,      \* contents of a response, checksum apart
  MayTimeOut,  \* the poll may give up on an engine that is still at work
  ClearsDone,  \* the doorbell clears TX-done (the TODO of the template)
  MayDisable,  \* NCSI_SetComputeChecksum(false) is called at run time
  None

\* The DSP0222 checksum is a function of the bytes it covers; here the bodies
\* stand for their own checksums.  0 is "not calculated".
Checksum(body) == body
NotCalculated  == 0

Frame  == [body : Bodies \cup {0}, checksum : Bodies \cup {NotCalculated}]
Read   == [addr : Buffers, head : Frame]
OnWire == [head : Frame, tail : Frame, from : Buffers]

ASSUME TxAssumption ==
  /\ Bodies \subseteq Nat \ {0}
  /\ None \notin Buffers /\ None \notin Read /\ None \notin OnWire
  /\ MayTimeOut \in BOOLEAN /\ ClearsDone \in BOOLEAN /\ MayDisable \in BOOLEAN

VARIABLES
  computing,  \* gNcsiComputeChecksum
  frame,      \* the static response frames
  pc,         \* where the CPU is: "idle", "kick" or "wait"
  current,    \* the buffer being transmitted
  descAddr,   \* TX descriptor: buffer_addr
  done,       \* TX descriptor: NCSI_TX_STATUS_DONE
  polling,    \* the polling bit: set by the CPU, taken by the hardware
  dma,        \* external: the buffer being read, with what was read so far
  wire,       \* external: the last frame that went out, as its two halves
  stuck,      \* external: the DMA engine has stopped for good
  result      \* what Network_TxFrame() returned last

\* Operators marked "fault:" are bugs this code could have had.  No definition
\* uses them; each shows that a property notices such a bug.

vars == <<computing, frame, pc, current, descAddr, done, polling, dma, wire,
          stuck, result>>
hw   == <<dma, wire, stuck>>
cpu  == <<computing, frame, pc, current, result>>

----------------------------------------------------------------------------
(* The command engine builds a response in place *)

SetComputeChecksum(enable) ==
  /\ pc = "idle"
  /\ enable \/ MayDisable
  /\ computing' = enable
  /\ UNCHANGED <<frame, pc, current, descAddr, done, polling, hw, result>>

\* fault: the checksum is computed before the fields are written
ApplyChecksumFirst(old, body) ==
  [body |-> body, checksum |-> IF computing THEN old.body ELSE old.checksum]

\* NCSI_APPLY_CHECKSUM_IF_ENABLED after the fields are written: switched off,
\* it leaves the bytes that are there.
Apply(old, body) ==
  [body |-> body,
   checksum |-> IF computing THEN Checksum(body) ELSE old.checksum]

\* sendNCSIResponse() and the other builders, up to the call of
\* NCSI_TxPacket().
Build(b, body) ==
  /\ pc = "idle"
  /\ frame' = [frame EXCEPT ![b] = Apply(@, body)]
  /\ current' = b
  /\ pc' = "kick"
  /\ UNCHANGED <<computing, descAddr, done, polling, hw, result>>

----------------------------------------------------------------------------
(* Network_TxFrame() *)

\* fault: the call returns right after the doorbell
KickOnly ==
  /\ pc = "kick"
  /\ descAddr' = current /\ polling' = TRUE
  /\ done' = (done /\ ~ClearsDone)
  /\ pc' = "idle" /\ result' = TRUE
  /\ UNCHANGED <<computing, frame, current, hw>>

\* fault: the doorbell is rung before the descriptor has an address
KickUnfilled ==
  /\ pc = "kick"
  /\ polling' = TRUE
  /\ done' = (done /\ ~ClearsDone)
  /\ pc' = "wait"
  /\ UNCHANGED <<computing, frame, current, descAddr, hw, result>>

Kick ==
  /\ pc = "kick"
  /\ descAddr' = current /\ polling' = TRUE
  /\ done' = (done /\ ~ClearsDone)
  /\ pc' = "wait"
  /\ UNCHANGED <<computing, frame, current, hw, result>>

\* The spin loop leaves when it sees the done bit.
SeeDone ==
  /\ pc = "wait" /\ done
  /\ pc' = "idle" /\ result' = TRUE
  /\ UNCHANGED <<computing, frame, current, descAddr, done, polling, hw>>

\* fault: the loop has no bound
GiveUpNever == pc = "wait" /\ ~done /\ UNCHANGED vars

\* ... or when NCSI_TX_TIMEOUT_LOOPS have passed; nothing stops the hardware.
\* Chosen well, the bound "comfortably covers one frame": it then expires only
\* when the engine is stuck.
GiveUp ==
  /\ pc = "wait" /\ ~done /\ (stuck \/ MayTimeOut)
  /\ pc' = "idle" /\ result' = FALSE
  /\ UNCHANGED <<computing, frame, current, descAddr, done, polling, hw>>

----------------------------------------------------------------------------
(* external: the DMA engine reads the frame while the CPU may write it *)

Fetch ==
  /\ ~stuck /\ polling /\ dma = None
  /\ polling' = FALSE
  /\ dma' = [addr |-> descAddr, head |-> frame[descAddr]]
  /\ UNCHANGED <<cpu, descAddr, done, wire, stuck>>

Finish ==
  /\ ~stuck /\ dma # None
  /\ wire' = [head |-> dma.head, tail |-> frame[dma.addr], from |-> dma.addr]
  /\ dma' = None /\ done' = TRUE
  /\ UNCHANGED <<cpu, descAddr, polling, stuck>>

\* The engine stops, in the middle of a frame or not.
Stall ==
  /\ ~stuck /\ stuck' = TRUE
  /\ UNCHANGED <<cpu, descAddr, done, polling, dma, wire>>

Init ==
  /\ computing \in BOOLEAN
  /\ frame = [b \in Buffers |-> [body |-> 0, checksum |-> NotCalculated]]
  /\ pc = "idle" /\ current = None
  /\ descAddr = None /\ done = FALSE /\ polling = FALSE
  /\ dma = None /\ wire = None /\ stuck = FALSE /\ result = FALSE

Next ==
  \/ \E enable \in BOOLEAN : SetComputeChecksum(enable)
  \/ \E b \in Buffers, body \in Bodies : Build(b, body)
  \/ Kick
  \/ SeeDone
  \/ GiveUp
  \/ Fetch
  \/ Finish
  \/ Stall

Spec == Init /\ [][Next]_vars

\* The CPU executes, and an engine that is not stuck does its work.
FairSpec ==
  /\ Spec
  /\ WF_vars(Kick) /\ WF_vars(SeeDone) /\ WF_vars(GiveUp)
  /\ WF_vars(Fetch) /\ WF_vars(Finish)

----------------------------------------------------------------------------
(* Properties *)

\* The type invariant: the descriptor and the DMA engine only ever name one of
\* the static frames.
TxTypeOK ==
  /\ computing \in BOOLEAN
  /\ frame \in [Buffers -> Frame]
  /\ pc \in {"idle", "kick", "wait"}
  /\ current \in Buffers \cup {None}
  /\ pc # "idle" => current \in Buffers
  /\ descAddr \in Buffers \cup {None}
  /\ polling => descAddr \in Buffers
  /\ done \in BOOLEAN /\ polling \in BOOLEAN /\ result \in BOOLEAN
  /\ dma \in Read \cup {None}
  /\ wire \in OnWire \cup {None}
  /\ stuck \in BOOLEAN

\* A frame goes out as it was built: no static frame is rewritten for the next
\* response while the DMA engine still reads it (README "3. TX", the comment in
\* Network_TxFrame()).
WireIntact == wire # None => wire.head = wire.tail

\* When Network_TxFrame() returns true, and NCSI_TxPacket() counts the
\* response, that very response is on the wire.
CountedIsOnWire ==
  pc = "idle" /\ result =>
    wire # None /\ wire.from = current /\ wire.tail = frame[current]

\* A response carries no checksum or the right one (ncsi.c:153-155: switched
\* off, the macro "leaves the caller's existing 0/0/0/0 `not calculated' bytes
\* in place").
ChecksumHonest ==
  wire # None =>
    \A body \in {wire.head.body, wire.tail.body} :
      wire.tail.checksum \in {NotCalculated, Checksum(body)}

\* Network.h: Network_TxFrame() "must not block indefinitely", even if the
\* hardware never finishes.
NeverBlocks == (pc # "idle") ~> (pc = "idle")

============================================================================
