# Verification of the NC-SI responder firmware

TLA+ specifications of the firmware under `src/`: a DSP0222 (NC-SI) responder
that runs on two identical chips of one OCP NIC 3.0 card and answers a
Management Controller (MC, the BMC) over one shared RMII/RBT sideband. TLC
checks the specifications on small instances; TLAPS proves the theorems listed
below for every value of the constants.

## 1. Inventory

| Component | State | Operations | Hard behaviour | What makes it correct |
|---|---|---|---|---|
| Command engine (`ncsi.c`, `Network.h`, `NCSI.h`) | `gPackageState.selected`, `port[0]->state` (ready, enabled, TX, VLAN, AEN, link, broadcast, 8 MAC filters, link cache, statistics) | `handleNCSIFrame`, 20 handlers behind 26 table rows, `resetChannel`, `reloadChannel` | any order of commands, repeats, lost responses, refusals half-way, reset and restart at any time, MDIO reads that fail | one matching answer per addressed frame; what an answer COMPLETE says was done was done; a refusal changes nothing; a repeat is harmless; nothing is on in the Initial State; tracked filters agree with the NIC; link reports do not contradict themselves |
| Addressing of the card (`ncsi.c`, `ncsi_board_config.*`) | package and channel straps of each chip | the addressing check | two main loops in any order on a multi-drop bus | one responder per channel, no cross-talk |
| RX path (`ncsi_hal_template.c`, `examples/nc.c`) | `gRxPending`, `gRxFrame`, `gRxFrameLen`, RX descriptor, buffer | `NCSI_RxOk_ISR`, `NCSI_PollRx`, the start-up order | interrupt against main loop, loads a compiler may move, DMA into the buffer being read, a frame before the interrupt is registered | the handler sees one whole frame; each frame once and in order; the buffer always comes back |
| TX path (`ncsi.c`, `ncsi_hal_template.c`) | four static response frames, checksum switch, TX descriptor, polling bit | response builders, `NCSI_TxPacket`, `Network_TxFrame` | DMA reading while the CPU writes, timeout, stuck engine, stale TX-done, stale checksum | frames go out as built; counted means sent; no wait for ever |
| Pass-through (`ncsi.c`, `ncsi_hal_template.c`) | none of its own: TX gate, `enabled`, filters, two counters of the channel | `ncsi_on_rx_frame`, `ncsi_passthrough_tx_from_mc`, `NCSI_handlePassthrough` | gates changed by commands, resets and restarts between frames | what is handed on was granted, what was granted is not refused, the counters count |
| Wire codec (`types.h`, `ncsi.c`) | none | `ncsi_rd16/rd32/wr32`, `ncsi_compute_checksum`, `NCSI_TxBePacket` | odd lengths, 32-bit wrap, the value 0, an uninitialised stack buffer | a receiver accepts the checksum; 0 never means a computed one; every byte is handed over |
| Board configuration, HAL bodies, AEN generation | straps; placeholders | -- | -- | outside the repository, or absent from it |
| Tests, vendored upstream copy, build fragment | -- | -- | -- | not part of the firmware |

How they interact: the ISR leaves one frame in a mailbox; the main loop takes
it, the dispatcher checks addressing, length and state, calls one handler, the
handler changes the channel state and calls the HAL (MDIO, NIC filters, link),
builds its response in a static frame and hands it to `Network_TxFrame`, which
blocks until the DMA engine is done or the poll gives up. Nothing but the three
`gRx*` variables, the descriptors and the static frames is shared between
contexts.

## 2. Modules

| Module | Models | Composes |
|---|---|---|
| `ChannelContract` | abstract: what one channel promises | -- |
| `NcsiResponder` | the command engine of one chip | instantiates `ChannelContract` under a refinement mapping |
| `MCResponder` | frames and values for TLC | `NcsiResponder` |
| `NcsiResponder_proofs` | theorems | `NcsiResponder`, TLAPS |
| `NcsiPassthrough` | pass-through in both directions, and what the MC was granted | extends `NcsiResponder` |
| `MCPass` | frames for TLC | `NcsiPassthrough` |
| `NcsiPassthrough_proofs` | theorems | `NcsiPassthrough`, `NcsiResponder_proofs` |
| `NcsiBus` | two chips, their mailboxes and one MC | two instances of `NcsiResponder` |
| `MCBus` | frames for TLC | `NcsiBus` |
| `NcsiBus_proofs` | theorems | `NcsiBus`, two instances of `NcsiResponder_proofs`, TLAPS |
| `RxMailbox` | abstract: a mailbox of one frame | -- |
| `RxHandoff` | RX interrupt, main loop, RX DMA, start-up | instantiates `RxMailbox` under a refinement mapping |
| `MCRx` | values for TLC | `RxHandoff` |
| `RxHandoff_proofs` | theorems | `RxHandoff`, TLAPS |
| `TxPath` | static frames, checksum switch, descriptor, DMA | -- |
| `MCTx` | values for TLC | `TxPath` |
| `TxPath_proofs` | theorems | `TxPath`, TLAPS |
| `WireCodec` | big-endian fields, checksum, word swap | -- |
| `MCCodec` | values for TLC | `WireCodec` |
| `WireCodec_proofs` | theorems | `WireCodec`, TLAPS |

How they fit together: `RxHandoff` shows that a frame reaches the command engine
whole, once and in order, so `NcsiBus` may give each chip a mailbox;
`TxPath` shows when handing over a response may be one step, so
`NcsiResponder` makes it one; `WireCodec` shows what the four checksum bytes are
worth, which `TxPath` abstracts to "the checksum of a body".

### NcsiResponder

`port` is `ncsi_channel_state_t` field by field; left out are `aen_mc_id` and
`oem_link_settings` (written with the field beside them), `autoneg_complete` and
`stat_net_rx` (never written but to 0). `selected` is `gPackageState.selected`.
`nic` is what `Network_SetMACAddr()` was told, by 0-based slot; `linkUp` is the
PHY's link, which the environment changes at any time. `rx` and `tx` are the
frame handled last and the response handed over for it, so that answers can be
related to the state they leave behind.

`handleNCSIFrame(f)` is `Dispatch(f) \/ Execute(f)`: five ways to turn a frame
away, in the code's order (other address, unknown type, wrong length, channel
command sent package-wide, Initial State), and one action per handler.
`Accepted(f, c)` is the path to a handler. `Respond` is the common end of a
handler: the response may fail to be sent, and only a sent one is counted.
A frame is handled in one step because `handleNCSIFrame()` never runs in the
interrupt and `Network_TxFrame()` blocks; `TxPath` examines that last part.

Facts worth knowing that the model shows:

- a repeated Reset Channel is refused with INITIALIZATION_REQUIRED, since the
  first copy put the channel back into its Initial State; `RetryIsIdempotent`
  excepts its answer, not its effect;
- Reset Channel leaves AEN and link settings, the cached link state,
  `stat_net_dropped` and the NIC's own filter slots as they were: a filter may
  still be programmed in the NIC after it is no longer tracked;
- `selected` gates nothing: it is written and never read;
- MACNumber 0 and 1 mean the same slot;
- two commands complete without the effect their answer suggests, and
  `CompletedIsInForce` (operator `InForce`) leaves exactly them out: Set VLAN Filter
  records nothing (run `responder_vlanfilter`), and Set MAC Address for a slot beyond
  the tracked ones reaches the driver but is not tracked (run `responder_macrange`);
  of a tracked slot both copies are compared;
- the link report is built from three cached fields, which neither a reset nor a reload
  clears and which a failed MDIO read leaves as they were; `LinkReportAgrees` says that
  they never contradict each other all the same.

### NcsiPassthrough

Adds to the command engine the two functions that move other frames.
`ncsi_passthrough_tx_from_mc(source)` forwards only with `tx_passthrough_en` and an
enabled unicast filter for the sender; `NCSI_handlePassthrough` acts
only while `enabled`. `last` is the fate of the last frame: `refused` by a gate,
`passed`, or `lost` in the driver after both gates let it through. `granted` is a history
variable built from the *answers*: what the MC was told is in force. The properties
compare the two, so they are about the whole chain command, answer, gate, frame.
A slot beyond the tracked ones is the exception `GrantedReachesDriver` states: the
command for it completes and the sender stays blocked (run
`responder_macrange`). `counts` counts frames independently of the
channel's statistics. The link plays no part here and changes only through the command
engine.

The documents disagree with the code in two places:

- `NCSI.h:89-94` says `ncsi_passthrough_tx_from_mc()` returns true if the frame was
  forwarded and false if it was dropped because one of the two conditions was not met.
  The code also returns false when both were met and `Network_TxFrame()` failed
  (`ncsi.c:1044-1049`), so a caller cannot tell a refused frame from a lost one. A
  granted frame may therefore be lost: `GrantedReachesDriver` promises no more than that
  the gates let it through, and `CountersHonest` that a lost one is not counted;
- `Network.h:137` says frames for the MC are to be polled for "while tx_passthrough_en is
  set for that channel"; `NCSI_handlePassthrough` polls while `enabled`, as
  `ncsi.c:978` and `README.md:314` explain. `OnlyGrantedPasses` is stated for the gate of
  the code, and the run `pass_direction` shows the disagreement.

### NcsiBus

`pending[c]` is the mailbox of chip `c` (`gRxPending` with `gRxFrame`). Both channels
of one package are instances with channel numbers 0 and 1. A frame on the wire
reaches any subset of the chips: a chip that still owns the buffer of an earlier
frame, answered or not, misses it; with a second buffer it would replace a
frame not yet polled, and both are allowed here. The MC keeps one
command outstanding, repeats it until it goes on, which it does only with an
answer; it recognises an answer by type, channel and instance, and no two of its
commands agree in all three (`InstancesTellApart`). This is asked of the MC and not of
the firmware, which only echoes the instance number: without it a late answer to an
older command would be taken for one to the new command. A repetition and an answer may
cross: copies of a command may be handled after its answer was accepted. Answers
may be lost (`sent = FALSE`), commands may be missed, overwritten or handled twice.
`BusAssumption` repeats what `NcsiResponder` assumes of the constants.

A consequence: a package-wide command is answered by each chip on its own, so
the MC may go on after the faster chip, and the slower one may still handle the
old command after the new one was sent.

### RxHandoff

The interrupt handler is two steps (`IsrReadsAddress`, `IsrReadsLength`), which
the main loop cannot interrupt; `NCSI_PollRx` is six (`Test`, `Clear`, `LoadFrame`
and `LoadLength` in either order, `HandleBegins`, `HandleEnds`, `Return`), and the
interrupt may come between any two. The RX DMA engine fills a buffer in two steps
(`Receive`, `Received`), in parallel with both. `RegisterPorts` and
`RegisterInterrupt` are the start-up order of `main()`; before the latter the
interrupt line may be raised and is not served. A frame is its number, which stands for its bytes and
for its length.

The template leaves the last lines of the ISR and of `NCSI_PollRx` to the board as
TODO comments. They are modelled as these comments ask: the ISR acknowledges
the interrupt, `Return` gives the buffer back to the hardware. Two facts the
template does not state are needed, and both are constants of the module, so that
they can be turned off:

- one RX buffer (`MCBuffers`), the register block the template describes. With two,
  a second interrupt between `Clear` and the two loads changes
  pointer and length under `NCSI_PollRx`: `FrameIsWhole` and `ImplementsMailbox`
  fail. A board that walks a ring must protect these three variables;
- `~MayHoist`. `gRxPending` is volatile, `gRxFrame` and `gRxFrameLen` are not, so a
  compiler may load them before it tests the flag. With `MayHoist = TRUE`
  `FrameIsWhole` fails: the flag is fresh and the pointer or the length is not.

### TxPath

The CPU builds a response in a static frame, fills the descriptor and rings the
doorbell (`Kick`), and spins (`SeeDone`, `GiveUp`). The DMA engine takes the
polling bit, reads the frame in two halves (`Fetch`, `Finish`) and reports done;
the CPU may write between the halves, and the engine may stop for good at any point
(`Stall`). Constants name what the template leaves
open or the caller decides: `MayTimeOut` (the poll may also give up on an engine that is
at work), `ClearsDone` (the doorbell clears the done bit of the previous frame,
a TODO of the template), `MayDisable` (checksums are switched off at run time).

### WireCodec

A packet is a function from offsets to bytes. `ncsi_compute_checksum` and
`NCSI_TxPacket_internal` with `swap_words` have loops and run one action per
iteration, so that the bounds of every access can be stated; the
stack buffer starts as bytes "never written". `Base` is the number of values of a byte: 256 in
the code. The loop adds 16-bit words and an odd byte; it is compared with `RegionSum`, which
adds byte by byte, each weighed by its offset.

`types.h:123` describes the receiver's test as "summing the same region *including*
the checksum field itself", which is not how the compensation works:
`ChecksumCompensates` adds the field as one 32-bit value, which is what
`tests/test_ncsi.c:180` explains and the tests do.

## 3. Properties and runs

| Run | Shows | Bounds |
|---|---|---|
| `responder_lifecycle` | types, `InitialStateClean`, `AnswerMatches`, `CompletedIsInForce`, `FiltersProgrammed`, `LinkReportAgrees`, `InitialStateInert`, `RefusedChangesNothing`, `RetryIsIdempotent`, the contract | 29 frames: all commands, each rejection, two instance numbers, MACNumber 0..2 over one tracked slot (0 and 1 alias, 2 is beyond); statistics not counted |
| `bus_channels` | `OneChannelResponder`, `AcknowledgedHolds`, `NoCrossTalk`, and `EveryCommandAnswered` under the fairness below | 5 commands over both channels, one outstanding |
| `rx_handoff` | `FrameIsWhole`, `BufferComesBack`, `ImplementsMailbox` | 1 buffer, 4 frames |
| `pass_gates` | `OnlyGrantedPasses`, `GrantedReachesDriver`, `CountersHonest`, and with several filters `FiltersProgrammed` and the contract | 11 commands, 2 tracked slots, 3 addresses (the zero address among them), counters modulo 2 |
| `tx_done` | `WireIntact`, `CountedIsOnWire`, `ChecksumHonest` and `NeverBlocks`, under the assumptions of the template's comments | 2 frames, 2 bodies |
| `codec_bytes` | `ChecksumCompensates`, `ComputedIsNotSentinel`, `SwapIsBeToHost` | all packets of 10 one-bit bytes, all regions, all lengths, a stack buffer of 9 bytes |
| `bus_package` | violated: both chips answer a package-wide command | |
| `responder_macrange` | violated: a filter slot out of range completes | |
| `responder_vlanfilter` | violated: Set VLAN Filter records nothing | |
| `pass_direction` | violated: a frame for the MC is polled for though `tx_passthrough_en` is off | |
| `tx_timeout` | violated: a frame is rewritten under the DMA engine after a timeout | |
| `tx_checksum` | violated: a stale checksum is sent | |

The violated properties quote what a document or comment of the repository
says; `PROJECT.json` "findings" has the quotations.

Why the bounds are enough. No handler depends on more than the frame at hand
and the state of the one channel; settings carried by a command are stored and
never computed with, so two values tell "stored" from "not stored" and 0 from
not 0. Slots are independent of each other: one tracked slot and one beyond show every
aliasing an index can have, and the two of `pass_gates` that slots are not confused. Statistics influence nothing; they are
counted modulo 2 or not at all. In the TX path, frames differ only by
being the same or another one. In the RX path a frame can be confused with the
one before and the one after it, and a fourth shows that nothing depends on
being first or last. Two addresses and two
slots show every way a filter can hide another. The card is checked
with one command for each thing two chips can confuse: the state of a channel, a NIC slot, and a
command that is refused when it is repeated; its safety is proved for every set of commands. With bytes of one bit a word is two bits and
the accumulator four, narrow enough to be filled by the regions of ten bytes;
that the width is enough for every region in the code is `CodecAssumption`.

Assumed, not checked. Three hazards depend on what a board or a build does, and the
passing runs assume the harmless case: the doorbell clears TX-done (`ClearsDone`, a TODO of
the template; `CountedIsOnWire` fails without it), there is one RX buffer (`FrameIsWhole`
fails with two) and the compiler keeps the two loads behind the test (`~MayHoist`; the same).
`PROJECT.json` lists them as hazards no property covers.

Fairness. `NcsiBus!Fairness`: each main loop polls again and again (the endless
loop of `examples/nc.c`), a chip that answers again and again is heard in the
end (`Network_TxFrame` does not fail for ever; strong fairness because a
mailbox is empty in between), the MC accepts, and it repeats until each chip gets
one of the repetitions (a chip gives its buffer back each time, which
`BufferComesBack` shows). `RxHandoff!FairSpec`: the CPU runs `main()` and takes an asserted
interrupt; nothing is assumed of the DMA engine. `TxPath!FairSpec`: the CPU
executes, and an engine that is not stuck does its work; it may get stuck any time.

Each property has at least one mutant: an operator marked "fault:" beside
the definition it would replace. No specification uses these operators.

## 4. Theorems

`NcsiResponder_proofs`, from `ResponderAssumption` only:

- `TypeCorrect`. `TypeOK` is inductive; one step per action, with a lemma for
  each building block (`Respond`, `Complete`, `ResetState`, `Slot`).
- `Implements`: the responder implements `ChannelContract`. Each handler maps to
  one contract action or to a stutter; the lemmas `...View` say what the
  refinement mapping sees of a state update, `ChannelCommandReady` that a
  channel command reaches its handler only when the channel is ready.
- `InitialStateIsClean`. `InitialStateClean` is not proved by induction over the
  code: it follows from the contract's `InitialMeansOff`, one line per contract
  action, through the refinement.
- `FiltersAreProgrammed`. Inductive with `TypeOK`: it needs that `Slot` is
  the same for both copies, and that a slot beyond the tracked ones is not one.
- `FramesAreInert`: an action property, from `FrameEffect` (what any frame
  can change, and when).
- `AnswersMatch`, `CompletedIsTrue`, `RefusedIsInert`. All three follow from one
  lemma, `FrameOutcome`: a frame is either not completed and changes nothing
  (`Refused`), or is completed and leaves exactly the state `Obeys` describes by
  the command, and it is answered if and only if it was addressed. `FrameOutcome`
  has one case per handler.
- `RetriesAreIdempotent`. The answer to a frame is a function of the frame and of
  `ready` alone (`Verdict`, `VerdictOutcome`). The invariant `Settled` says of the
  frame handled last that the state it left gives the same verdict again, Reset
  Channel apart, and survives reloads and link changes; what is completed twice is
  already in force the second time (`RepeatIsIdle`).
- `LinkReportIsConsistent`. Inductive by `FrameReport`: no handler but Get Link Status
  writes the three fields, and it renews all of the report or falls back to all of it.

`NcsiPassthrough_proofs`, from the same assumption and `FrameOutcome`:

- `PassTypeCorrect`, `GatesHold`, `GatesRefuseNoGrant`, `CountersAreHonest`. The invariant that makes
  them inductive, `PassInv`, says that the gates agree with what was
  granted: `tx_passthrough_en` and `enabled` are equal to the grants, and a
  tracked slot filters for the address granted for it.
- `TrafficKeepsContract`: the channel implements `ChannelContract` with traffic
  between the commands as well; a frame that is not a command is a stutter of it.

`NcsiBus_proofs`, from `BusAssumption`, and `InstancesTellApart` for
`AcknowledgementsHold`. The module instantiates `NcsiResponder_proofs` once for each
chip (`P0`, `P1`). The lemmas `SameHandler0`, `SameHandler1` and the other `Same...` say
that `P0` speaks of the same operators as `C0` of `NcsiBus`, and `Assumption0`,
`Assumption1` discharge the assumption of the instance, so a lemma about one chip
is cited and not proved again:

- `BusTypeCorrect`: the types of both chips, carried over from `TypeCorrect` through
  `ChipsAreResponders`, with `MailTypeCorrect` for the mailboxes and the MC.
- `OwnersAnswer`: inductive with the types of the mailboxes. A chip either answers for
  its own channel or the package, echoing the channel, or does nothing
  (`FrameAddressing`).
- `ChannelsAreSeparate`: an action property from the same lemma.
- `ChipsAreResponders`: every step of the card is, for either chip, the handling of
  one frame or a stutter. Through it each theorem about a chip holds on the card;
  `ChannelsKeepContract` is the one carried over by name.
- `AcknowledgementsHold`. `AcknowledgedHolds` is not inductive: a copy of the command
  may still be pending when the MC goes on, and while the command is outstanding
  nothing is acknowledged. `AckInv` adds, for the chip that owns the channel: from the
  first answer on nothing is pending but copies of the answered command, and as soon
  as one answer was COMPLETE the command is in force. The steps need that a kept
  answer is one to the very command (`KeptAnswer`), that a completed command is in
  force (`CompletionForces`) and stays so when a copy of it is handled, accepted
  or refused (`RepeatKeeps`). TLC checked `AckInv` on the instance of `bus_channels`
  and on a larger one before it was proved.

`RxHandoff_proofs`, from `RxAssumption` and `~MayHoist`, and but for `RxTypeCorrect` one
buffer:

- `FramesAreWhole`, `HandoffIsMailbox`. The invariant says at which points of the
  two programs the buffer is whose: the CPU owns it exactly from the end of reception to
  `Return`, and in between exactly one of the interrupt line, the flag and the
  main loop holds the frame.
- `RxTypeCorrect`, with any number of buffers: the invariant `PointersSet` says from
  which points on `gRxFrame` and the main loop's copies hold a buffer that was written.
- `NothingHandledTwice`: the mailbox's own invariant, carried through the refinement.

`WireCodec_proofs`, from `CodecAssumption`:

- `CodecTypeCorrect`: no access out of bounds, and no unwritten stack byte goes out,
  for every byte width and size.
- `SwapCorrect`, assuming `Base = 256`: the loops' invariant is that the bytes
  before the index are swapped, or copied.
- `FieldCompensates`, assuming `Base = 256`: the stored bytes read back as the 2's
  complement of the accumulator.
- `ChecksumIsAccepted` and `ZeroMeansZeros`, assuming `Base = 256`, for every packet,
  region and length. The loop's invariant `SumInv` says that the accumulator is the sum
  of the bytes passed, each weighed by its offset (`NextSum`, `EvenWeights`), below
  the bound at which 32 bits would wrap (`NoWrap`), and 0 only if they are all 0. The
  sum itself is a recursive function; that it exists and adds up (`SumsAddUp`) is an
  induction over the region, done as a minimal counterexample (`LeastElement`, from
  the well-foundedness of the naturals), because the induction theorems of the
  library take an operator as a parameter.

`TxPath_proofs`, from `TxAssumption`:

- `TxTypeCorrect`.
- `ResponsesIntact` and `CountedAreSent`, assuming `~MayTimeOut` and `ClearsDone`.
  `WireIntact` is not inductive; `TxInv` (lemma `TurnsAreTaken`) is. It says that CPU
  and hardware take turns: while the CPU does not wait the engine is idle or stuck,
  while it waits the descriptor names the frame being sent and what a working engine
  read of it is unchanged.
- `ChecksumsHonest`, assuming `~MayDisable` too, with the invariant that each
  static frame carries no checksum or that of its body.

Only model-checked: liveness (`EveryCommandAnswered`, `BufferComesBack`, `NeverBlocks`),
since fairness and ENABLED are beyond the prover. Every invariant and action
property and both refinements the runs check are theorems.

## 5. Not modelled

- HAL bodies are placeholders; the model uses what `Network.h` asks of them.
- No AEN is ever generated by the code, so there is nothing to model beyond the
  stored setting.
- Contents of Get Version ID, Get Capabilities and Get Link Status responses: fixed
  identity values and a copy of the link state, over which no property is stated.
- The layout of the payload structs (`Ethernet.h`): frames are decoded records. The
  big-endian access to their fields is `WireCodec`.
- `ncsi_wr16`, which only stores constants of the responses.
- An RX ring, a second TX buffer or an RTOS task: the template mentions them as
  choices of the board and has no code for them.
- Buffers other than the static frames under a transmit timeout: the stack buffer of
  `NCSI_TxBePacket` and an RX buffer being forwarded have the race `tx_timeout`
  shows, and no module of their own.

## 6. What could follow

1. Forwarding under a timeout: one module for both DMA engines, in which the RX buffer
   is also a TX buffer.
2. The card with pass-through: two instances of `NcsiPassthrough` behind the mailboxes of
   `NcsiBus`, so that what the MC was granted is related to the answers that reached it
   and not to those that were sent.
