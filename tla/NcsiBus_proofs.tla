-------------------------- MODULE NcsiBus_proofs --------------------------
(***************************************************************************)
(* Theorems about the card for every package number, every set of commands *)
(* the Management Controller may send, and every number of filter slots:   *)
(* what each chip may answer, and that no chip acts for the other channel. *)
(***************************************************************************)
EXTENDS NcsiBus, TLAPS

\* The theorems about a chip, for each of the two.  The definitions they are about
\* are those of C0 and C1 under another name.
P0 == INSTANCE NcsiResponder_proofs WITH
        ChannelId <- 0, selected <- selected0, port <- port0, nic <- nic0,
        linkUp <- link0, rx <- rx0, tx <- tx0
P1 == INSTANCE NcsiResponder_proofs WITH
        ChannelId <- 1, selected <- selected1, port <- port1, nic <- nic1,
        linkUp <- link1, rx <- rx1, tx <- tx1

----------------------------------------------------------------------------
(* Two chips *)

LEMMA SameHandler0 ==
  ASSUME NEW f PROVE C0!handleNCSIFrame(f) = P0!handleNCSIFrame(f)
BY Zenon
DEF C0!ChannelPackage, C0!Slots, C0!Unimplemented, C0!PackageCommands,
        C0!FourBytes, C0!EightBytes, C0!NoBytes, C0!Commands, C0!gNCSIHandlers, C0!Inc,
        C0!ClearStats, C0!ResetState, C0!Addressed, C0!HasHandler, C0!LengthOk,
        C0!AlwaysAccepted, C0!ChannelReady, C0!Accepted, C0!CountRx, C0!Respond,
        C0!Complete, C0!Ignore, C0!RejectUnknown, C0!RejectLength,
        C0!RejectPackageWide, C0!RejectNotReady, C0!ClearInitialState,
        C0!SelectPackage, C0!DeselectPackage, C0!EnableChannel, C0!DisableChannel,
        C0!ResetChannel, C0!EnableTX, C0!DisableTX, C0!AENEnable, C0!SetLink,
        C0!NetworkIsLinkUp, C0!KicksLink, C0!BmsrReads, C0!GetLinkStatus,
        C0!SetVLANFilter, C0!EnableVLAN, C0!DisableVLAN, C0!Slot, C0!ProgramNic,
        C0!SetMACAddress, C0!EnableBroadcast, C0!DisableBroadcast, C0!Identify,
        C0!UnknownHandler, C0!Dispatch, C0!Execute, C0!handleNCSIFrame,
        P0!ChannelPackage, P0!Slots, P0!Unimplemented, P0!PackageCommands,
        P0!FourBytes, P0!EightBytes, P0!NoBytes, P0!Commands, P0!gNCSIHandlers, P0!Inc,
        P0!ClearStats, P0!ResetState, P0!Addressed, P0!HasHandler, P0!LengthOk,
        P0!AlwaysAccepted, P0!ChannelReady, P0!Accepted, P0!CountRx, P0!Respond,
        P0!Complete, P0!Ignore, P0!RejectUnknown, P0!RejectLength,
        P0!RejectPackageWide, P0!RejectNotReady, P0!ClearInitialState,
        P0!SelectPackage, P0!DeselectPackage, P0!EnableChannel, P0!DisableChannel,
        P0!ResetChannel, P0!EnableTX, P0!DisableTX, P0!AENEnable, P0!SetLink,
        P0!NetworkIsLinkUp, P0!KicksLink, P0!BmsrReads, P0!GetLinkStatus,
        P0!SetVLANFilter, P0!EnableVLAN, P0!DisableVLAN, P0!Slot, P0!ProgramNic,
        P0!SetMACAddress, P0!EnableBroadcast, P0!DisableBroadcast, P0!Identify,
        P0!UnknownHandler, P0!Dispatch, P0!Execute, P0!handleNCSIFrame

LEMMA SameHandler1 ==
  ASSUME NEW f PROVE C1!handleNCSIFrame(f) = P1!handleNCSIFrame(f)
BY Zenon
DEF C1!ChannelPackage, C1!Slots, C1!Unimplemented, C1!PackageCommands,
        C1!FourBytes, C1!EightBytes, C1!NoBytes, C1!Commands, C1!gNCSIHandlers, C1!Inc,
        C1!ClearStats, C1!ResetState, C1!Addressed, C1!HasHandler, C1!LengthOk,
        C1!AlwaysAccepted, C1!ChannelReady, C1!Accepted, C1!CountRx, C1!Respond,
        C1!Complete, C1!Ignore, C1!RejectUnknown, C1!RejectLength,
        C1!RejectPackageWide, C1!RejectNotReady, C1!ClearInitialState,
        C1!SelectPackage, C1!DeselectPackage, C1!EnableChannel, C1!DisableChannel,
        C1!ResetChannel, C1!EnableTX, C1!DisableTX, C1!AENEnable, C1!SetLink,
        C1!NetworkIsLinkUp, C1!KicksLink, C1!BmsrReads, C1!GetLinkStatus,
        C1!SetVLANFilter, C1!EnableVLAN, C1!DisableVLAN, C1!Slot, C1!ProgramNic,
        C1!SetMACAddress, C1!EnableBroadcast, C1!DisableBroadcast, C1!Identify,
        C1!UnknownHandler, C1!Dispatch, C1!Execute, C1!handleNCSIFrame,
        P1!ChannelPackage, P1!Slots, P1!Unimplemented, P1!PackageCommands,
        P1!FourBytes, P1!EightBytes, P1!NoBytes, P1!Commands, P1!gNCSIHandlers, P1!Inc,
        P1!ClearStats, P1!ResetState, P1!Addressed, P1!HasHandler, P1!LengthOk,
        P1!AlwaysAccepted, P1!ChannelReady, P1!Accepted, P1!CountRx, P1!Respond,
        P1!Complete, P1!Ignore, P1!RejectUnknown, P1!RejectLength,
        P1!RejectPackageWide, P1!RejectNotReady, P1!ClearInitialState,
        P1!SelectPackage, P1!DeselectPackage, P1!EnableChannel, P1!DisableChannel,
        P1!ResetChannel, P1!EnableTX, P1!DisableTX, P1!AENEnable, P1!SetLink,
        P1!NetworkIsLinkUp, P1!KicksLink, P1!BmsrReads, P1!GetLinkStatus,
        P1!SetVLANFilter, P1!EnableVLAN, P1!DisableVLAN, P1!Slot, P1!ProgramNic,
        P1!SetMACAddress, P1!EnableBroadcast, P1!DisableBroadcast, P1!Identify,
        P1!UnknownHandler, P1!Dispatch, P1!Execute, P1!handleNCSIFrame

\* What the theorems about a chip assume of its constants.
LEMMA Assumption0 == P0!ResponderAssumption
BY BusAssumption DEF C0!ControlFrame, C0!Response, P0!ControlFrame, P0!Response

LEMMA Assumption1 == P1!ResponderAssumption
BY BusAssumption DEF C0!ControlFrame, C0!Response, P1!ControlFrame, P1!Response

\* A chip answers for itself or for the package, echoing the channel it was asked
\* for, or it does nothing.
LEMMA Chip0Addressing ==
  ASSUME NEW f, C0!handleNCSIFrame(f)
  PROVE  \/ f.channel \in {31, 0} /\ tx0'.channel = f.channel
         \/ tx0' = None /\ UNCHANGED <<selected0, port0, nic0>>
BY SameHandler0, Assumption0, P0!FrameAddressing DEF P0!ChannelPackage

LEMMA Chip1Addressing ==
  ASSUME NEW f, C1!handleNCSIFrame(f)
  PROVE  \/ f.channel \in {31, 1} /\ tx1'.channel = f.channel
         \/ tx1' = None /\ UNCHANGED <<selected1, port1, nic1>>
BY SameHandler1, Assumption1, P1!FrameAddressing DEF P1!ChannelPackage

----------------------------------------------------------------------------
(* The bus *)

\* A frame on the bus replaces what is pending in some chips, and nothing else.
LEMMA Arrival ==
  ASSUME NEW f \in Requests, pending \in [Chips -> Requests \cup {None}],
         NCSI_RxOk_ISR(f)
  PROVE  pending' \in [Chips -> Requests \cup {None}]
BY DEF NCSI_RxOk_ISR

\* An answer is kept only if it is for the channel the outstanding command names.
LEMMA Delivery ==
  ASSUME NEW c \in Chips, NEW answer, Deliver(c, answer),
         \A a \in answers : a.chip \in Chips
  PROVE  /\ \A a \in answers' : a.chip \in Chips
         /\ \/ answers' = answers
            \/ /\ answer # None /\ outstanding # None
               /\ answer.channel = outstanding.channel
               /\ {a.chip : a \in answers'} = {a.chip : a \in answers} \cup {c}
<1>1. CASE answers' = answers
  BY <1>1
<1>2. CASE answers' # answers
  <2>1. /\ answer # None /\ outstanding # None
        /\ answer.channel = outstanding.channel
        /\ answers' = answers \cup {[chip |-> c, code |-> answer.code]}
    BY <1>2 DEF Deliver
  <2>2. [chip |-> c, code |-> answer.code].chip = c
    OBVIOUS
  <2> QED BY <2>1, <2>2
<1> QED BY <1>1, <1>2

\* The two invariants are proved together: that answers name a chip is what makes
\* the set of chips that answered a set of channels.
BusInv == MailTypeOK /\ OneChannelResponder

LEMMA BusStep == BusInv /\ [Next]_vars => BusInv'
<1> SUFFICES ASSUME BusInv, [Next]_vars PROVE BusInv'
  OBVIOUS
<1> USE DEF BusInv, MailTypeOK
<1>1. CASE NCSI_PollRx0
  <2>1. /\ pending[0] \in Requests
        /\ pending' \in [Chips -> Requests \cup {None}]
        /\ UNCHANGED <<outstanding, acked>>
    BY <1>1 DEF NCSI_PollRx0, TakePending, Chips
  <2>2. Deliver(0, tx0') /\ 0 \in Chips
    BY <1>1 DEF NCSI_PollRx0, Chips
  <2>3. tx0' # None => tx0'.channel \in {31, 0}
    BY <1>1, Chip0Addressing DEF NCSI_PollRx0
  <2>4. outstanding # None /\ outstanding.channel \in Chips /\ answers' # answers
          => outstanding.channel = 0
    BY <2>2, <2>3, Delivery DEF Chips
  <2>5. OneChannelResponder'
    BY <2>1, <2>2, <2>4, Delivery DEF OneChannelResponder, Answering
  <2> QED BY <2>1, <2>2, <2>5, Delivery
<1>2. CASE NCSI_PollRx1
  <2>1. /\ pending[1] \in Requests
        /\ pending' \in [Chips -> Requests \cup {None}]
        /\ UNCHANGED <<outstanding, acked>>
    BY <1>2 DEF NCSI_PollRx1, TakePending, Chips
  <2>2. Deliver(1, tx1') /\ 1 \in Chips
    BY <1>2 DEF NCSI_PollRx1, Chips
  <2>3. tx1' # None => tx1'.channel \in {31, 1}
    BY <1>2, Chip1Addressing DEF NCSI_PollRx1
  <2>4. outstanding # None /\ outstanding.channel \in Chips /\ answers' # answers
          => outstanding.channel = 1
    BY <2>2, <2>3, Delivery DEF Chips
  <2>5. OneChannelResponder'
    BY <2>1, <2>2, <2>4, Delivery DEF OneChannelResponder, Answering
  <2> QED BY <2>1, <2>2, <2>5, Delivery
<1>3. ASSUME NEW f \in Requests, McSend(f) PROVE BusInv'
  <2>1. pending' \in [Chips -> Requests \cup {None}]
    BY <1>3, Arrival DEF McSend
  <2> QED BY <1>3, <2>1 DEF McSend, OneChannelResponder, Answering
<1>4. CASE McRepeat
  <2>1. pending' \in [Chips -> Requests \cup {None}]
    BY <1>4, Arrival DEF McRepeat
  <2> QED BY <1>4, <2>1 DEF McRepeat, mc, OneChannelResponder, Answering
<1>5. CASE McAccept
  BY <1>5 DEF McAccept, OneChannelResponder, Answering
<1>6. CASE UNCHANGED vars
  BY <1>6 DEF vars, mc, OneChannelResponder, Answering
<1> QED BY <1>1, <1>2, <1>3, <1>4, <1>5, <1>6 DEF Next

LEMMA BusInvariant == Spec => []BusInv
<1>1. Init => BusInv
  BY DEF Init, BusInv, MailTypeOK, OneChannelResponder, Answering
<1> QED BY <1>1, BusStep, PTL DEF Spec

\* What is pending is a command of the MC, and only the two chips answer.
LEMMA MailTypeCorrect == Spec => []MailTypeOK
BY BusInvariant, PTL DEF BusInv

\* No chip answers for the other chip's channel, although each sees every frame.
THEOREM OwnersAnswer == Spec => []OneChannelResponder
BY BusInvariant, PTL DEF BusInv

\* A frame for one channel leaves no trace in the chip of the other channel.
THEOREM ChannelsAreSeparate == Spec => NoCrossTalk
<1> DEFINE separate0 == port0' = port0 /\ selected0' = selected0 /\ nic0' = nic0
           separate1 == port1' = port1 /\ selected1' = selected1 /\ nic1' = nic1
<1>1. NCSI_PollRx0 => separate1 /\ (pending[0].channel = 1 => separate0)
  BY Chip0Addressing DEF NCSI_PollRx0, chip1
<1>2. NCSI_PollRx1 => separate0 /\ (pending[1].channel = 0 => separate1)
  BY Chip1Addressing DEF NCSI_PollRx1, chip0
<1>3. (\E f \in Requests : McSend(f)) \/ McRepeat \/ McAccept
        => separate0 /\ separate1
  BY DEF McSend, McRepeat, McAccept, chip0, chip1
<1>4. [Next]_vars =>
        [/\ pending[0] # None /\ pending[0].channel = 1 /\ pending'[0] = None =>
              port0' = port0 /\ selected0' = selected0 /\ nic0' = nic0
         /\ pending[1] # None /\ pending[1].channel = 0 /\ pending'[1] = None =>
              port1' = port1 /\ selected1' = selected1 /\ nic1' = nic1]_vars
  BY <1>1, <1>2, <1>3 DEF Next
<1> QED BY <1>4, PTL DEF Spec, NoCrossTalk

----------------------------------------------------------------------------
(* Each chip is a responder *)

LEMMA SameInit ==
  /\ C0!Init = P0!Init
  /\ C1!Init = P1!Init
BY Zenon
DEF C0!Init, C0!PowerOn, C0!NoFilters, C0!Slots, C0!NicSlots,
    P0!Init, P0!PowerOn, P0!NoFilters, P0!Slots, P0!NicSlots,
    C1!Init, C1!PowerOn, C1!NoFilters, C1!Slots, C1!NicSlots,
    P1!Init, P1!PowerOn, P1!NoFilters, P1!Slots, P1!NicSlots

\* A step of the card is, for either chip, the handling of one frame of the
\* Management Controller or nothing.
LEMMA ChipStep ==
  MailTypeOK /\ [Next]_vars => [C0!Next]_C0!vars /\ [C1!Next]_C1!vars
<1> SUFFICES ASSUME MailTypeOK, [Next]_vars
             PROVE  [C0!Next]_C0!vars /\ [C1!Next]_C1!vars
  OBVIOUS
<1>1. CASE NCSI_PollRx0
  <2>1. pending[0] \in Requests /\ C0!handleNCSIFrame(pending[0]) /\ UNCHANGED chip1
    BY <1>1 DEF NCSI_PollRx0, TakePending, MailTypeOK, Chips
  <2> QED BY <2>1 DEF C0!Next, chip1, C1!vars
<1>2. CASE NCSI_PollRx1
  <2>1. pending[1] \in Requests /\ C1!handleNCSIFrame(pending[1]) /\ UNCHANGED chip0
    BY <1>2 DEF NCSI_PollRx1, TakePending, MailTypeOK, Chips
  <2> QED BY <2>1 DEF C1!Next, chip0, C0!vars
<1>3. ASSUME UNCHANGED <<chip0, chip1>> PROVE UNCHANGED <<C0!vars, C1!vars>>
  BY <1>3 DEF chip0, chip1, C0!vars, C1!vars
<1>4. CASE UNCHANGED vars
  BY <1>3, <1>4 DEF vars
<1> QED BY <1>1, <1>2, <1>3, <1>4 DEF Next, McSend, McRepeat, McAccept

\* Whatever the Management Controller sends and the bus loses, each chip behaves as
\* the responder of NcsiResponder with its own channel number, so that every theorem
\* of NcsiResponder_proofs is one about the chips of the card.
THEOREM ChipsAreResponders == Spec => C0!Spec /\ C1!Spec
<1>1. Init => C0!Init /\ C1!Init
  BY DEF Init
<1> QED BY <1>1, ChipStep, MailTypeCorrect, PTL DEF Spec, C0!Spec, C1!Spec

LEMMA SameNext0 == [C0!Next]_C0!vars => [P0!Next]_P0!vars
<1>1. (\E f \in Requests : C0!handleNCSIFrame(f)) => \E f \in Requests : P0!handleNCSIFrame(f)
  BY SameHandler0
<1>2. C0!Reload = P0!Reload /\ C0!Restart = P0!Restart /\ C0!LinkChange = P0!LinkChange
  BY Zenon
  DEF C0!Reload, C0!ClearStats, C0!Restart, C0!PowerOn, C0!NoFilters, C0!Slots,
      C0!NicSlots, C0!LinkChange, P0!Reload, P0!ClearStats, P0!Restart, P0!PowerOn,
      P0!NoFilters, P0!Slots, P0!NicSlots, P0!LinkChange
<1> QED BY <1>1, <1>2 DEF C0!Next, P0!Next, C0!vars, P0!vars

LEMMA SameNext1 == [C1!Next]_C1!vars => [P1!Next]_P1!vars
<1>1. (\E f \in Requests : C1!handleNCSIFrame(f)) => \E f \in Requests : P1!handleNCSIFrame(f)
  BY SameHandler1
<1>2. C1!Reload = P1!Reload /\ C1!Restart = P1!Restart /\ C1!LinkChange = P1!LinkChange
  BY Zenon
  DEF C1!Reload, C1!ClearStats, C1!Restart, C1!PowerOn, C1!NoFilters, C1!Slots,
      C1!NicSlots, C1!LinkChange, P1!Reload, P1!ClearStats, P1!Restart, P1!PowerOn,
      P1!NoFilters, P1!Slots, P1!NicSlots, P1!LinkChange
<1> QED BY <1>1, <1>2 DEF C1!Next, P1!Next, C1!vars, P1!vars

LEMMA ChipSpecs == Spec => P0!Spec /\ P1!Spec
<1>1. (C0!Init => P0!Init) /\ (C1!Init => P1!Init)
  BY SameInit
<1> QED BY <1>1, ChipsAreResponders, SameNext0, SameNext1, PTL
        DEF C0!Spec, C1!Spec, P0!Spec, P1!Spec

LEMMA ChipTypes == Spec => []P0!TypeOK /\ []P1!TypeOK
<1>1. P0!Spec => []P0!TypeOK
  BY Assumption0, P0!TypeCorrect
<1>2. P1!Spec => []P1!TypeOK
  BY Assumption1, P1!TypeCorrect
<1> QED BY <1>1, <1>2, ChipSpecs, PTL

LEMMA SameTypes ==
  /\ P0!TypeOK = C0!TypeOK
  /\ P1!TypeOK = C1!TypeOK
BY Zenon
DEF C0!TypeOK, C0!ChannelState, C0!Stat, C0!Filter, C0!Slots, C0!NicSlots, C0!Response,
    P0!TypeOK, P0!ChannelState, P0!Stat, P0!Filter, P0!Slots, P0!NicSlots, P0!Response,
    C1!TypeOK, C1!ChannelState, C1!Stat, C1!Filter, C1!Slots, C1!NicSlots, C1!Response,
    P1!TypeOK, P1!ChannelState, P1!Stat, P1!Filter, P1!Slots, P1!NicSlots, P1!Response

\* Both chips keep the types of a responder whatever the bus hands them, what is
\* pending is a command of the MC, and only the two chips answer.
THEOREM BusTypeCorrect == Spec => []BusTypeOK
<1>1. P0!TypeOK /\ P1!TypeOK /\ MailTypeOK => BusTypeOK
  BY SameTypes DEF BusTypeOK
<1> QED BY <1>1, ChipTypes, MailTypeCorrect, PTL

LEMMA SameContract0 == P0!ImplementsContract => C0!ImplementsContract
<1>1. P0!Contract!Init => C0!Contract!Init
  BY Zenon
  DEF P0!Contract!Init, P0!Contract!AllOff, P0!ServiceOn, P0!Slots, C0!Contract!Init,
      C0!Contract!AllOff, C0!ServiceOn, C0!Slots
<1>2. [P0!Contract!Next]_P0!Contract!vars => [C0!Contract!Next]_C0!Contract!vars
  <2>1. P0!Contract!vars = C0!Contract!vars /\ P0!Contract!vars' = C0!Contract!vars'
    BY Zenon
    DEF P0!Contract!vars, P0!ServiceOn, P0!Slots, C0!Contract!vars, C0!ServiceOn,
        C0!Slots
  <2>2. P0!Contract!Next = C0!Contract!Next
    BY Zenon
    DEF P0!Contract!Next, P0!Contract!Clear, P0!Contract!Reset, P0!Contract!AllOff,
        P0!Contract!SetService, P0!Contract!SetBroadcast, P0!Contract!SetFilter,
        P0!ServiceOn, P0!Slots, C0!Contract!Next, C0!Contract!Clear,
        C0!Contract!Reset, C0!Contract!AllOff, C0!Contract!SetService,
        C0!Contract!SetBroadcast, C0!Contract!SetFilter, C0!ServiceOn, C0!Slots
  <2> QED BY <2>1, <2>2
<1> QED BY <1>1, <1>2, PTL
        DEF P0!ImplementsContract, C0!ImplementsContract, P0!Contract!Spec,
            C0!Contract!Spec

LEMMA SameContract1 == P1!ImplementsContract => C1!ImplementsContract
<1>1. P1!Contract!Init => C1!Contract!Init
  BY Zenon
  DEF P1!Contract!Init, P1!Contract!AllOff, P1!ServiceOn, P1!Slots, C1!Contract!Init,
      C1!Contract!AllOff, C1!ServiceOn, C1!Slots
<1>2. [P1!Contract!Next]_P1!Contract!vars => [C1!Contract!Next]_C1!Contract!vars
  <2>1. P1!Contract!vars = C1!Contract!vars /\ P1!Contract!vars' = C1!Contract!vars'
    BY Zenon
    DEF P1!Contract!vars, P1!ServiceOn, P1!Slots, C1!Contract!vars, C1!ServiceOn,
        C1!Slots
  <2>2. P1!Contract!Next = C1!Contract!Next
    BY Zenon
    DEF P1!Contract!Next, P1!Contract!Clear, P1!Contract!Reset, P1!Contract!AllOff,
        P1!Contract!SetService, P1!Contract!SetBroadcast, P1!Contract!SetFilter,
        P1!ServiceOn, P1!Slots, C1!Contract!Next, C1!Contract!Clear,
        C1!Contract!Reset, C1!Contract!AllOff, C1!Contract!SetService,
        C1!Contract!SetBroadcast, C1!Contract!SetFilter, C1!ServiceOn, C1!Slots
  <2> QED BY <2>1, <2>2
<1> QED BY <1>1, <1>2, PTL
        DEF P1!ImplementsContract, C1!ImplementsContract, P1!Contract!Spec,
            C1!Contract!Spec

\* Each channel of the card keeps the contract of a channel, whatever the other one is
\* asked for and whatever is lost, missed or repeated on the bus.
THEOREM ChannelsKeepContract == Spec => C0!ImplementsContract /\ C1!ImplementsContract
<1>1. P0!Spec => P0!ImplementsContract
  BY Assumption0, P0!Implements
<1>2. P1!Spec => P1!ImplementsContract
  BY Assumption1, P1!Implements
<1> QED BY <1>1, <1>2, ChipSpecs, SameContract0, SameContract1, PTL

----------------------------------------------------------------------------
(* What the Management Controller was told is complete *)

LEMMA SameInForce ==
  ASSUME NEW f, NEW p, NEW n
  PROVE  /\ C0!InForce(f, p, n) = P0!InForce(f, p, n)
         /\ C1!InForce(f, p, n) = P1!InForce(f, p, n)
BY Zenon DEF C0!InForce, C0!Slot, C0!Slots, P0!InForce, P0!Slot, P0!Slots,
             C1!InForce, C1!Slot, C1!Slots, P1!InForce, P1!Slot, P1!Slots

\* What is in force does not depend on the chip that is asked.
LEMMA SameRule ==
  ASSUME NEW f, NEW p, NEW n PROVE C0!InForce(f, p, n) = C1!InForce(f, p, n)
BY Zenon DEF C0!InForce, C0!Slot, C0!Slots, C1!InForce, C1!Slot, C1!Slots

\* What the handling of frame f says of f, and does to the commands g in force.
LEMMA Chip0Handles ==
  ASSUME P0!TypeOK, P0!TypeOK', NEW f \in Requests, C0!handleNCSIFrame(f)
  PROVE  /\ tx0' # None =>
              /\ tx0'.command = f.command /\ tx0'.channel = f.channel
              /\ tx0'.instance = f.instance
              /\ tx0'.code = "COMPLETE" => C0!InForce(f, port0', nic0')
         /\ C0!InForce(f, port0, nic0) => C0!InForce(f, port0', nic0')
<1>1. P0!handleNCSIFrame(f)
  BY SameHandler0
<1>2. IF P0!Addressed(f) THEN P0!Echoes(f) ELSE tx0' = None
  BY <1>1, Assumption0, P0!FrameOutcome
<1>3. tx0' # None /\ tx0'.code = "COMPLETE" => P0!InForce(f, port0', nic0')
  BY <1>1, Assumption0, P0!CompletionForces DEF P0!Completed
<1>4. P0!InForce(f, port0, nic0) => P0!InForce(f, port0', nic0')
  BY <1>1, Assumption0, P0!RepeatKeeps
<1> QED BY <1>2, <1>3, <1>4, SameInForce DEF P0!Echoes

LEMMA Chip1Handles ==
  ASSUME P1!TypeOK, P1!TypeOK', NEW f \in Requests, C1!handleNCSIFrame(f)
  PROVE  /\ tx1' # None =>
              /\ tx1'.command = f.command /\ tx1'.channel = f.channel
              /\ tx1'.instance = f.instance
              /\ tx1'.code = "COMPLETE" => C1!InForce(f, port1', nic1')
         /\ C1!InForce(f, port1, nic1) => C1!InForce(f, port1', nic1')
<1>1. P1!handleNCSIFrame(f)
  BY SameHandler1
<1>2. IF P1!Addressed(f) THEN P1!Echoes(f) ELSE tx1' = None
  BY <1>1, Assumption1, P1!FrameOutcome
<1>3. tx1' # None /\ tx1'.code = "COMPLETE" => P1!InForce(f, port1', nic1')
  BY <1>1, Assumption1, P1!CompletionForces DEF P1!Completed
<1>4. P1!InForce(f, port1, nic1) => P1!InForce(f, port1', nic1')
  BY <1>1, Assumption1, P1!RepeatKeeps
<1> QED BY <1>2, <1>3, <1>4, SameInForce DEF P1!Echoes

\* The answer the MC keeps is one to a copy of the command it waits for.
LEMMA KeptAnswer ==
  ASSUME NEW c, NEW answer, NEW f \in Requests, outstanding \in Requests \cup {None},
         Deliver(c, answer),
         answer # None => /\ answer.command = f.command /\ answer.channel = f.channel
                          /\ answer.instance = f.instance
  PROVE  \/ answers' = answers
         \/ /\ outstanding = f /\ answer # None
            /\ answers' = answers \cup {[chip |-> c, code |-> answer.code]}
BY InstancesTellApart DEF Deliver

\* The invariant, for the channel c of a chip with state p, NIC slots n and pending
\* frame pend: from the first answer on, only copies of the answered command are
\* pending in the chip that owns the channel, and what one answer confirmed is in
\* force.  Both still hold when the MC has accepted the answers.
ChannelAck(c, p, n, pend, out, ans, ack) ==
  /\ out # None /\ out.channel = c =>
       /\ ans # {} => pend \in {None, out}
       /\ (\E a \in ans : a.code = "COMPLETE") => C0!InForce(out, p, n)
  /\ ack # None /\ ack.channel = c => pend \in {None, ack} /\ C0!InForce(ack, p, n)

AckInv ==
  /\ acked # None => outstanding = None
  /\ ChannelAck(0, port0, nic0, pending[0], outstanding, answers, acked)
  /\ ChannelAck(1, port1, nic1, pending[1], outstanding, answers, acked)

\* The chip that owns channel c handles frame f, and leaves p2 and n2.
LEMMA OwnStep ==
  ASSUME NEW c, NEW p, NEW n, NEW p2, NEW n2, NEW f, NEW out, NEW ans, NEW ans2,
         NEW ack, NEW a, ChannelAck(c, p, n, f, out, ans, ack), f # None,
         C0!InForce(f, p, n) => C0!InForce(f, p2, n2),
         \/ ans2 = ans
         \/ /\ out = f /\ ans2 = ans \cup {a}
            /\ a.code = "COMPLETE" => C0!InForce(f, p2, n2)
  PROVE  ChannelAck(c, p2, n2, None, out, ans2, ack)
BY DEF ChannelAck

\* The other chip handles a frame; no answer of it is one for channel c.
LEMMA OtherStep ==
  ASSUME NEW c, NEW p, NEW n, NEW pend, NEW out, NEW ans, NEW ans2, NEW ack,
         ChannelAck(c, p, n, pend, out, ans, ack),
         ans2 = ans \/ out.channel # c
  PROVE  ChannelAck(c, p, n, pend, out, ans2, ack)
BY DEF ChannelAck

\* A copy of the outstanding command arrives at the chip, or does not.
LEMMA RepeatStep ==
  ASSUME NEW c, NEW p, NEW n, NEW pend, NEW pend2, NEW out, NEW ans,
         ChannelAck(c, p, n, pend, out, ans, None), pend2 \in {pend, out}
  PROVE  ChannelAck(c, p, n, pend2, out, ans, None)
BY DEF ChannelAck

\* The MC goes on: the command becomes the acknowledged one if every answer was
\* COMMAND_COMPLETE.
LEMMA AcceptStep ==
  ASSUME NEW c, NEW p, NEW n, NEW pend, NEW out, NEW ans, NEW ack, NEW ack2,
         ChannelAck(c, p, n, pend, out, ans, ack), out # None, ans # {},
         ack2 = IF \A a \in ans : a.code = "COMPLETE" THEN out ELSE None
  PROVE  ChannelAck(c, p, n, pend, None, ans, ack2)
BY DEF ChannelAck

LEMMA AckStep ==
  /\ MailTypeOK /\ P0!TypeOK /\ P0!TypeOK' /\ P1!TypeOK /\ P1!TypeOK'
  /\ AckInv /\ [Next]_vars
  => AckInv'
<1> SUFFICES ASSUME MailTypeOK, P0!TypeOK, P0!TypeOK', P1!TypeOK, P1!TypeOK',
                    AckInv, [Next]_vars
             PROVE  AckInv'
  OBVIOUS
<1>0. /\ outstanding \in Requests \cup {None}
      /\ pending \in [Chips -> Requests \cup {None}] /\ 0 \in Chips /\ 1 \in Chips
  BY DEF MailTypeOK, Chips
<1>1. CASE NCSI_PollRx0
  <2> DEFINE a == [chip |-> 0, code |-> tx0'.code]
  <2>1. /\ pending[0] \in Requests /\ pending[0] # None
        /\ pending'[0] = None /\ pending'[1] = pending[1]
        /\ UNCHANGED <<port1, nic1, outstanding, acked>>
        /\ C0!handleNCSIFrame(pending[0]) /\ Deliver(0, tx0')
    BY <1>0, <1>1 DEF NCSI_PollRx0, TakePending, chip1
  <2>2. \/ answers' = answers
        \/ /\ outstanding = pending[0] /\ answers' = answers \cup {a}
           /\ outstanding.channel \in {31, 0}
           /\ a.code = "COMPLETE" => C0!InForce(pending[0], port0', nic0')
    BY <1>0, <2>1, KeptAnswer, Chip0Handles, Chip0Addressing
  <2>3. C0!InForce(pending[0], port0, nic0) => C0!InForce(pending[0], port0', nic0')
    BY <2>1, Chip0Handles
  <2>4. ChannelAck(0, port0', nic0', None, outstanding, answers', acked)
    <3> HIDE DEF a
    <3> QED BY <2>1, <2>2, <2>3, OwnStep DEF AckInv
  <2>5. ChannelAck(1, port1, nic1, pending[1], outstanding, answers', acked)
    BY <2>2, OtherStep DEF AckInv
  <2> QED BY <2>1, <2>4, <2>5 DEF AckInv
<1>2. CASE NCSI_PollRx1
  <2> DEFINE a == [chip |-> 1, code |-> tx1'.code]
  <2>1. /\ pending[1] \in Requests /\ pending[1] # None
        /\ pending'[1] = None /\ pending'[0] = pending[0]
        /\ UNCHANGED <<port0, nic0, outstanding, acked>>
        /\ C1!handleNCSIFrame(pending[1]) /\ Deliver(1, tx1')
    BY <1>0, <1>2 DEF NCSI_PollRx1, TakePending, chip0
  <2>2. \/ answers' = answers
        \/ /\ outstanding = pending[1] /\ answers' = answers \cup {a}
           /\ outstanding.channel \in {31, 1}
           /\ a.code = "COMPLETE" => C1!InForce(pending[1], port1', nic1')
    BY <1>0, <2>1, KeptAnswer, Chip1Handles, Chip1Addressing
  <2>3. C1!InForce(pending[1], port1, nic1) => C1!InForce(pending[1], port1', nic1')
    BY <2>1, Chip1Handles
  <2>4. ChannelAck(1, port1', nic1', None, outstanding, answers', acked)
    <3> HIDE DEF a
    <3> QED BY <2>1, <2>2, <2>3, OwnStep, SameRule DEF AckInv
  <2>5. ChannelAck(0, port0, nic0, pending[0], outstanding, answers', acked)
    BY <2>2, OtherStep DEF AckInv
  <2> QED BY <2>1, <2>4, <2>5 DEF AckInv
<1>3. ASSUME NEW f \in Requests, McSend(f) PROVE AckInv'
  <2>1. answers' = {} /\ acked' = None
    BY <1>3 DEF McSend
  <2> QED BY <2>1 DEF AckInv, ChannelAck
<1>4. CASE McRepeat
  <2>1. outstanding # None /\ acked = None /\ UNCHANGED <<chip0, chip1, mc>>
        /\ pending'[0] \in {pending[0], outstanding}
        /\ pending'[1] \in {pending[1], outstanding}
    BY <1>0, <1>4 DEF McRepeat, AckInv, NCSI_RxOk_ISR
  <2>2. /\ ChannelAck(0, port0, nic0, pending'[0], outstanding, answers, None)
        /\ ChannelAck(1, port1, nic1, pending'[1], outstanding, answers, None)
    BY <2>1, RepeatStep DEF AckInv
  <2> QED BY <2>1, <2>2 DEF AckInv, chip0, chip1, mc
<1>5. CASE McAccept
  <2>1. /\ outstanding # None /\ answers # {} /\ outstanding' = None
        /\ acked' = IF \A a \in answers : a.code = "COMPLETE" THEN outstanding ELSE None
        /\ UNCHANGED <<port0, nic0, port1, nic1, pending, answers>>
    BY <1>5 DEF McAccept, chip0, chip1
  <2>2. /\ ChannelAck(0, port0, nic0, pending[0], None, answers, acked')
        /\ ChannelAck(1, port1, nic1, pending[1], None, answers, acked')
    BY <2>1, AcceptStep DEF AckInv
  <2> QED BY <2>1, <2>2 DEF AckInv
<1>6. CASE UNCHANGED vars
  BY <1>6 DEF vars, chip0, chip1, mc, AckInv
<1> QED BY <1>1, <1>2, <1>3, <1>4, <1>5, <1>6 DEF Next

\* A command the MC was told is complete stays in force in the chip that owns the
\* channel until the MC sends the next one, whatever copies of it are still pending
\* then, whichever answers were lost, and whatever the other chip does.
THEOREM AcknowledgementsHold == Spec => []AcknowledgedHolds
<1>1. Init => AckInv
  BY DEF Init, AckInv, ChannelAck
<1>2. AckInv => AcknowledgedHolds
  BY SameRule DEF AckInv, ChannelAck, AcknowledgedHolds
<1> QED BY <1>1, <1>2, AckStep, MailTypeCorrect, ChipTypes, PTL DEF Spec

============================================================================
