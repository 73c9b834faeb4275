--------------------------- MODULE NcsiResponder ---------------------------
(***************************************************************************)
(* The NC-SI command engine of ONE chip (src/src/ncsi/ncsi.c): the state   *)
(* of its channel, the dispatch of control frames, one action per command  *)
(* handler, and the events around them (reload, restart, link changes).    *)
(*                                                                         *)
(* handleNCSIFrame() runs only from the main loop (never from the ISR) and *)
(* Network_TxFrame() blocks, so one received frame is handled, and its     *)
(* response handed to the transmitter, in a single step.                   *)
(***************************************************************************)
EXTENDS Integers

CONSTANTS
  PackageId,     \* gLocalPackageId, strapped by GPIO
  ChannelId,     \* gLocalChannelId, strapped by GPIO20: 0 or 1
  MaxFilters,    \* NCSI_MAX_MAC_FILTERS (8)
  MaxMacNumber,  \* largest MACNumber a frame can carry (255)
  Macs,          \* MAC addresses
  ZeroMac,       \* the all-zero bytes RAM starts with
  Words,         \* values of the settings a command carries
  StatModulus,   \* counters wrap here (2^32)
  Requests,      \* control frames the Management Controller may send
  None           \* no frame, no response, an unprogrammed NIC slot

ChannelPackage == 31     \* CHANNEL_ID_PACKAGE, 0x1F

Slots    == 0 .. MaxFilters - 1
NicSlots == 0 .. MaxMacNumber - 1

\* Control packet types 0x12-0x14 and 0x17-0x1A: in the table, not implemented.
Unimplemented ==
  {"EnableMulticast", "DisableMulticast", "SetFlowControl", "GetParameters",
   "GetPacketStatistics", "GetNcsiStatistics", "GetPassthroughStatistics"}

PackageCommands == {"SelectPackage", "DeselectPackage"}

FourBytes ==
  {"SelectPackage", "DisableChannel", "ResetChannel", "EnableVLAN",
   "EnableBroadcast", "EnableMulticast", "SetFlowControl"}
EightBytes == {"AENEnable", "SetLink", "SetVLANFilter", "SetMACAddress"}
NoBytes ==
  {"ClearInitialState", "DeselectPackage", "EnableChannel", "EnableTX",
   "DisableTX", "GetLinkStatus", "DisableVLAN", "DisableBroadcast",
   "GetVersionID", "GetCapabilities", "DisableMulticast", "GetParameters",
   "GetPacketStatistics", "GetNcsiStatistics", "GetPassthroughStatistics"}

Commands == FourBytes \cup EightBytes \cup NoBytes

\* The dispatch table; a control packet type without a row has no handler.
gNCSIHandlers ==
  [c \in Commands |->
    [ignoreInit     |-> c = "ClearInitialState",
     packageCommand |-> c \in PackageCommands,
     payloadLength  |-> IF c \in FourBytes THEN 4
                        ELSE IF c \in EightBytes THEN 8 ELSE 0]]

\* A received control frame.  The payload fields a command does not carry are
\* never read by its handler: `value' stands for AENControl, LinkSettings,
\* Mode, VLANID or BroadcastPacketFilterSettings.
ControlFrame ==
  [package : 0..7, channel : 0..31, command : STRING, instance : Nat,
   length : 0..4095, value : Words,
   number : 0..MaxMacNumber, enable : BOOLEAN, at : 0..7, mac : Macs]

\* What ncsi_package_response_t carries, and whether it went out.
Response ==
  [package : 0..7, channel : 0..31, command : STRING, instance : Nat,
   code : {"COMPLETE", "FAILED", "UNSUPPORTED"},
   reason : {"NONE", "INITIALIZATION_REQUIRED", "INVALID_PARAM",
             "INVALID_PAYLOAD_LENGTH", "VLAN_TAG_INVALID",
             "UNKNOWN_UNSUPPORTED"},
   sent : BOOLEAN]

ASSUME ResponderAssumption ==
  /\ PackageId \in 0..7
  /\ ChannelId \in 0..1
  /\ MaxFilters \in Nat \ {0}
  /\ MaxMacNumber \in Nat /\ MaxFilters <= MaxMacNumber
  /\ ZeroMac \in Macs
  /\ Words \subseteq Nat /\ 0 \in Words
  /\ StatModulus \in Nat \ {0}
  /\ Requests \subseteq ControlFrame
  /\ None \notin ControlFrame /\ None \notin Response
  /\ None \notin Macs /\ None \notin (0..7) \X Macs

VARIABLES
  selected,      \* gPackageState.selected
  port,          \* gPackageState.port[0]->state
  nic,           \* external: what Network_SetMACAddr() programmed, by slot
  linkUp,        \* external: the PHY's link
  rx,            \* the last control frame handled
  tx             \* what was handed to Network_TxFrame() for it, if anything

vars == <<selected, port, nic, linkUp, rx, tx>>

----------------------------------------------------------------------------
(* Channel state *)

Filter == [enabled : BOOLEAN, address_type : 0..7, mac : Macs]

\* Static storage is zero before ncsi_init_and_register_ports() runs, and
\* resetChannel() finds nothing to clear in it.
PowerOn ==
  [ready |-> FALSE, enabled |-> FALSE, tx_passthrough_en |-> FALSE,
   vlan_enabled |-> FALSE, aen_control |-> 0, link_settings |-> 0,
   broadcast_filter_settings |-> 0,
   mac_filters |->
     [i \in Slots |-> [enabled |-> FALSE, address_type |-> 0, mac |-> ZeroMac]],
   link_up |-> FALSE, autoneg_hcd |-> FALSE, autoneg_enabled |-> FALSE,
   stat_ncsi_rx |-> 0, stat_ncsi_tx |-> 0, stat_net_tx |-> 0,
   stat_net_dropped |-> 0]

Stat == 0 .. StatModulus - 1

ChannelState ==
  [ready : BOOLEAN, enabled : BOOLEAN, tx_passthrough_en : BOOLEAN,
   vlan_enabled : BOOLEAN, aen_control : Words, link_settings : Words,
   broadcast_filter_settings : Words, mac_filters : [Slots -> Filter],
   link_up : BOOLEAN, autoneg_hcd : BOOLEAN, autoneg_enabled : BOOLEAN,
   stat_ncsi_rx : Stat, stat_ncsi_tx : Stat, stat_net_tx : Stat,
   stat_net_dropped : Stat]

\* Operators marked "fault:" are bugs this code could have had.  No definition
\* uses them; each shows that a property notices such a bug.

\* fault: the counter does not wrap
IncUnbounded(stat) == stat + 1

Inc(stat) == (stat + 1) % StatModulus

\* stat_net_dropped is not among the counters the code clears.
ClearStats(p) ==
  [p EXCEPT !.stat_ncsi_rx = 0, !.stat_ncsi_tx = 0, !.stat_net_tx = 0]

\* fault: a setting resetChannel() does not list
ResetKeepsTX(p) ==
  ClearStats(
    [p EXCEPT !.ready = FALSE, !.enabled = FALSE, !.vlan_enabled = FALSE,
              !.broadcast_filter_settings = 0,
              !.mac_filters = [i \in Slots |-> [p.mac_filters[i] EXCEPT !.enabled = FALSE]]])

\* fault: resetChannel() without the loop over the filters
ResetKeepsFilters(p) ==
  ClearStats(
    [p EXCEPT !.ready = FALSE, !.enabled = FALSE, !.tx_passthrough_en = FALSE,
              !.vlan_enabled = FALSE, !.broadcast_filter_settings = 0])

\* resetChannel(): the AEN and link settings and the cached link status stay.
ResetState(p) ==
  ClearStats(
    [p EXCEPT !.ready = FALSE, !.enabled = FALSE, !.tx_passthrough_en = FALSE,
              !.vlan_enabled = FALSE, !.broadcast_filter_settings = 0,
              !.mac_filters = [i \in Slots |-> [p.mac_filters[i] EXCEPT !.enabled = FALSE]]])

NoFilters == [i \in NicSlots |-> None]

----------------------------------------------------------------------------
(* Dispatch: handleNCSIFrame() *)

\* fault: the package number is not compared
AddressedAnyPackage(f) == f.channel \in {ChannelPackage, ChannelId}

\* fault: the channel number is not compared
AddressedAnyChannel(f) == f.package = PackageId

\* A frame for another package, or for the other chip's channel, is ignored.
Addressed(f) ==
  /\ f.package = PackageId
  /\ f.channel \in {ChannelPackage, ChannelId}

HasHandler(f) == f.command \in Commands

LengthOk(f) == f.length = gNCSIHandlers[f.command].payloadLength

\* Package commands sent to the package, and Clear Initial State, are accepted
\* whatever the state of the channel.
AlwaysAccepted(f) ==
  \/ gNCSIHandlers[f.command].packageCommand /\ f.channel = ChannelPackage
  \/ gNCSIHandlers[f.command].ignoreInit

\* fault: the Initial State is not checked
ChannelReadyUnchecked(f) == f.channel = ChannelId

ChannelReady(f) == f.channel = ChannelId /\ port.ready

\* f reaches the handler of command c.
Accepted(f, c) ==
  /\ f.command = c
  /\ Addressed(f)
  /\ LengthOk(f)
  /\ AlwaysAccepted(f) \/ ChannelReady(f)

CountRx(p) == [p EXCEPT !.stat_ncsi_rx = Inc(@)]

\* sendNCSIResponse() with p the state of the channel by then: the frame's
\* addressing is echoed, and only a transmission that succeeds is counted.
Respond(f, p, code, reason) ==
  \E sent \in BOOLEAN :
    /\ tx' = [package |-> f.package, channel |-> f.channel,
              command |-> f.command, instance |-> f.instance,
              code |-> code, reason |-> reason, sent |-> sent]
    /\ port' = IF sent THEN [p EXCEPT !.stat_ncsi_tx = Inc(@)] ELSE p
    /\ rx' = f

\* A handler that leaves the channel in state p and answers COMMAND_COMPLETE.
Complete(f, p) == selected' = TRUE /\ Respond(f, p, "COMPLETE", "NONE")

Ignore(f) ==
  /\ ~Addressed(f)
  /\ rx' = f /\ tx' = None
  /\ UNCHANGED <<selected, port, nic, linkUp>>

RejectUnknown(f) ==
  /\ Addressed(f) /\ ~HasHandler(f)
  /\ Respond(f, port, "UNSUPPORTED", "UNKNOWN_UNSUPPORTED")
  /\ UNCHANGED <<selected, nic, linkUp>>

RejectLength(f) ==
  /\ Addressed(f) /\ HasHandler(f) /\ ~LengthOk(f)
  /\ Respond(f, port, "FAILED", "INVALID_PAYLOAD_LENGTH")
  /\ UNCHANGED <<selected, nic, linkUp>>

\* A channel command sent to the package-wide indicator.
RejectPackageWide(f) ==
  /\ Addressed(f) /\ HasHandler(f) /\ LengthOk(f) /\ ~AlwaysAccepted(f)
  /\ f.channel # ChannelId
  /\ Respond(f, port, "FAILED", "INVALID_PARAM")
  /\ UNCHANGED <<selected, nic, linkUp>>

\* fault: an early return without a response
RejectNotReadySilently(f) ==
  /\ Addressed(f) /\ HasHandler(f) /\ LengthOk(f) /\ ~AlwaysAccepted(f)
  /\ f.channel = ChannelId /\ ~port.ready
  /\ selected' = TRUE /\ rx' = f /\ tx' = None
  /\ UNCHANGED <<port, nic, linkUp>>

\* The package is selected even though the command is refused.
RejectNotReady(f) ==
  /\ Addressed(f) /\ HasHandler(f) /\ LengthOk(f) /\ ~AlwaysAccepted(f)
  /\ f.channel = ChannelId /\ ~port.ready
  /\ selected' = TRUE
  /\ Respond(f, port, "FAILED", "INITIALIZATION_REQUIRED")
  /\ UNCHANGED <<nic, linkUp>>

----------------------------------------------------------------------------
(* Command handlers *)

ClearInitialState(f) ==
  /\ Accepted(f, "ClearInitialState")
  /\ Complete(f, [CountRx(port) EXCEPT !.ready = TRUE])
  /\ UNCHANGED <<nic, linkUp>>

SelectPackage(f) ==
  /\ Accepted(f, "SelectPackage")
  /\ Complete(f, CountRx(port))
  /\ UNCHANGED <<nic, linkUp>>

\* The dispatcher selects the package, the handler deselects it again.
DeselectPackage(f) ==
  /\ Accepted(f, "DeselectPackage")
  /\ selected' = FALSE
  /\ Respond(f, CountRx(port), "COMPLETE", "NONE")
  /\ UNCHANGED <<nic, linkUp>>

\* Network_InitPort(AS_NEEDED) leaves the link of a working PHY alone.
EnableChannel(f) ==
  /\ Accepted(f, "EnableChannel")
  /\ Complete(f, [CountRx(port) EXCEPT !.enabled = TRUE])
  /\ UNCHANGED <<nic, linkUp>>

\* fault: a second setting is switched off with it
DisableChannelAndTX(f) ==
  /\ Accepted(f, "DisableChannel")
  /\ Complete(f, [CountRx(port) EXCEPT !.enabled = FALSE, !.tx_passthrough_en = FALSE])
  /\ UNCHANGED <<nic, linkUp>>

\* Leaves tx_passthrough_en alone, and ALD is not acted on.
DisableChannel(f) ==
  /\ Accepted(f, "DisableChannel")
  /\ Complete(f, [CountRx(port) EXCEPT !.enabled = FALSE])
  /\ UNCHANGED <<nic, linkUp>>

\* resetChannel() also resets the PHY over MDIO, which may fail (logged only).
ResetChannel(f) ==
  /\ Accepted(f, "ResetChannel")
  /\ Complete(f, ResetState(CountRx(port)))
  /\ linkUp' \in {linkUp, FALSE}
  /\ UNCHANGED nic

EnableTX(f) ==
  /\ Accepted(f, "EnableTX")
  /\ Complete(f, [CountRx(port) EXCEPT !.tx_passthrough_en = TRUE])
  /\ UNCHANGED <<nic, linkUp>>

DisableTX(f) ==
  /\ Accepted(f, "DisableTX")
  /\ Complete(f, [CountRx(port) EXCEPT !.tx_passthrough_en = FALSE])
  /\ UNCHANGED <<nic, linkUp>>

AENEnable(f) ==
  /\ Accepted(f, "AENEnable")
  /\ Complete(f, [CountRx(port) EXCEPT !.aen_control = f.value])
  /\ UNCHANGED <<nic, linkUp>>

SetLink(f) ==
  /\ Accepted(f, "SetLink")
  /\ Complete(f, [CountRx(port) EXCEPT !.link_settings = f.value])
  /\ UNCHANGED <<nic, linkUp>>

\* external: Network_isLinkUp(), "return true if the PHY currently reports
\* link up".
NetworkIsLinkUp == linkUp

\* The link is kicked only when the MAC driver agrees that it is down.
KicksLink(phyUp) == ~phyUp /\ ~NetworkIsLinkUp

\* external: BMSR read over MDIO.  The read fails, or gives the link bit, which
\* is latched low: it may still report a loss the link has recovered from.
BmsrReads == {"failed", "down"} \cup (IF linkUp THEN {"up"} ELSE {})

\* fault: a failed read is reported as link down, without the rest of the report
GetLinkStatusFailsDown(f) ==
  /\ Accepted(f, "GetLinkStatus")
  /\ \E reg \in BmsrReads :
       LET phyUp == reg = "up"
           hcd   == IF reg = "failed" THEN port.autoneg_hcd ELSE phyUp
       IN  /\ Complete(f, [CountRx(port) EXCEPT !.link_up = phyUp,
                                                !.autoneg_hcd = hcd,
                                                !.autoneg_enabled = TRUE])
           /\ linkUp' = (linkUp /\ ~KicksLink(phyUp))
  /\ UNCHANGED nic

GetLinkStatus(f) ==
  /\ Accepted(f, "GetLinkStatus")
  /\ \E reg \in BmsrReads :
       LET phyUp == IF reg = "failed" THEN port.link_up ELSE reg = "up"
           hcd   == IF reg = "failed" THEN port.autoneg_hcd ELSE phyUp
       IN  /\ Complete(f, [CountRx(port) EXCEPT !.link_up = phyUp,
                                                !.autoneg_hcd = hcd,
                                                !.autoneg_enabled = TRUE])
           /\ linkUp' = (linkUp /\ ~KicksLink(phyUp))
  /\ UNCHANGED nic

\* fault: the setting is made before the VLAN ID is validated
SetVLANFilterEarly(f) ==
  /\ Accepted(f, "SetVLANFilter")
  /\ selected' = TRUE
  /\ LET p == [CountRx(port) EXCEPT !.vlan_enabled = f.enable]
     IN  IF f.enable /\ f.value = 0
           THEN Respond(f, p, "FAILED", "VLAN_TAG_INVALID")
           ELSE Respond(f, p, "COMPLETE", "NONE")
  /\ UNCHANGED <<nic, linkUp>>

\* VLAN ID 0 cannot be enabled; nothing is recorded otherwise.
SetVLANFilter(f) ==
  /\ Accepted(f, "SetVLANFilter")
  /\ selected' = TRUE
  /\ IF f.enable /\ f.value = 0
       THEN Respond(f, CountRx(port), "FAILED", "VLAN_TAG_INVALID")
       ELSE Respond(f, CountRx(port), "COMPLETE", "NONE")
  /\ UNCHANGED <<nic, linkUp>>

\* fault: the command toggles
EnableVLANToggles(f) ==
  /\ Accepted(f, "EnableVLAN")
  /\ Complete(f, [CountRx(port) EXCEPT !.vlan_enabled = ~@])
  /\ UNCHANGED <<nic, linkUp>>

EnableVLAN(f) ==
  /\ Accepted(f, "EnableVLAN")
  /\ Complete(f, [CountRx(port) EXCEPT !.vlan_enabled = (f.value # 0)])
  /\ UNCHANGED <<nic, linkUp>>

DisableVLAN(f) ==
  /\ Accepted(f, "DisableVLAN")
  /\ Complete(f, [CountRx(port) EXCEPT !.vlan_enabled = FALSE])
  /\ UNCHANGED <<nic, linkUp>>

\* MACNumber counts from 1; 0 is not refused and means the first slot too.
Slot(number) == IF number > 0 THEN number - 1 ELSE 0

\* external: Network_SetMACAddr().
ProgramNic(slot, f) ==
  [nic EXCEPT ![slot] = IF f.enable THEN f.mac ELSE None]

\* fault: the driver is given the 1-based number
SetMACAddressOneBased(f) ==
  /\ Accepted(f, "SetMACAddress")
  /\ nic' = IF f.number \in NicSlots THEN ProgramNic(f.number, f) ELSE nic
  /\ Complete(f, IF Slot(f.number) \in Slots
                   THEN [CountRx(port) EXCEPT !.mac_filters[Slot(f.number)] =
                           [enabled |-> f.enable, address_type |-> f.at, mac |-> f.mac]]
                   ELSE CountRx(port))
  /\ UNCHANGED linkUp

\* fault: a command for a slot beyond the tracked ones goes to the last of them
SetMACAddressClamped(f) ==
  /\ Accepted(f, "SetMACAddress")
  /\ LET slot == IF Slot(f.number) \in Slots THEN Slot(f.number) ELSE MaxFilters - 1
     IN  /\ nic' = ProgramNic(slot, f)
         /\ Complete(f, [CountRx(port) EXCEPT !.mac_filters[slot] =
                           [enabled |-> f.enable, address_type |-> f.at, mac |-> f.mac]])
  /\ UNCHANGED linkUp

\* The driver is called for every slot, the tracked copy has MaxFilters slots.
SetMACAddress(f) ==
  /\ Accepted(f, "SetMACAddress")
  /\ LET slot   == Slot(f.number)
         filter == [enabled |-> f.enable, address_type |-> f.at, mac |-> f.mac]
     IN  /\ nic' = ProgramNic(slot, f)
         /\ Complete(f, IF slot \in Slots
                          THEN [CountRx(port) EXCEPT !.mac_filters[slot] = filter]
                          ELSE CountRx(port))
  /\ UNCHANGED linkUp

EnableBroadcast(f) ==
  /\ Accepted(f, "EnableBroadcast")
  /\ Complete(f, [CountRx(port) EXCEPT !.broadcast_filter_settings = f.value])
  /\ UNCHANGED <<nic, linkUp>>

DisableBroadcast(f) ==
  /\ Accepted(f, "DisableBroadcast")
  /\ Complete(f, [CountRx(port) EXCEPT !.broadcast_filter_settings = 0])
  /\ UNCHANGED <<nic, linkUp>>

\* getVersionID() and getCapabilities(): fixed answers.
Identify(f) ==
  /\ Accepted(f, "GetVersionID") \/ Accepted(f, "GetCapabilities")
  /\ Complete(f, CountRx(port))
  /\ UNCHANGED <<nic, linkUp>>

\* unknownHandler(): counted as received, answered as unsupported.
UnknownHandler(f) ==
  /\ f.command \in Unimplemented
  /\ Accepted(f, f.command)
  /\ selected' = TRUE
  /\ Respond(f, CountRx(port), "UNSUPPORTED", "UNKNOWN_UNSUPPORTED")
  /\ UNCHANGED <<nic, linkUp>>

Dispatch(f) ==
  \/ Ignore(f)
  \/ RejectUnknown(f)
  \/ RejectLength(f)
  \/ RejectPackageWide(f)
  \/ RejectNotReady(f)

Execute(f) ==
  \/ ClearInitialState(f)
  \/ SelectPackage(f)
  \/ DeselectPackage(f)
  \/ EnableChannel(f)
  \/ DisableChannel(f)
  \/ ResetChannel(f)
  \/ EnableTX(f)
  \/ DisableTX(f)
  \/ AENEnable(f)
  \/ SetLink(f)
  \/ GetLinkStatus(f)
  \/ SetVLANFilter(f)
  \/ EnableVLAN(f)
  \/ DisableVLAN(f)
  \/ SetMACAddress(f)
  \/ EnableBroadcast(f)
  \/ DisableBroadcast(f)
  \/ Identify(f)
  \/ UnknownHandler(f)

handleNCSIFrame(f) == Dispatch(f) \/ Execute(f)

----------------------------------------------------------------------------
(* Events around the command engine *)

\* NCSI_reload(): restarts the statistics, and the PHY if it is told to.
Reload ==
  /\ port' = ClearStats(port)
  /\ \E reset_phy \in {"AS_NEEDED", "FORCE"} :
       linkUp' = IF reset_phy = "FORCE" THEN FALSE ELSE linkUp
  /\ UNCHANGED <<selected, nic, rx, tx>>

\* A restart: static storage is zero again, then
\* ncsi_init_and_register_ports() runs.  The NIC may have kept its filters.
Restart ==
  /\ selected' = FALSE /\ port' = PowerOn
  /\ nic' \in {nic, NoFilters}
  /\ linkUp' \in {linkUp, FALSE}
  /\ rx' = None /\ tx' = None

\* external: the cable, the link partner, autonegotiation.
LinkChange ==
  /\ linkUp' = ~linkUp
  /\ UNCHANGED <<selected, port, nic, rx, tx>>

Init ==
  /\ selected = FALSE /\ port = PowerOn
  /\ nic = NoFilters
  /\ linkUp \in BOOLEAN
  /\ rx = None /\ tx = None

Next ==
  \/ \E f \in Requests : handleNCSIFrame(f)
  \/ Reload
  \/ Restart
  \/ LinkChange

Spec == Init /\ [][Next]_vars

----------------------------------------------------------------------------
(* Properties *)

\* The type invariant: every field of ncsi_channel_state_t, every NIC slot and the
\* response stay in range.
TypeOK ==
  /\ selected \in BOOLEAN
  /\ port \in ChannelState
  /\ nic \in [NicSlots -> Macs \cup {None}]
  /\ linkUp \in BOOLEAN
  /\ rx \in Requests \cup {None}
  /\ tx \in Response \cup {None}

\* What the MC has configured; the statistics and the link cache are not.
Settings(p) ==
  <<p.enabled, p.tx_passthrough_en, p.vlan_enabled, p.aen_control,
    p.link_settings, p.broadcast_filter_settings, p.mac_filters>>

\* In the Initial State (before Clear Initial State, and again after Reset
\* Channel or a restart) no traffic passes and no filter is on: resetChannel()
\* must undo everything the handlers can switch on.
InitialStateClean ==
  ~port.ready =>
    /\ ~port.enabled /\ ~port.tx_passthrough_en /\ ~port.vlan_enabled
    /\ port.broadcast_filter_settings = 0
    /\ \A i \in Slots : ~port.mac_filters[i].enabled

\* An address filter the pass-through check believes in (mac_filters) is
\* programmed, with the same address, in the NIC: setMACAddressHandler() keeps
\* the two copies at the same index although MACNumber counts from 1.
FiltersProgrammed ==
  \A i \in Slots :
    port.mac_filters[i].enabled => nic[i] = port.mac_filters[i].mac

\* Every frame addressed to this chip gets one answer, which echoes the
\* addressing of that frame and not of an earlier one; any other frame gets
\* silence (ncsi.c handleNCSIFrame(), README "How package/channel addressing
\* works").
AnswerMatches ==
  rx # None =>
    IF rx.package = PackageId /\ rx.channel \in {ChannelPackage, ChannelId}
      THEN /\ tx # None
           /\ tx.package = rx.package /\ tx.channel = rx.channel
           /\ tx.command = rx.command /\ tx.instance = rx.instance
      ELSE tx = None

\* What the command in frame f asks for, of the channel in state p and the NIC's
\* slots n.  Set MAC Address asks for both copies of the filter; a slot beyond the
\* tracked ones has only the NIC's (CompletedFilterIsTracked).  The other commands
\* ask for nothing that is kept, but for Set VLAN Filter, which does and keeps
\* nothing (VLANFilterIsRecorded).
InForce(f, p, n) ==
  CASE f.command = "ClearInitialState" -> p.ready
    [] f.command = "EnableChannel"     -> p.ready /\ p.enabled
    [] f.command = "DisableChannel"    -> ~p.enabled
    [] f.command = "ResetChannel"      ->
         /\ ~p.ready /\ ~p.enabled /\ ~p.tx_passthrough_en /\ ~p.vlan_enabled
         /\ p.broadcast_filter_settings = 0
         /\ \A i \in Slots : ~p.mac_filters[i].enabled
    [] f.command = "EnableTX"          -> p.ready /\ p.tx_passthrough_en
    [] f.command = "DisableTX"         -> ~p.tx_passthrough_en
    [] f.command = "AENEnable"         -> p.aen_control = f.value
    [] f.command = "SetLink"           -> p.link_settings = f.value
    [] f.command = "EnableVLAN"        -> p.ready /\ p.vlan_enabled = (f.value # 0)
    [] f.command = "DisableVLAN"       -> ~p.vlan_enabled
    [] f.command = "EnableBroadcast"   -> p.broadcast_filter_settings = f.value
    [] f.command = "DisableBroadcast"  -> p.broadcast_filter_settings = 0
    [] f.command = "SetMACAddress"     ->
         /\ n[Slot(f.number)] = IF f.enable THEN f.mac ELSE None
         /\ Slot(f.number) \in Slots =>
              p.mac_filters[Slot(f.number)] =
                [enabled |-> f.enable, address_type |-> f.at, mac |-> f.mac]
    [] OTHER -> TRUE

\* A command that is answered COMMAND_COMPLETE has done what InForce lists for it:
\* the settings, the filter copies and the selection it asks for are in force when
\* the answer leaves, and stay so through reloads and link changes until the next
\* frame.  Set VLAN Filter and slots beyond the tracked ones are the exceptions,
\* with properties of their own below.
CompletedIsInForce ==
  tx # None /\ tx.code = "COMPLETE" =>
    /\ InForce(rx, port, nic)
    /\ rx.command = "SelectPackage" => selected
    /\ rx.command = "DeselectPackage" => ~selected

\* Before Clear Initial State no frame, however many arrive and whatever their
\* payload, leaves anything behind: not a setting, not an address filter in the
\* NIC.  (A restart is not a frame.)
InitialStateInert ==
  [][~port.ready /\ rx' # None =>
       Settings(port') = Settings(port) /\ nic' = nic]_vars

\* A command that is not answered COMMAND_COMPLETE is refused as a whole.
RefusedChangesNothing ==
  [][rx' # None /\ tx' # None /\ tx'.code # "COMPLETE" =>
       /\ Settings(port') = Settings(port)
       /\ port'.ready = port.ready
       /\ nic' = nic]_vars

\* The MC repeats a command when the response was lost.  Handling it a second
\* time changes no setting, and gives the same answer, Reset Channel apart:
\* that command itself puts the channel where it must be refused.
RetryIsIdempotent ==
  [][rx # None /\ rx' = rx =>
       /\ Settings(port') = Settings(port)
       /\ port'.ready = port.ready /\ selected' = selected /\ nic' = nic
       /\ rx.command # "ResetChannel" /\ tx # None =>
            tx'.code = tx.code /\ tx'.reason = tx.reason]_vars

\* Get Link Status answers from three cached fields; the speed (hcd) is written only
\* when the PHY could be read, the link flag twice, whether it could or not.  They
\* still agree after any mix of failed reads, resets and reloads: no answer gives a
\* speed for a link it calls down.
LinkReportAgrees ==
  /\ port.autoneg_hcd = port.link_up
  /\ port.link_up => port.autoneg_enabled

\* NCSI.h:63: INVALID_PARAM is "returned when a received parameter value is
\* outside of the acceptable values".  A Set MAC Address that completes has
\* therefore named a slot the responder has.
CompletedFilterIsTracked ==
  tx # None /\ tx.code = "COMPLETE" /\ rx.command = "SetMACAddress" =>
    Slot(rx.number) \in Slots

\* README.md:266: Set VLAN Filter is "tracked, not enforced -- value recorded".
\* Enabling the VLAN ID the preceding command disabled must then change the
\* state of the channel, statistics apart.
VLANFilterIsRecorded ==
  [][/\ rx # None /\ rx.command = "SetVLANFilter" /\ tx # None /\ tx.code = "COMPLETE"
     /\ rx' # None /\ rx' = [rx EXCEPT !.enable = TRUE] /\ ~rx.enable
     /\ tx' # None /\ tx'.code = "COMPLETE"
     => ClearStats(port') # ClearStats(port)]_vars

----------------------------------------------------------------------------
(* The contract this module implements *)

ServiceOn(s) ==
  CASE s = "rx"   -> port.enabled
    [] s = "tx"   -> port.tx_passthrough_en
    [] s = "vlan" -> port.vlan_enabled

Contract ==
  INSTANCE ChannelContract WITH
    Services  <- {"rx", "tx", "vlan"},
    Slots     <- Slots,
    Addresses <- (0..7) \X Macs,
    BroadcastSettings <- Words,
    Open      <- 0,
    Empty     <- None,
    phase     <- IF port.ready THEN "Ready" ELSE "Initial",
    services  <- {s \in {"rx", "tx", "vlan"} : ServiceOn(s)},
    broadcast <- port.broadcast_filter_settings,
    filters   <- [i \in Slots |->
                    LET flt == port.mac_filters[i]
                    IN  IF flt.enabled THEN <<flt.address_type, flt.mac>>
                                       ELSE None]

\* Each step of the responder is one step of the channel's contract, or
\* invisible to it: a command changes one setting, a reset all of them.
ImplementsContract == Contract!Spec
============================================================================
