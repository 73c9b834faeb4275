------------------------ MODULE NcsiResponder_proofs ------------------------
(***************************************************************************)
(* Theorems about NcsiResponder for every package and channel number,      *)
(* every number of filter slots, every address and every set of frames the *)
(* Management Controller may send.                                         *)
(***************************************************************************)
EXTENDS NcsiResponder, TLAPS

USE ResponderAssumption

\* A counter stays in its range when it wraps.
LEMMA IncType == ASSUME NEW stat \in Stat PROVE Inc(stat) \in Stat
BY DEF Inc, Stat

\* Counting a received frame is type-correct.
LEMMA CountRxType ==
  ASSUME NEW p \in ChannelState PROVE CountRx(p) \in ChannelState
<1> p.stat_ncsi_rx \in Stat
  BY DEF ChannelState
<1> QED
  BY IncType DEF CountRx, ChannelState

\* Answering a frame is type-correct and changes nothing but one counter.
LEMMA RespondType ==
  ASSUME NEW f \in Requests, NEW p \in ChannelState,
         NEW code \in {"COMPLETE", "FAILED", "UNSUPPORTED"},
         NEW reason \in {"NONE", "INITIALIZATION_REQUIRED", "INVALID_PARAM",
                         "INVALID_PAYLOAD_LENGTH", "VLAN_TAG_INVALID",
                         "UNKNOWN_UNSUPPORTED"},
         Respond(f, p, code, reason)
  PROVE  /\ port' \in ChannelState
         /\ tx' \in Response
         /\ rx' = f
         /\ \E n \in Stat : port' = [p EXCEPT !.stat_ncsi_tx = n]
<1>1. p.stat_ncsi_tx \in Stat
  BY DEF ChannelState
<1>2. \E n \in Stat : port' = [p EXCEPT !.stat_ncsi_tx = n]
  <2>1. p = [p EXCEPT !.stat_ncsi_tx = p.stat_ncsi_tx]
    BY DEF ChannelState
  <2> QED BY <1>1, <2>1, IncType DEF Respond
<1>3. port' \in ChannelState
  BY <1>2 DEF ChannelState
<1>4. f \in ControlFrame
  OBVIOUS
<1>5. tx' \in Response /\ rx' = f
  BY <1>4 DEF Respond, Response, ControlFrame
<1> QED BY <1>2, <1>3, <1>5

LEMMA CompleteType ==
  ASSUME NEW f \in Requests, NEW p \in ChannelState, Complete(f, p)
  PROVE  /\ selected' = TRUE
         /\ port' \in ChannelState
         /\ tx' \in Response
         /\ rx' = f
         /\ \E n \in Stat : port' = [p EXCEPT !.stat_ncsi_tx = n]
BY RespondType DEF Complete

LEMMA ResetStateType ==
  ASSUME NEW p \in ChannelState
  PROVE  ResetState(p) \in ChannelState /\ ClearStats(p) \in ChannelState
<1>1. 0 \in Stat
  BY DEF Stat
<1>2. \A q \in ChannelState : ClearStats(q) \in ChannelState
  BY <1>1 DEF ClearStats, ChannelState
<1> DEFINE off == [i \in Slots |-> [p.mac_filters[i] EXCEPT !.enabled = FALSE]]
<1>3. off \in [Slots -> Filter]
  BY DEF ChannelState, Filter
<1>4. [p EXCEPT !.ready = FALSE, !.enabled = FALSE, !.tx_passthrough_en = FALSE,
                !.vlan_enabled = FALSE, !.broadcast_filter_settings = 0,
                !.mac_filters = off] \in ChannelState
  <2> HIDE DEF off
  <2> QED BY <1>3 DEF ChannelState
<1> QED BY <1>2, <1>4 DEF ResetState

LEMMA PowerOnType == PowerOn \in ChannelState
<1>1. 0 \in Stat
  BY DEF Stat
<1>2. PowerOn.mac_filters \in [Slots -> Filter]
  BY DEF PowerOn, Filter
<1> QED BY <1>1, <1>2 DEF PowerOn, ChannelState

LEMMA SlotType ==
  ASSUME NEW n \in 0..MaxMacNumber PROVE Slot(n) \in NicSlots
BY DEF Slot, NicSlots

----------------------------------------------------------------------------
(* Type correctness *)

\* Every handler keeps the state in its types; the only arithmetic that could
\* leave them is the wrap of the counters and the index setMACAddressHandler()
\* derives from MACNumber.
LEMMA TypeStep == TypeOK /\ [Next]_vars => TypeOK'
<1> SUFFICES ASSUME TypeOK, [Next]_vars PROVE TypeOK'
  OBVIOUS
<1> USE DEF TypeOK
<1> DEFINE counted == CountRx(port)
<1>1. counted \in ChannelState
  BY CountRxType
<1> HIDE DEF counted
<1>2. ASSUME NEW f \in Requests, Dispatch(f) PROVE TypeOK'
  <2>1. CASE Ignore(f)
    BY <2>1 DEF Ignore
  <2>2. CASE RejectUnknown(f)
    BY <2>2, RespondType DEF RejectUnknown
  <2>3. CASE RejectLength(f)
    BY <2>3, RespondType DEF RejectLength
  <2>4. CASE RejectPackageWide(f)
    BY <2>4, RespondType DEF RejectPackageWide
  <2>5. CASE RejectNotReady(f)
    BY <2>5, RespondType DEF RejectNotReady
  <2> QED BY <1>2, <2>1, <2>2, <2>3, <2>4, <2>5 DEF Dispatch
<1>3. ASSUME NEW f \in Requests, Execute(f) PROVE TypeOK'
  <2>0. /\ f \in ControlFrame /\ f.value \in Words /\ f.mac \in Macs
        /\ f.at \in 0..7 /\ f.enable \in BOOLEAN /\ f.number \in 0..MaxMacNumber
    BY DEF ControlFrame
  <2>1. CASE ClearInitialState(f)
    <3>1. [counted EXCEPT !.ready = TRUE] \in ChannelState
      BY <1>1, <2>0 DEF ChannelState
    <3> QED BY <2>1, <3>1, CompleteType DEF ClearInitialState, counted
  <2>2. CASE SelectPackage(f)
    BY <1>1, <2>2, CompleteType DEF SelectPackage, counted
  <2>3. CASE EnableChannel(f)
    <3>1. [counted EXCEPT !.enabled = TRUE] \in ChannelState
      BY <1>1, <2>0 DEF ChannelState
    <3> QED BY <2>3, <3>1, CompleteType DEF EnableChannel, counted
  <2>4. CASE DisableChannel(f)
    <3>1. [counted EXCEPT !.enabled = FALSE] \in ChannelState
      BY <1>1, <2>0 DEF ChannelState
    <3> QED BY <2>4, <3>1, CompleteType DEF DisableChannel, counted
  <2>5. CASE EnableTX(f)
    <3>1. [counted EXCEPT !.tx_passthrough_en = TRUE] \in ChannelState
      BY <1>1, <2>0 DEF ChannelState
    <3> QED BY <2>5, <3>1, CompleteType DEF EnableTX, counted
  <2>6. CASE DisableTX(f)
    <3>1. [counted EXCEPT !.tx_passthrough_en = FALSE] \in ChannelState
      BY <1>1, <2>0 DEF ChannelState
    <3> QED BY <2>6, <3>1, CompleteType DEF DisableTX, counted
  <2>7. CASE AENEnable(f)
    <3>1. [counted EXCEPT !.aen_control = f.value] \in ChannelState
      BY <1>1, <2>0 DEF ChannelState
    <3> QED BY <2>7, <3>1, CompleteType DEF AENEnable, counted
  <2>8. CASE SetLink(f)
    <3>1. [counted EXCEPT !.link_settings = f.value] \in ChannelState
      BY <1>1, <2>0 DEF ChannelState
    <3> QED BY <2>8, <3>1, CompleteType DEF SetLink, counted
  <2>9. CASE EnableVLAN(f)
    <3>1. [counted EXCEPT !.vlan_enabled = (f.value # 0)] \in ChannelState
      BY <1>1, <2>0 DEF ChannelState
    <3> QED BY <2>9, <3>1, CompleteType DEF EnableVLAN, counted
  <2>10. CASE DisableVLAN(f)
    <3>1. [counted EXCEPT !.vlan_enabled = FALSE] \in ChannelState
      BY <1>1, <2>0 DEF ChannelState
    <3> QED BY <2>10, <3>1, CompleteType DEF DisableVLAN, counted
  <2>11. CASE EnableBroadcast(f)
    <3>1. [counted EXCEPT !.broadcast_filter_settings = f.value] \in ChannelState
      BY <1>1, <2>0 DEF ChannelState
    <3> QED BY <2>11, <3>1, CompleteType DEF EnableBroadcast, counted
  <2>12. CASE DisableBroadcast(f)
    <3>1. [counted EXCEPT !.broadcast_filter_settings = 0] \in ChannelState
      BY <1>1, <2>0 DEF ChannelState
    <3> QED BY <2>12, <3>1, CompleteType DEF DisableBroadcast, counted
  <2>13. CASE Identify(f)
    BY <1>1, <2>13, CompleteType DEF Identify, counted
  <2>14. CASE DeselectPackage(f)
    BY <1>1, <2>14, RespondType DEF DeselectPackage, counted
  <2>15. CASE UnknownHandler(f)
    BY <1>1, <2>15, RespondType DEF UnknownHandler, counted
  <2>16. CASE SetVLANFilter(f)
    BY <1>1, <2>16, RespondType DEF SetVLANFilter, counted
  <2>17. CASE ResetChannel(f)
    <3>1. ResetState(counted) \in ChannelState
      BY <1>1, ResetStateType
    <3> QED BY <2>17, <3>1, CompleteType DEF ResetChannel, counted
  <2>18. CASE GetLinkStatus(f)
    <3>1. PICK up \in BOOLEAN, hcd \in BOOLEAN :
            /\ Complete(f, [counted EXCEPT !.link_up = up, !.autoneg_hcd = hcd,
                                           !.autoneg_enabled = TRUE])
            /\ linkUp' = (linkUp /\ ~KicksLink(up))
            /\ UNCHANGED nic
      BY <2>18 DEF GetLinkStatus, ChannelState, counted
    <3>2. [counted EXCEPT !.link_up = up, !.autoneg_hcd = hcd,
                          !.autoneg_enabled = TRUE] \in ChannelState
      BY <1>1 DEF ChannelState
    <3> QED BY <3>1, <3>2, CompleteType
  <2>19. CASE SetMACAddress(f)
    <3> DEFINE slot   == Slot(f.number)
               filter == [enabled |-> f.enable, address_type |-> f.at, mac |-> f.mac]
               p == IF slot \in Slots
                      THEN [counted EXCEPT !.mac_filters[slot] = filter] ELSE counted
    <3>1. slot \in NicSlots
      BY <2>0, SlotType
    <3>2. filter \in Filter
      BY <2>0 DEF Filter
    <3>3. p \in ChannelState
      <4> HIDE DEF slot, filter
      <4> QED BY <1>1, <3>2 DEF ChannelState
    <3>4. nic' \in [NicSlots -> Macs \cup {None}]
      BY <2>0, <2>19, <3>1 DEF SetMACAddress, ProgramNic
    <3>5. Complete(f, p) /\ UNCHANGED linkUp
      BY <2>19 DEF SetMACAddress, counted
    <3> QED BY <3>3, <3>4, <3>5, CompleteType
  <2> QED BY <1>3, <2>1, <2>2, <2>3, <2>4, <2>5, <2>6, <2>7, <2>8, <2>9, <2>10,
             <2>11, <2>12, <2>13, <2>14, <2>15, <2>16, <2>17, <2>18, <2>19
          DEF Execute
<1>4. CASE Reload
  BY <1>4, ResetStateType DEF Reload
<1>5. CASE Restart
  <2>1. NoFilters \in [NicSlots -> Macs \cup {None}]
    BY DEF NoFilters
  <2> QED BY <1>5, <2>1, PowerOnType DEF Restart
<1>6. CASE LinkChange
  BY <1>6 DEF LinkChange
<1>7. CASE UNCHANGED vars
  BY <1>7 DEF vars
<1> QED BY <1>2, <1>3, <1>4, <1>5, <1>6, <1>7 DEF Next, handleNCSIFrame

\* The state of the channel, the frames and the answers keep their types for
\* every number of filter slots and every width of the counters.
THEOREM TypeCorrect == Spec => []TypeOK
<1>1. Init => TypeOK
  BY PowerOnType DEF Init, TypeOK, NoFilters
<1> QED BY <1>1, TypeStep, PTL DEF Spec

----------------------------------------------------------------------------
(* The responder implements the contract of a channel *)

\* A command that is neither a package command nor Clear Initial State reaches
\* its handler only on a channel that is ready.
LEMMA ChannelCommandReady ==
  ASSUME NEW f, NEW c \in Commands \ (PackageCommands \cup {"ClearInitialState"}),
         Accepted(f, c)
  PROVE  port.ready
BY DEF Accepted, AlwaysAccepted, ChannelReady, gNCSIHandlers

\* What the contract sees of the channel state is six of its fields.
LEMMA KeptView ==
  ASSUME port'.ready = port.ready, port'.enabled = port.enabled,
         port'.tx_passthrough_en = port.tx_passthrough_en,
         port'.vlan_enabled = port.vlan_enabled,
         port'.broadcast_filter_settings = port.broadcast_filter_settings,
         port'.mac_filters = port.mac_filters
  PROVE  UNCHANGED Contract!vars
BY DEF Contract!vars, ServiceOn

LEMMA ResetView ==
  ASSUME ~port'.ready, ~port'.enabled, ~port'.tx_passthrough_en,
         ~port'.vlan_enabled, port'.broadcast_filter_settings = 0,
         \A i \in Slots : ~port'.mac_filters[i].enabled
  PROVE  Contract!Reset
BY DEF Contract!Reset, Contract!AllOff, ServiceOn

LEMMA ServiceView ==
  ASSUME TypeOK, TypeOK', port.ready, port'.ready,
         port'.broadcast_filter_settings = port.broadcast_filter_settings,
         port'.mac_filters = port.mac_filters,
         \/ /\ port'.tx_passthrough_en = port.tx_passthrough_en
            /\ port'.vlan_enabled = port.vlan_enabled
         \/ /\ port'.enabled = port.enabled
            /\ port'.vlan_enabled = port.vlan_enabled
         \/ /\ port'.enabled = port.enabled
            /\ port'.tx_passthrough_en = port.tx_passthrough_en
  PROVE  Contract!Next
<1> DEFINE on == {s \in {"rx", "tx", "vlan"} : ServiceOn(s)}
<1>1. \E s \in {"rx", "tx", "vlan"} : on' \in {on \cup {s}, on \ {s}}
  <2>0. /\ ServiceOn("rx") = port.enabled /\ ServiceOn("rx")' = port'.enabled
        /\ ServiceOn("tx") = port.tx_passthrough_en
        /\ ServiceOn("tx")' = port'.tx_passthrough_en
        /\ ServiceOn("vlan") = port.vlan_enabled
        /\ ServiceOn("vlan")' = port'.vlan_enabled
    BY DEF ServiceOn
  <2>1. ASSUME NEW s \in {"rx", "tx", "vlan"},
               \A t \in {"rx", "tx", "vlan"} \ {s} : ServiceOn(t)' = ServiceOn(t)
        PROVE  on' \in {on \cup {s}, on \ {s}}
    <3>1. CASE ServiceOn(s)'
      <4>1. on' = on \cup {s}
        BY <2>1, <3>1
      <4> QED BY <4>1
    <3>2. CASE ~ServiceOn(s)'
      <4>1. on' = on \ {s}
        BY <2>1, <3>2
      <4> QED BY <4>1
    <3> QED BY <3>1, <3>2
  <2> HIDE DEF on
  <2> QED BY <2>0, <2>1
<1>2. \E s \in {"rx", "tx", "vlan"} : Contract!SetService(s)
  BY <1>1 DEF Contract!SetService
<1> QED BY <1>2 DEF Contract!Next

LEMMA BroadcastView ==
  ASSUME TypeOK', port.ready, port'.ready,
         port'.enabled = port.enabled,
         port'.tx_passthrough_en = port.tx_passthrough_en,
         port'.vlan_enabled = port.vlan_enabled,
         port'.mac_filters = port.mac_filters
  PROVE  Contract!Next
<1>1. port'.broadcast_filter_settings \in Words
  BY DEF TypeOK, ChannelState
<1>2. Contract!SetBroadcast(port'.broadcast_filter_settings)
  BY DEF Contract!SetBroadcast, ServiceOn
<1> QED BY <1>1, <1>2 DEF Contract!Next

LEMMA FilterView ==
  ASSUME TypeOK, port.ready, port'.ready,
         NEW slot \in Slots, NEW filter \in Filter,
         port'.enabled = port.enabled,
         port'.tx_passthrough_en = port.tx_passthrough_en,
         port'.vlan_enabled = port.vlan_enabled,
         port'.broadcast_filter_settings = port.broadcast_filter_settings,
         port'.mac_filters = [port.mac_filters EXCEPT ![slot] = filter]
  PROVE  Contract!Next
<1> DEFINE a == IF filter.enabled THEN <<filter.address_type, filter.mac>> ELSE None
<1>1. a \in (0..7) \X Macs \cup {None}
  BY DEF Filter
<1>2. port.mac_filters \in [Slots -> Filter]
  BY DEF TypeOK, ChannelState
<1>3. Contract!SetFilter(slot, a)
  BY <1>2 DEF Contract!SetFilter, ServiceOn
<1> QED BY <1>1, <1>3 DEF Contract!Next

\* One step of the responder is one step of the contract, or invisible to it.
LEMMA ContractStep == TypeOK /\ TypeOK' /\ [Next]_vars => [Contract!Next]_Contract!vars
<1> SUFFICES ASSUME TypeOK, TypeOK', [Next]_vars
             PROVE  Contract!Next \/ UNCHANGED Contract!vars
  OBVIOUS
<1> DEFINE counted == CountRx(port)
<1>1. /\ counted \in ChannelState
      /\ counted.ready = port.ready /\ counted.enabled = port.enabled
      /\ counted.tx_passthrough_en = port.tx_passthrough_en
      /\ counted.vlan_enabled = port.vlan_enabled
      /\ counted.broadcast_filter_settings = port.broadcast_filter_settings
      /\ counted.mac_filters = port.mac_filters
  <2>1. port \in ChannelState
    BY DEF TypeOK
  <2> QED BY <2>1, CountRxType DEF CountRx, ChannelState
<1>2. port \in ChannelState
  BY DEF TypeOK
<1> HIDE DEF counted
<1>3. ASSUME NEW f \in Requests, Dispatch(f) PROVE UNCHANGED Contract!vars
  <2>1. CASE Ignore(f)
    BY <2>1, KeptView DEF Ignore
  <2>2. ASSUME NEW code \in {"COMPLETE", "FAILED", "UNSUPPORTED"},
               NEW reason \in {"NONE", "INITIALIZATION_REQUIRED", "INVALID_PARAM",
                               "INVALID_PAYLOAD_LENGTH", "VLAN_TAG_INVALID",
                               "UNKNOWN_UNSUPPORTED"},
               Respond(f, port, code, reason)
        PROVE  UNCHANGED Contract!vars
    <3>1. PICK n \in Stat : port' = [port EXCEPT !.stat_ncsi_tx = n]
      BY <1>2, <2>2, RespondType
    <3> QED BY <1>2, <3>1, KeptView DEF ChannelState
  <2> QED BY <1>3, <2>1, <2>2
    DEF Dispatch, RejectUnknown, RejectLength, RejectPackageWide, RejectNotReady
<1>4. ASSUME NEW f \in Requests, Execute(f)
      PROVE  Contract!Next \/ UNCHANGED Contract!vars
  <2>0. /\ f \in ControlFrame /\ f.value \in Words /\ f.mac \in Macs
        /\ f.at \in 0..7 /\ f.enable \in BOOLEAN /\ f.number \in 0..MaxMacNumber
    BY DEF ControlFrame
  <2>1. CASE ClearInitialState(f)
    <3>1. [counted EXCEPT !.ready = TRUE] \in ChannelState
      BY <1>1 DEF ChannelState
    <3>2. PICK n \in Stat :
            port' = [[counted EXCEPT !.ready = TRUE] EXCEPT !.stat_ncsi_tx = n]
      BY <2>1, <3>1, CompleteType DEF ClearInitialState, counted
    <3>3. Contract!Clear
      BY <1>1, <3>2 DEF Contract!Clear, ServiceOn, ChannelState
    <3> QED BY <3>3 DEF Contract!Next
  <2>2. CASE SelectPackage(f)
    <3>1. PICK n \in Stat : port' = [counted EXCEPT !.stat_ncsi_tx = n]
      BY <1>1, <2>2, CompleteType DEF SelectPackage, counted
    <3> QED BY <1>1, <3>1, KeptView DEF ChannelState
  <2>3. CASE DeselectPackage(f)
    <3>1. PICK n \in Stat : port' = [counted EXCEPT !.stat_ncsi_tx = n]
      BY <1>1, <2>3, RespondType DEF DeselectPackage, counted
    <3> QED BY <1>1, <3>1, KeptView DEF ChannelState
  <2>4. CASE Identify(f)
    <3>1. PICK n \in Stat : port' = [counted EXCEPT !.stat_ncsi_tx = n]
      BY <1>1, <2>4, CompleteType DEF Identify, counted
    <3> QED BY <1>1, <3>1, KeptView DEF ChannelState
  <2>5. CASE UnknownHandler(f)
    <3>1. PICK n \in Stat : port' = [counted EXCEPT !.stat_ncsi_tx = n]
      BY <1>1, <2>5, RespondType DEF UnknownHandler, counted
    <3> QED BY <1>1, <3>1, KeptView DEF ChannelState
  <2>6. CASE SetVLANFilter(f)
    <3>1. PICK n \in Stat : port' = [counted EXCEPT !.stat_ncsi_tx = n]
      BY <1>1, <2>6, RespondType DEF SetVLANFilter, counted
    <3> QED BY <1>1, <3>1, KeptView DEF ChannelState
  <2>7. CASE AENEnable(f)
    <3>1. [counted EXCEPT !.aen_control = f.value] \in ChannelState
      BY <1>1, <2>0 DEF ChannelState
    <3>2. PICK n \in Stat :
            port' = [[counted EXCEPT !.aen_control = f.value] EXCEPT !.stat_ncsi_tx = n]
      BY <2>7, <3>1, CompleteType DEF AENEnable, counted
    <3> QED BY <1>1, <3>2, KeptView DEF ChannelState
  <2>8. CASE SetLink(f)
    <3>1. [counted EXCEPT !.link_settings = f.value] \in ChannelState
      BY <1>1, <2>0 DEF ChannelState
    <3>2. PICK n \in Stat :
            port' = [[counted EXCEPT !.link_settings = f.value] EXCEPT !.stat_ncsi_tx = n]
      BY <2>8, <3>1, CompleteType DEF SetLink, counted
    <3> QED BY <1>1, <3>2, KeptView DEF ChannelState
  <2>9. CASE GetLinkStatus(f)
    <3>1. PICK up \in BOOLEAN, hcd \in BOOLEAN :
            Complete(f, [counted EXCEPT !.link_up = up, !.autoneg_hcd = hcd,
                                        !.autoneg_enabled = TRUE])
      BY <1>2, <2>9 DEF GetLinkStatus, ChannelState, counted
    <3> DEFINE p == [counted EXCEPT !.link_up = up, !.autoneg_hcd = hcd,
                                    !.autoneg_enabled = TRUE]
    <3>2. p \in ChannelState
      BY <1>1 DEF ChannelState
    <3>3. PICK n \in Stat : port' = [p EXCEPT !.stat_ncsi_tx = n]
      BY <3>1, <3>2, CompleteType
    <3> QED BY <1>1, <3>3, KeptView DEF ChannelState
  <2>10. CASE EnableChannel(f)
    <3>1. [counted EXCEPT !.enabled = TRUE] \in ChannelState
      BY <1>1, <2>0 DEF ChannelState
    <3>2. PICK n \in Stat :
            port' = [[counted EXCEPT !.enabled = TRUE] EXCEPT !.stat_ncsi_tx = n]
      BY <2>10, <3>1, CompleteType DEF EnableChannel, counted
    <3>3. port.ready
      BY <2>10, ChannelCommandReady
      DEF EnableChannel, Commands, FourBytes, EightBytes, NoBytes, PackageCommands
    <3> QED BY <1>1, <3>2, <3>3, ServiceView DEF ChannelState
  <2>11. CASE DisableChannel(f)
    <3>1. [counted EXCEPT !.enabled = FALSE] \in ChannelState
      BY <1>1, <2>0 DEF ChannelState
    <3>2. PICK n \in Stat :
            port' = [[counted EXCEPT !.enabled = FALSE] EXCEPT !.stat_ncsi_tx = n]
      BY <2>11, <3>1, CompleteType DEF DisableChannel, counted
    <3>3. port.ready
      BY <2>11, ChannelCommandReady
      DEF DisableChannel, Commands, FourBytes, EightBytes, NoBytes, PackageCommands
    <3> QED BY <1>1, <3>2, <3>3, ServiceView DEF ChannelState
  <2>12. CASE EnableTX(f)
    <3>1. [counted EXCEPT !.tx_passthrough_en = TRUE] \in ChannelState
      BY <1>1, <2>0 DEF ChannelState
    <3>2. PICK n \in Stat :
            port' = [[counted EXCEPT !.tx_passthrough_en = TRUE] EXCEPT !.stat_ncsi_tx = n]
      BY <2>12, <3>1, CompleteType DEF EnableTX, counted
    <3>3. port.ready
      BY <2>12, ChannelCommandReady
      DEF EnableTX, Commands, FourBytes, EightBytes, NoBytes, PackageCommands
    <3> QED BY <1>1, <3>2, <3>3, ServiceView DEF ChannelState
  <2>13. CASE DisableTX(f)
    <3>1. [counted EXCEPT !.tx_passthrough_en = FALSE] \in ChannelState
      BY <1>1, <2>0 DEF ChannelState
    <3>2. PICK n \in Stat :
            port' = [[counted EXCEPT !.tx_passthrough_en = FALSE] EXCEPT !.stat_ncsi_tx = n]
      BY <2>13, <3>1, CompleteType DEF DisableTX, counted
    <3>3. port.ready
      BY <2>13, ChannelCommandReady
      DEF DisableTX, Commands, FourBytes, EightBytes, NoBytes, PackageCommands
    <3> QED BY <1>1, <3>2, <3>3, ServiceView DEF ChannelState
  <2>14. CASE EnableVLAN(f)
    <3>1. [counted EXCEPT !.vlan_enabled = (f.value # 0)] \in ChannelState
      BY <1>1, <2>0 DEF ChannelState
    <3>2. PICK n \in Stat :
            port' = [[counted EXCEPT !.vlan_enabled = (f.value # 0)] EXCEPT !.stat_ncsi_tx = n]
      BY <2>14, <3>1, CompleteType DEF EnableVLAN, counted
    <3>3. port.ready
      BY <2>14, ChannelCommandReady
      DEF EnableVLAN, Commands, FourBytes, EightBytes, NoBytes, PackageCommands
    <3> QED BY <1>1, <3>2, <3>3, ServiceView DEF ChannelState
  <2>15. CASE DisableVLAN(f)
    <3>1. [counted EXCEPT !.vlan_enabled = FALSE] \in ChannelState
      BY <1>1, <2>0 DEF ChannelState
    <3>2. PICK n \in Stat :
            port' = [[counted EXCEPT !.vlan_enabled = FALSE] EXCEPT !.stat_ncsi_tx = n]
      BY <2>15, <3>1, CompleteType DEF DisableVLAN, counted
    <3>3. port.ready
      BY <2>15, ChannelCommandReady
      DEF DisableVLAN, Commands, FourBytes, EightBytes, NoBytes, PackageCommands
    <3> QED BY <1>1, <3>2, <3>3, ServiceView DEF ChannelState
  <2>16. CASE EnableBroadcast(f)
    <3>1. [counted EXCEPT !.broadcast_filter_settings = f.value] \in ChannelState
      BY <1>1, <2>0 DEF ChannelState
    <3>2. PICK n \in Stat :
            port' = [[counted EXCEPT !.broadcast_filter_settings = f.value]
                       EXCEPT !.stat_ncsi_tx = n]
      BY <2>16, <3>1, CompleteType DEF EnableBroadcast, counted
    <3>3. port.ready
      BY <2>16, ChannelCommandReady
      DEF EnableBroadcast, Commands, FourBytes, EightBytes, NoBytes, PackageCommands
    <3> QED BY <1>1, <3>2, <3>3, BroadcastView DEF ChannelState
  <2>17. CASE DisableBroadcast(f)
    <3>1. [counted EXCEPT !.broadcast_filter_settings = 0] \in ChannelState
      BY <1>1, <2>0 DEF ChannelState
    <3>2. PICK n \in Stat :
            port' = [[counted EXCEPT !.broadcast_filter_settings = 0] EXCEPT !.stat_ncsi_tx = n]
      BY <2>17, <3>1, CompleteType DEF DisableBroadcast, counted
    <3>3. port.ready
      BY <2>17, ChannelCommandReady
      DEF DisableBroadcast, Commands, FourBytes, EightBytes, NoBytes, PackageCommands
    <3> QED BY <1>1, <3>2, <3>3, BroadcastView DEF ChannelState
  <2>18. CASE SetMACAddress(f)
    <3> DEFINE slot   == Slot(f.number)
               filter == [enabled |-> f.enable, address_type |-> f.at, mac |-> f.mac]
               p == IF slot \in Slots
                      THEN [counted EXCEPT !.mac_filters[slot] = filter] ELSE counted
    <3>1. filter \in Filter
      BY <2>0 DEF Filter
    <3>2. p \in ChannelState
      <4> HIDE DEF slot, filter
      <4> QED BY <1>1, <3>1 DEF ChannelState
    <3>3. PICK n \in Stat : port' = [p EXCEPT !.stat_ncsi_tx = n]
      BY <2>18, <3>2, CompleteType DEF SetMACAddress, counted
    <3>4. port.ready
      BY <2>18, ChannelCommandReady
      DEF SetMACAddress, Commands, FourBytes, EightBytes, NoBytes, PackageCommands
    <3> HIDE DEF slot, filter
    <3>5. CASE slot \in Slots
      BY <1>1, <3>1, <3>3, <3>4, <3>5, FilterView DEF ChannelState
    <3>6. CASE slot \notin Slots
      BY <1>1, <3>3, <3>6, KeptView DEF ChannelState
    <3> QED BY <3>5, <3>6
  <2>19. CASE ResetChannel(f)
    <3>1. ResetState(counted) \in ChannelState
      BY <1>1, ResetStateType
    <3>2. PICK n \in Stat : port' = [ResetState(counted) EXCEPT !.stat_ncsi_tx = n]
      BY <2>19, <3>1, CompleteType DEF ResetChannel, counted
    <3>3. Contract!Reset
      BY <1>1, <3>2, ResetView DEF ResetState, ClearStats, ChannelState, Filter
    <3> QED BY <3>3 DEF Contract!Next
  <2> QED BY <1>4, <2>1, <2>2, <2>3, <2>4, <2>5, <2>6, <2>7, <2>8, <2>9, <2>10,
             <2>11, <2>12, <2>13, <2>14, <2>15, <2>16, <2>17, <2>18, <2>19
          DEF Execute
<1>5. CASE Reload
  BY <1>2, <1>5, KeptView DEF Reload, ClearStats, ChannelState
<1>6. CASE Restart
  <2>1. Contract!Reset
    BY <1>6, ResetView DEF Restart, PowerOn
  <2> QED BY <2>1 DEF Contract!Next
<1>7. CASE LinkChange
  BY <1>7, KeptView DEF LinkChange
<1>8. CASE UNCHANGED vars
  BY <1>8, KeptView DEF vars
<1> QED BY <1>3, <1>4, <1>5, <1>6, <1>7, <1>8 DEF Next, handleNCSIFrame

LEMMA ContractInit == Init => Contract!Init
<1> SUFFICES ASSUME Init PROVE Contract!Init
  OBVIOUS
<1>1. /\ ~port.ready /\ ~port.enabled /\ ~port.tx_passthrough_en
      /\ ~port.vlan_enabled /\ port.broadcast_filter_settings = 0
      /\ \A i \in Slots : ~port.mac_filters[i].enabled
  BY DEF Init, PowerOn
<1>2. {s \in {"rx", "tx", "vlan"} : ServiceOn(s)} = {}
  BY <1>1 DEF ServiceOn
<1> QED BY <1>1, <1>2 DEF Contract!Init, Contract!AllOff

\* The responder does to its channel only what the contract allows: every
\* command puts one setting in force or takes one out, only on a ready channel,
\* and a reset takes all of them out together.
THEOREM Implements == Spec => ImplementsContract
BY ContractInit, TypeCorrect, ContractStep, PTL
DEF Spec, ImplementsContract, Contract!Spec

\* In the Initial State nothing is in force.
THEOREM InitialStateIsClean == Spec => []InitialStateClean
<1>1. Contract!Init => Contract!InitialMeansOff
  BY DEF Contract!Init, Contract!InitialMeansOff
<1>2. Contract!InitialMeansOff /\ [Contract!Next]_Contract!vars => Contract!InitialMeansOff'
  BY DEF Contract!InitialMeansOff, Contract!Next, Contract!Clear, Contract!SetService,
         Contract!SetBroadcast, Contract!SetFilter, Contract!Reset, Contract!AllOff,
         Contract!vars
<1>3. ASSUME TypeOK, Contract!InitialMeansOff PROVE InitialStateClean
  <2>1. SUFFICES ASSUME ~port.ready
        PROVE  /\ ~port.enabled /\ ~port.tx_passthrough_en /\ ~port.vlan_enabled
               /\ port.broadcast_filter_settings = 0
               /\ \A i \in Slots : ~port.mac_filters[i].enabled
    BY DEF InitialStateClean
  <2>2. /\ {s \in {"rx", "tx", "vlan"} : ServiceOn(s)} = {}
        /\ port.broadcast_filter_settings = 0
        /\ [i \in Slots |->
              LET flt == port.mac_filters[i]
              IN  IF flt.enabled THEN <<flt.address_type, flt.mac>> ELSE None]
            = [i \in Slots |-> None]
    BY <1>3, <2>1 DEF Contract!InitialMeansOff, Contract!AllOff
  <2>3. ~port.enabled /\ ~port.tx_passthrough_en /\ ~port.vlan_enabled
    BY <2>2 DEF ServiceOn
  <2>4. ASSUME NEW i \in Slots PROVE ~port.mac_filters[i].enabled
    <3>1. port.mac_filters[i] \in Filter
      BY <1>3 DEF TypeOK, ChannelState
    <3>2. <<port.mac_filters[i].address_type, port.mac_filters[i].mac>> # None
      BY <3>1 DEF Filter
    <3> QED BY <2>2, <3>2
  <2> QED BY <2>2, <2>3, <2>4
<1> QED BY <1>1, <1>2, <1>3, TypeCorrect, Implements, PTL
    DEF ImplementsContract, Contract!Spec

----------------------------------------------------------------------------
(* Address filters, and what frames leave behind *)

\* What a frame can do to the settings and to the NIC: nothing; or, on a ready
\* channel, change a setting other than the filters, switch every filter off,
\* or write one filter to the same slot of both copies.
LEMMA FrameEffect ==
  ASSUME TypeOK, NEW f \in Requests, handleNCSIFrame(f)
  PROVE  \/ Settings(port') = Settings(port) /\ nic' = nic
         \/ /\ port.ready /\ nic' = nic
            /\ port'.mac_filters = port.mac_filters
         \/ /\ port.ready /\ nic' = nic
            /\ \A i \in Slots : ~port'.mac_filters[i].enabled
         \/ /\ port.ready
            /\ \E slot \in NicSlots, filter \in Filter :
                 /\ nic' = [nic EXCEPT ![slot] =
                              IF filter.enabled THEN filter.mac ELSE None]
                 /\ port'.mac_filters =
                      IF slot \in Slots
                        THEN [port.mac_filters EXCEPT ![slot] = filter]
                        ELSE port.mac_filters
<1> DEFINE counted == CountRx(port)
<1>1. /\ counted \in ChannelState
      /\ counted.mac_filters = port.mac_filters
      /\ Settings(counted) = Settings(port)
  BY CountRxType DEF TypeOK, CountRx, ChannelState, Settings
<1>2. port \in ChannelState
  BY DEF TypeOK
<1> HIDE DEF counted
<1>3. ASSUME NEW p \in ChannelState, NEW code, NEW reason, Respond(f, p, code, reason)
      PROVE  port'.mac_filters = p.mac_filters /\ Settings(port') = Settings(p)
  BY <1>3 DEF Respond, ChannelState, Settings
<1>4. ASSUME Dispatch(f) PROVE Settings(port') = Settings(port) /\ nic' = nic
  BY <1>2, <1>3, <1>4
  DEF Dispatch, Ignore, RejectUnknown, RejectLength, RejectPackageWide, RejectNotReady
<1>5. CASE ClearInitialState(f)
  <2>1. [counted EXCEPT !.ready = TRUE] \in ChannelState
    BY <1>1 DEF ChannelState
  <2>2. Settings([counted EXCEPT !.ready = TRUE]) = Settings(counted)
    BY <1>1 DEF ChannelState, Settings
  <2> QED BY <1>1, <1>3, <1>5, <2>1, <2>2 DEF ClearInitialState, Complete, counted
<1>6. CASE \/ SelectPackage(f) \/ DeselectPackage(f) \/ SetVLANFilter(f)
           \/ Identify(f) \/ UnknownHandler(f)
  BY <1>1, <1>3, <1>6
  DEF SelectPackage, DeselectPackage, SetVLANFilter, Identify, UnknownHandler,
      Complete, counted
<1>7. CASE GetLinkStatus(f)
  <2>1. PICK up \in BOOLEAN, hcd \in BOOLEAN :
          Complete(f, [counted EXCEPT !.link_up = up, !.autoneg_hcd = hcd,
                                      !.autoneg_enabled = TRUE])
    BY <1>2, <1>7 DEF GetLinkStatus, ChannelState, counted
  <2> DEFINE p == [counted EXCEPT !.link_up = up, !.autoneg_hcd = hcd,
                                  !.autoneg_enabled = TRUE]
  <2>2. p \in ChannelState /\ Settings(p) = Settings(counted)
    BY <1>1 DEF ChannelState, Settings
  <2> HIDE DEF p
  <2>3. Settings(port') = Settings(p)
    BY <1>3, <2>1, <2>2 DEF Complete, p
  <2> QED BY <1>1, <1>7, <2>2, <2>3 DEF GetLinkStatus
<1>8. CASE \/ EnableChannel(f) \/ DisableChannel(f) \/ EnableTX(f) \/ DisableTX(f)
           \/ AENEnable(f) \/ SetLink(f) \/ EnableVLAN(f) \/ DisableVLAN(f)
           \/ EnableBroadcast(f) \/ DisableBroadcast(f)
  <2>1. port.ready
    BY <1>8, ChannelCommandReady
    DEF EnableChannel, DisableChannel, EnableTX, DisableTX, AENEnable, SetLink,
        EnableVLAN, DisableVLAN, EnableBroadcast, DisableBroadcast,
        Commands, FourBytes, EightBytes, NoBytes, PackageCommands
  <2>2. f.value \in Words
    BY DEF ControlFrame
  <2>3. \E p \in ChannelState : p.mac_filters = port.mac_filters /\ Complete(f, p)
    <3>1. CASE EnableChannel(f)
      <4>1. Complete(f, [counted EXCEPT !.enabled = TRUE])
        BY <3>1 DEF EnableChannel, counted
      <4> QED BY <1>1, <2>2, <4>1 DEF ChannelState
    <3>2. CASE DisableChannel(f)
      <4>1. Complete(f, [counted EXCEPT !.enabled = FALSE])
        BY <3>2 DEF DisableChannel, counted
      <4> QED BY <1>1, <2>2, <4>1 DEF ChannelState
    <3>3. CASE EnableTX(f)
      <4>1. Complete(f, [counted EXCEPT !.tx_passthrough_en = TRUE])
        BY <3>3 DEF EnableTX, counted
      <4> QED BY <1>1, <2>2, <4>1 DEF ChannelState
    <3>4. CASE DisableTX(f)
      <4>1. Complete(f, [counted EXCEPT !.tx_passthrough_en = FALSE])
        BY <3>4 DEF DisableTX, counted
      <4> QED BY <1>1, <2>2, <4>1 DEF ChannelState
    <3>5. CASE AENEnable(f)
      <4>1. Complete(f, [counted EXCEPT !.aen_control = f.value])
        BY <3>5 DEF AENEnable, counted
      <4> QED BY <1>1, <2>2, <4>1 DEF ChannelState
    <3>6. CASE SetLink(f)
      <4>1. Complete(f, [counted EXCEPT !.link_settings = f.value])
        BY <3>6 DEF SetLink, counted
      <4> QED BY <1>1, <2>2, <4>1 DEF ChannelState
    <3>7. CASE EnableVLAN(f)
      <4>1. Complete(f, [counted EXCEPT !.vlan_enabled = (f.value # 0)])
        BY <3>7 DEF EnableVLAN, counted
      <4> QED BY <1>1, <2>2, <4>1 DEF ChannelState
    <3>8. CASE DisableVLAN(f)
      <4>1. Complete(f, [counted EXCEPT !.vlan_enabled = FALSE])
        BY <3>8 DEF DisableVLAN, counted
      <4> QED BY <1>1, <2>2, <4>1 DEF ChannelState
    <3>9. CASE EnableBroadcast(f)
      <4>1. Complete(f, [counted EXCEPT !.broadcast_filter_settings = f.value])
        BY <3>9 DEF EnableBroadcast, counted
      <4> QED BY <1>1, <2>2, <4>1 DEF ChannelState
    <3>10. CASE DisableBroadcast(f)
      <4>1. Complete(f, [counted EXCEPT !.broadcast_filter_settings = 0])
        BY <3>10 DEF DisableBroadcast, counted
      <4> QED BY <1>1, <2>2, <4>1 DEF ChannelState
    <3> QED BY <1>8, <3>1, <3>2, <3>3, <3>4, <3>5, <3>6, <3>7, <3>8, <3>9, <3>10
  <2>4. port'.mac_filters = port.mac_filters
    BY <1>3, <2>3 DEF Complete
  <2>5. nic' = nic
    BY <1>8
    DEF EnableChannel, DisableChannel, EnableTX, DisableTX, AENEnable, SetLink,
        EnableVLAN, DisableVLAN, EnableBroadcast, DisableBroadcast
  <2> QED BY <2>1, <2>4, <2>5
<1>9. CASE ResetChannel(f)
  <2>1. port.ready
    BY <1>9, ChannelCommandReady
    DEF ResetChannel, Commands, FourBytes, EightBytes, NoBytes, PackageCommands
  <2>2. ResetState(counted) \in ChannelState
    BY <1>1, ResetStateType
  <2>3. \A i \in Slots : ~ResetState(counted).mac_filters[i].enabled
    BY <1>1 DEF ResetState, ClearStats, ChannelState, Filter
  <2>4. port'.mac_filters = ResetState(counted).mac_filters
    BY <1>3, <1>9, <2>2 DEF ResetChannel, Complete, counted
  <2> QED BY <1>9, <2>1, <2>3, <2>4 DEF ResetChannel
<1>10. CASE SetMACAddress(f)
  <2> DEFINE slot   == Slot(f.number)
             filter == [enabled |-> f.enable, address_type |-> f.at, mac |-> f.mac]
             p == IF slot \in Slots
                    THEN [counted EXCEPT !.mac_filters[slot] = filter] ELSE counted
  <2>1. port.ready
    BY <1>10, ChannelCommandReady
    DEF SetMACAddress, Commands, FourBytes, EightBytes, NoBytes, PackageCommands
  <2>2. filter \in Filter /\ slot \in NicSlots
    BY SlotType DEF ControlFrame, Filter
  <2>3. nic' = [nic EXCEPT ![slot] = IF filter.enabled THEN filter.mac ELSE None]
    BY <1>10 DEF SetMACAddress, ProgramNic
  <2>4. Complete(f, p)
    BY <1>10 DEF SetMACAddress, counted
  <2> HIDE DEF slot, filter
  <2>5. /\ p \in ChannelState
        /\ p.mac_filters = IF slot \in Slots
                             THEN [port.mac_filters EXCEPT ![slot] = filter]
                             ELSE port.mac_filters
    BY <1>1, <2>2 DEF ChannelState
  <2> HIDE DEF p
  <2>6. port'.mac_filters = p.mac_filters
    BY <1>3, <2>4, <2>5 DEF Complete
  <2> QED BY <2>1, <2>2, <2>3, <2>5, <2>6
<1> QED BY <1>4, <1>5, <1>6, <1>7, <1>8, <1>9, <1>10 DEF handleNCSIFrame, Execute

\* Nothing but a frame or a restart touches the filters and the NIC.
LEMMA OtherEffect ==
  ASSUME TypeOK, Reload \/ LinkChange \/ UNCHANGED vars
  PROVE  Settings(port') = Settings(port) /\ nic' = nic
BY DEF TypeOK, Reload, LinkChange, vars, ClearStats, ChannelState, Settings

\* An address filter the pass-through check believes in is programmed in the
\* NIC, for every number of slots and every MACNumber.
THEOREM FiltersAreProgrammed == Spec => []FiltersProgrammed
<1>1. Init => FiltersProgrammed
  BY DEF Init, PowerOn, FiltersProgrammed
<1>2. ASSUME TypeOK, FiltersProgrammed, [Next]_vars PROVE FiltersProgrammed'
  <2>1. CASE Settings(port') = Settings(port) /\ nic' = nic
    BY <1>2, <2>1 DEF FiltersProgrammed, Settings
  <2>2. ASSUME NEW f \in Requests, handleNCSIFrame(f) PROVE FiltersProgrammed'
    <3>1. /\ nic \in [NicSlots -> Macs \cup {None}]
          /\ port.mac_filters \in [Slots -> Filter]
          /\ Slots \subseteq NicSlots
      BY <1>2 DEF TypeOK, ChannelState, Slots, NicSlots
    <3>2. CASE \/ nic' = nic /\ port'.mac_filters = port.mac_filters
               \/ \A i \in Slots : ~port'.mac_filters[i].enabled
      BY <1>2, <3>2 DEF FiltersProgrammed
    <3>3. ASSUME NEW slot \in NicSlots, NEW filter \in Filter,
                 nic' = [nic EXCEPT ![slot] =
                           IF filter.enabled THEN filter.mac ELSE None],
                 port'.mac_filters =
                   IF slot \in Slots
                     THEN [port.mac_filters EXCEPT ![slot] = filter]
                     ELSE port.mac_filters,
                 NEW i \in Slots, port'.mac_filters[i].enabled
          PROVE  nic'[i] = port'.mac_filters[i].mac
      <4>1. CASE i = slot
        BY <3>1, <3>3, <4>1
      <4>2. CASE i # slot
        BY <1>2, <3>1, <3>3, <4>2 DEF FiltersProgrammed
      <4> QED BY <4>1, <4>2
    <3> QED BY <1>2, <2>1, <2>2, <3>2, <3>3, FrameEffect DEF FiltersProgrammed
  <2>3. CASE Restart
    BY <2>3 DEF Restart, PowerOn, FiltersProgrammed
  <2> QED BY <1>2, <2>1, <2>2, <2>3, OtherEffect DEF Next
<1> QED BY <1>1, <1>2, TypeCorrect, PTL DEF Spec

\* In the Initial State frames leave nothing behind.
THEOREM FramesAreInert == Spec => InitialStateInert
<1>1. ASSUME TypeOK, [Next]_vars, ~port.ready, rx' # None
      PROVE  Settings(port') = Settings(port) /\ nic' = nic
  <2>1. ~Restart
    BY <1>1 DEF Restart
  <2> QED BY <1>1, <2>1, FrameEffect, OtherEffect DEF Next
<1>2. TypeOK /\ [Next]_vars =>
        [~port.ready /\ rx' # None =>
           Settings(port') = Settings(port) /\ nic' = nic]_vars
  BY <1>1
<1> QED BY <1>2, TypeCorrect, PTL DEF Spec, InitialStateInert

----------------------------------------------------------------------------
(* Commands and answers *)

Completed == tx' # None /\ tx'.code = "COMPLETE"

\* The channel p that a frame answered COMMAND_COMPLETE leaves, by its command.
Obeys(f, p) ==
  LET c == f.command IN
  /\ p.ready = (c = "ClearInitialState" \/ (c # "ResetChannel" /\ port.ready))
  /\ p.enabled =
       (c = "EnableChannel" \/ (c \notin {"DisableChannel", "ResetChannel"} /\ port.enabled))
  /\ p.tx_passthrough_en =
       (c = "EnableTX" \/ (c \notin {"DisableTX", "ResetChannel"} /\ port.tx_passthrough_en))
  /\ p.vlan_enabled =
       IF c = "EnableVLAN" THEN f.value # 0
                           ELSE c \notin {"DisableVLAN", "ResetChannel"} /\ port.vlan_enabled
  /\ p.aen_control = IF c = "AENEnable" THEN f.value ELSE port.aen_control
  /\ p.link_settings = IF c = "SetLink" THEN f.value ELSE port.link_settings
  /\ p.broadcast_filter_settings =
       IF c = "EnableBroadcast" THEN f.value
       ELSE IF c \in {"DisableBroadcast", "ResetChannel"} THEN 0
       ELSE port.broadcast_filter_settings
  /\ \A i \in Slots :
       IF c = "ResetChannel" THEN ~p.mac_filters[i].enabled
       ELSE p.mac_filters[i] =
              IF c = "SetMACAddress" /\ i = Slot(f.number)
                THEN [enabled |-> f.enable, address_type |-> f.at, mac |-> f.mac]
                ELSE port.mac_filters[i]
  /\ p.stat_net_tx = IF c = "ResetChannel" THEN 0 ELSE port.stat_net_tx
  /\ p.stat_net_dropped = port.stat_net_dropped

\* What such a frame does.
Obeyed(f) ==
  /\ f.command \notin PackageCommands \cup {"ClearInitialState"} => port.ready
  /\ selected' = (f.command # "DeselectPackage")
  /\ Obeys(f, port')
  /\ nic' = IF f.command = "SetMACAddress" THEN ProgramNic(Slot(f.number), f) ELSE nic

\* What a frame that is not, does.
Refused ==
  /\ Settings(port') = Settings(port)
  /\ port'.ready = port.ready
  /\ nic' = nic
  /\ port'.stat_net_tx = port.stat_net_tx
  /\ port'.stat_net_dropped = port.stat_net_dropped

Echoes(f) ==
  /\ tx' # None
  /\ tx'.package = f.package /\ tx'.channel = f.channel
  /\ tx'.command = f.command /\ tx'.instance = f.instance

LEMMA RespondOutcome ==
  ASSUME NEW f \in Requests, NEW p \in ChannelState,
         NEW code \in {"COMPLETE", "FAILED", "UNSUPPORTED"},
         NEW reason \in {"NONE", "INITIALIZATION_REQUIRED", "INVALID_PARAM",
                         "INVALID_PAYLOAD_LENGTH", "VLAN_TAG_INVALID",
                         "UNKNOWN_UNSUPPORTED"},
         Respond(f, p, code, reason)
  PROVE  /\ rx' = f /\ Echoes(f)
         /\ Completed <=> code = "COMPLETE"
         /\ Settings(port') = Settings(p) /\ port'.ready = p.ready
         /\ port'.stat_net_tx = p.stat_net_tx
         /\ port'.stat_net_dropped = p.stat_net_dropped
<1>1. tx' # None
  BY RespondType
<1>2. rx' = f /\ Echoes(f) /\ tx'.code = code
  BY <1>1 DEF Respond, Echoes
<1>3. PICK n \in Stat : port' = [p EXCEPT !.stat_ncsi_tx = n]
  BY RespondType
<1> QED BY <1>1, <1>2, <1>3 DEF Completed, Settings, ChannelState

\* A frame for another package or channel is ignored; any other is answered,
\* by the refusal of the dispatcher, which changes nothing.
LEMMA DispatchOutcome ==
  ASSUME TypeOK, NEW f \in Requests, Dispatch(f)
  PROVE  /\ rx' = f /\ ~Completed /\ Refused
         /\ IF Addressed(f) THEN Echoes(f) ELSE tx' = None
<1>1. port \in ChannelState
  BY DEF TypeOK
<1>2. CASE Ignore(f)
  BY <1>2 DEF Ignore, Refused, Completed
<1>3. CASE RejectUnknown(f)
  BY <1>1, <1>3, RespondOutcome DEF RejectUnknown, Refused
<1>4. CASE RejectLength(f)
  BY <1>1, <1>4, RespondOutcome DEF RejectLength, Refused
<1>5. CASE RejectPackageWide(f)
  BY <1>1, <1>5, RespondOutcome DEF RejectPackageWide, Refused
<1>6. CASE RejectNotReady(f)
  BY <1>1, <1>6, RespondOutcome DEF RejectNotReady, Refused
<1> QED BY <1>2, <1>3, <1>4, <1>5, <1>6 DEF Dispatch

\* An answer COMMAND_COMPLETE leaves the channel as the handler made it, but for
\* the count of answers.
LEMMA CompleteOutcome ==
  ASSUME NEW f \in Requests, NEW p \in ChannelState,
         Respond(f, p, "COMPLETE", "NONE"), Obeys(f, p)
  PROVE  rx' = f /\ Echoes(f) /\ Completed /\ Obeys(f, port')
<1>1. PICK n \in Stat : port' = [p EXCEPT !.stat_ncsi_tx = n]
  BY RespondType
<1>2. /\ port'.ready = p.ready /\ port'.enabled = p.enabled
      /\ port'.tx_passthrough_en = p.tx_passthrough_en
      /\ port'.vlan_enabled = p.vlan_enabled
      /\ port'.aen_control = p.aen_control
      /\ port'.link_settings = p.link_settings
      /\ port'.broadcast_filter_settings = p.broadcast_filter_settings
      /\ port'.mac_filters = p.mac_filters
      /\ port'.stat_net_tx = p.stat_net_tx
      /\ port'.stat_net_dropped = p.stat_net_dropped
  BY <1>1 DEF ChannelState
<1>3. Obeys(f, port')
  BY <1>2 DEF Obeys
<1> QED BY <1>3, RespondOutcome

\* The handlers do what the answer says, and nothing else.
LEMMA ExecuteOutcome ==
  ASSUME TypeOK, NEW f \in Requests, Execute(f)
  PROVE  rx' = f /\ Echoes(f) /\ IF Completed THEN Obeyed(f) ELSE Refused
<1> DEFINE counted == CountRx(port)
<1>1. /\ counted \in ChannelState /\ port \in ChannelState
      /\ counted.ready = port.ready /\ counted.enabled = port.enabled
      /\ counted.tx_passthrough_en = port.tx_passthrough_en
      /\ counted.vlan_enabled = port.vlan_enabled
      /\ counted.aen_control = port.aen_control
      /\ counted.link_settings = port.link_settings
      /\ counted.broadcast_filter_settings = port.broadcast_filter_settings
      /\ counted.mac_filters = port.mac_filters
      /\ counted.stat_net_tx = port.stat_net_tx
      /\ counted.stat_net_dropped = port.stat_net_dropped
      /\ Settings(counted) = Settings(port)
  BY CountRxType DEF TypeOK, CountRx, ChannelState, Settings
<1>2. /\ f \in ControlFrame /\ f.value \in Words /\ f.mac \in Macs
      /\ f.at \in 0..7 /\ f.enable \in BOOLEAN /\ f.number \in 0..MaxMacNumber
  BY DEF ControlFrame
<1>3. ASSUME f.command \in Commands, Accepted(f, f.command),
             f.command \notin PackageCommands \cup {"ClearInitialState"}
      PROVE  port.ready
  BY <1>3, ChannelCommandReady
<1>4. ASSUME NEW p \in ChannelState, Complete(f, p), Obeys(f, p),
             f.command \in Commands, Accepted(f, f.command),
             f.command # "DeselectPackage",
             nic' = IF f.command = "SetMACAddress"
                      THEN ProgramNic(Slot(f.number), f) ELSE nic
      PROVE  rx' = f /\ Echoes(f) /\ Completed /\ Obeyed(f)
  BY <1>3, <1>4, CompleteOutcome DEF Complete, Obeyed
<1> HIDE DEF counted
<1>5. CASE ClearInitialState(f)
  <2> DEFINE p == [counted EXCEPT !.ready = TRUE]
  <2>1. /\ f.command = "ClearInitialState" /\ Accepted(f, f.command)
        /\ Complete(f, p) /\ nic' = nic
    BY <1>5 DEF ClearInitialState, Accepted, counted
  <2>2. p \in ChannelState /\ Obeys(f, p)
    BY <1>1, <1>2, <2>1 DEF Obeys, ChannelState
  <2> HIDE DEF p
  <2> QED BY <1>4, <2>1, <2>2 DEF Commands, FourBytes, EightBytes, NoBytes
<1>6. CASE EnableChannel(f)
  <2> DEFINE p == [counted EXCEPT !.enabled = TRUE]
  <2>1. f.command = "EnableChannel" /\ Accepted(f, f.command) /\ Complete(f, p) /\ nic' = nic
    BY <1>6 DEF EnableChannel, Accepted, counted
  <2>2. p \in ChannelState /\ Obeys(f, p)
    BY <1>1, <1>2, <2>1 DEF Obeys, ChannelState
  <2> HIDE DEF p
  <2> QED BY <1>4, <2>1, <2>2 DEF Commands, FourBytes, EightBytes, NoBytes
<1>7. CASE DisableChannel(f)
  <2> DEFINE p == [counted EXCEPT !.enabled = FALSE]
  <2>1. f.command = "DisableChannel" /\ Accepted(f, f.command) /\ Complete(f, p) /\ nic' = nic
    BY <1>7 DEF DisableChannel, Accepted, counted
  <2>2. p \in ChannelState /\ Obeys(f, p)
    BY <1>1, <1>2, <2>1 DEF Obeys, ChannelState
  <2> HIDE DEF p
  <2> QED BY <1>4, <2>1, <2>2 DEF Commands, FourBytes, EightBytes, NoBytes
<1>8. CASE EnableTX(f)
  <2> DEFINE p == [counted EXCEPT !.tx_passthrough_en = TRUE]
  <2>1. f.command = "EnableTX" /\ Accepted(f, f.command) /\ Complete(f, p) /\ nic' = nic
    BY <1>8 DEF EnableTX, Accepted, counted
  <2>2. p \in ChannelState /\ Obeys(f, p)
    BY <1>1, <1>2, <2>1 DEF Obeys, ChannelState
  <2> HIDE DEF p
  <2> QED BY <1>4, <2>1, <2>2 DEF Commands, FourBytes, EightBytes, NoBytes
<1>9. CASE DisableTX(f)
  <2> DEFINE p == [counted EXCEPT !.tx_passthrough_en = FALSE]
  <2>1. f.command = "DisableTX" /\ Accepted(f, f.command) /\ Complete(f, p) /\ nic' = nic
    BY <1>9 DEF DisableTX, Accepted, counted
  <2>2. p \in ChannelState /\ Obeys(f, p)
    BY <1>1, <1>2, <2>1 DEF Obeys, ChannelState
  <2> HIDE DEF p
  <2> QED BY <1>4, <2>1, <2>2 DEF Commands, FourBytes, EightBytes, NoBytes
<1>10. CASE AENEnable(f)
  <2> DEFINE p == [counted EXCEPT !.aen_control = f.value]
  <2>1. f.command = "AENEnable" /\ Accepted(f, f.command) /\ Complete(f, p) /\ nic' = nic
    BY <1>10 DEF AENEnable, Accepted, counted
  <2>2. p \in ChannelState /\ Obeys(f, p)
    BY <1>1, <1>2, <2>1 DEF Obeys, ChannelState
  <2> HIDE DEF p
  <2> QED BY <1>4, <2>1, <2>2 DEF Commands, FourBytes, EightBytes, NoBytes
<1>11. CASE SetLink(f)
  <2> DEFINE p == [counted EXCEPT !.link_settings = f.value]
  <2>1. f.command = "SetLink" /\ Accepted(f, f.command) /\ Complete(f, p) /\ nic' = nic
    BY <1>11 DEF SetLink, Accepted, counted
  <2>2. p \in ChannelState /\ Obeys(f, p)
    BY <1>1, <1>2, <2>1 DEF Obeys, ChannelState
  <2> HIDE DEF p
  <2> QED BY <1>4, <2>1, <2>2 DEF Commands, FourBytes, EightBytes, NoBytes
<1>12. CASE EnableVLAN(f)
  <2> DEFINE p == [counted EXCEPT !.vlan_enabled = (f.value # 0)]
  <2>1. f.command = "EnableVLAN" /\ Accepted(f, f.command) /\ Complete(f, p) /\ nic' = nic
    BY <1>12 DEF EnableVLAN, Accepted, counted
  <2>2. p \in ChannelState /\ Obeys(f, p)
    BY <1>1, <1>2, <2>1 DEF Obeys, ChannelState
  <2> HIDE DEF p
  <2> QED BY <1>4, <2>1, <2>2 DEF Commands, FourBytes, EightBytes, NoBytes
<1>13. CASE DisableVLAN(f)
  <2> DEFINE p == [counted EXCEPT !.vlan_enabled = FALSE]
  <2>1. f.command = "DisableVLAN" /\ Accepted(f, f.command) /\ Complete(f, p) /\ nic' = nic
    BY <1>13 DEF DisableVLAN, Accepted, counted
  <2>2. p \in ChannelState /\ Obeys(f, p)
    BY <1>1, <1>2, <2>1 DEF Obeys, ChannelState
  <2> HIDE DEF p
  <2> QED BY <1>4, <2>1, <2>2 DEF Commands, FourBytes, EightBytes, NoBytes
<1>14. CASE EnableBroadcast(f)
  <2> DEFINE p == [counted EXCEPT !.broadcast_filter_settings = f.value]
  <2>1. /\ f.command = "EnableBroadcast" /\ Accepted(f, f.command)
        /\ Complete(f, p) /\ nic' = nic
    BY <1>14 DEF EnableBroadcast, Accepted, counted
  <2>2. p \in ChannelState /\ Obeys(f, p)
    BY <1>1, <1>2, <2>1 DEF Obeys, ChannelState
  <2> HIDE DEF p
  <2> QED BY <1>4, <2>1, <2>2 DEF Commands, FourBytes, EightBytes, NoBytes
<1>15. CASE DisableBroadcast(f)
  <2> DEFINE p == [counted EXCEPT !.broadcast_filter_settings = 0]
  <2>1. /\ f.command = "DisableBroadcast" /\ Accepted(f, f.command)
        /\ Complete(f, p) /\ nic' = nic
    BY <1>15 DEF DisableBroadcast, Accepted, counted
  <2>2. p \in ChannelState /\ Obeys(f, p)
    BY <1>1, <1>2, <2>1 DEF Obeys, ChannelState
  <2> HIDE DEF p
  <2> QED BY <1>4, <2>1, <2>2 DEF Commands, FourBytes, EightBytes, NoBytes
<1>16. ASSUME f.command \in {"SelectPackage", "DeselectPackage", "GetVersionID",
                             "GetCapabilities", "SetVLANFilter"}
       PROVE  Obeys(f, counted)
  BY <1>1, <1>16 DEF Obeys, ChannelState
<1>17. CASE SelectPackage(f)
  BY <1>1, <1>4, <1>16, <1>17
  DEF SelectPackage, Accepted, counted, Commands, FourBytes, EightBytes, NoBytes
<1>18. CASE DeselectPackage(f)
  <2>1. /\ f.command = "DeselectPackage" /\ selected' = FALSE /\ nic' = nic
        /\ Respond(f, counted, "COMPLETE", "NONE")
    BY <1>18 DEF DeselectPackage, Accepted, counted
  <2> QED BY <1>1, <1>16, <2>1, CompleteOutcome DEF Obeyed, PackageCommands
<1>19. CASE Identify(f)
  BY <1>1, <1>4, <1>16, <1>19
  DEF Identify, Accepted, counted, Commands, FourBytes, EightBytes, NoBytes
<1>20. CASE UnknownHandler(f)
  <2>1. Respond(f, counted, "UNSUPPORTED", "UNKNOWN_UNSUPPORTED") /\ nic' = nic
    BY <1>20 DEF UnknownHandler, counted
  <2> QED BY <1>1, <2>1, RespondOutcome DEF Refused
<1>21. CASE SetVLANFilter(f)
  <2>1. /\ f.command = "SetVLANFilter" /\ Accepted(f, f.command) /\ nic' = nic
        /\ \/ Respond(f, counted, "FAILED", "VLAN_TAG_INVALID")
           \/ Complete(f, counted)
    BY <1>21 DEF SetVLANFilter, Accepted, Complete, counted
  <2>2. CASE Respond(f, counted, "FAILED", "VLAN_TAG_INVALID")
    BY <1>1, <2>1, <2>2, RespondOutcome DEF Refused
  <2>3. CASE Complete(f, counted)
    BY <1>1, <1>4, <1>16, <2>1, <2>3 DEF Commands, FourBytes, EightBytes, NoBytes
  <2> QED BY <2>1, <2>2, <2>3
<1>22. CASE ResetChannel(f)
  <2> DEFINE p == ResetState(counted)
  <2>1. /\ f.command = "ResetChannel" /\ Accepted(f, f.command)
        /\ Complete(f, p) /\ nic' = nic
    BY <1>22 DEF ResetChannel, Accepted, counted
  <2>2. p \in ChannelState
    BY <1>1, ResetStateType
  <2>3. /\ ~p.ready /\ ~p.enabled /\ ~p.tx_passthrough_en /\ ~p.vlan_enabled
        /\ p.aen_control = counted.aen_control /\ p.link_settings = counted.link_settings
        /\ p.broadcast_filter_settings = 0
        /\ \A i \in Slots : ~p.mac_filters[i].enabled
        /\ p.stat_net_tx = 0 /\ p.stat_net_dropped = counted.stat_net_dropped
    BY <1>1 DEF ResetState, ClearStats, ChannelState, Filter
  <2> HIDE DEF p
  <2>4. Obeys(f, p)
    BY <1>1, <2>1, <2>2, <2>3 DEF Obeys, ChannelState
  <2> QED BY <1>4, <2>1, <2>2, <2>4 DEF Commands, FourBytes, EightBytes, NoBytes
<1>23. CASE GetLinkStatus(f)
  <2>1. PICK up \in BOOLEAN, hcd \in BOOLEAN :
          Complete(f, [counted EXCEPT !.link_up = up, !.autoneg_hcd = hcd,
                                      !.autoneg_enabled = TRUE])
    BY <1>1, <1>23 DEF GetLinkStatus, ChannelState, counted
  <2> DEFINE p == [counted EXCEPT !.link_up = up, !.autoneg_hcd = hcd,
                                  !.autoneg_enabled = TRUE]
  <2>2. f.command = "GetLinkStatus" /\ Accepted(f, f.command) /\ nic' = nic
    BY <1>23 DEF GetLinkStatus, Accepted
  <2>3. p \in ChannelState /\ Obeys(f, p)
    BY <1>1, <2>2 DEF Obeys, ChannelState
  <2>4. Complete(f, p)
    BY <2>1
  <2> HIDE DEF p
  <2> QED BY <1>4, <2>2, <2>3, <2>4 DEF Commands, FourBytes, EightBytes, NoBytes
<1>24. CASE SetMACAddress(f)
  <2> DEFINE slot   == Slot(f.number)
             filter == [enabled |-> f.enable, address_type |-> f.at, mac |-> f.mac]
             p == IF slot \in Slots
                    THEN [counted EXCEPT !.mac_filters[slot] = filter] ELSE counted
  <2>1. filter \in Filter
    BY <1>2 DEF Filter
  <2>2. /\ f.command = "SetMACAddress" /\ Accepted(f, f.command)
        /\ Complete(f, p) /\ nic' = ProgramNic(slot, f)
    BY <1>24 DEF SetMACAddress, Accepted, counted
  <2>3. /\ p \in ChannelState
        /\ p.ready = port.ready /\ p.enabled = port.enabled
        /\ p.tx_passthrough_en = port.tx_passthrough_en
        /\ p.vlan_enabled = port.vlan_enabled
        /\ p.aen_control = port.aen_control /\ p.link_settings = port.link_settings
        /\ p.broadcast_filter_settings = port.broadcast_filter_settings
        /\ p.stat_net_tx = port.stat_net_tx
        /\ p.stat_net_dropped = port.stat_net_dropped
        /\ \A i \in Slots :
             p.mac_filters[i] = IF i = slot THEN filter ELSE port.mac_filters[i]
    <3> HIDE DEF slot, filter
    <3> QED BY <1>1, <2>1 DEF ChannelState
  <2> HIDE DEF p
  <2>4. Obeys(f, p)
    BY <1>1, <2>2, <2>3 DEF Obeys, ChannelState
  <2> QED BY <1>4, <2>2, <2>3, <2>4 DEF Commands, FourBytes, EightBytes, NoBytes
<1> QED
  BY <1>5, <1>6, <1>7, <1>8, <1>9, <1>10, <1>11, <1>12, <1>13, <1>14,
     <1>15, <1>17, <1>18, <1>19, <1>20, <1>21, <1>22, <1>23, <1>24
  DEF Execute

\* What handling a frame does, whichever way it goes.
LEMMA FrameOutcome ==
  ASSUME TypeOK, NEW f \in Requests, handleNCSIFrame(f)
  PROVE  /\ rx' = f
         /\ IF Addressed(f) THEN Echoes(f) ELSE tx' = None
         /\ IF Completed THEN Obeyed(f) ELSE Refused
<1>1. CASE Dispatch(f)
  BY <1>1, DispatchOutcome
<1>2. CASE Execute(f)
  <2>1. Addressed(f)
    BY <1>2
    DEF Execute, ClearInitialState, SelectPackage, DeselectPackage, EnableChannel,
        DisableChannel, ResetChannel, EnableTX, DisableTX, AENEnable, SetLink,
        GetLinkStatus, SetVLANFilter, EnableVLAN, DisableVLAN, SetMACAddress,
        EnableBroadcast, DisableBroadcast, Identify, UnknownHandler, Accepted
  <2> QED BY <1>2, <2>1, ExecuteOutcome
<1> QED BY <1>1, <1>2 DEF handleNCSIFrame

\* Every frame for this chip gets one answer, with that frame's addressing; any
\* other frame gets none.
THEOREM AnswersMatch == Spec => []AnswerMatches
<1>1. Init => AnswerMatches
  BY DEF Init, AnswerMatches
<1>2. ASSUME TypeOK, AnswerMatches, [Next]_vars PROVE AnswerMatches'
  <2>1. ASSUME NEW f \in Requests, handleNCSIFrame(f) PROVE AnswerMatches'
    BY <1>2, <2>1, FrameOutcome DEF AnswerMatches, Echoes, Addressed
  <2>2. CASE Reload \/ LinkChange \/ UNCHANGED vars
    BY <1>2, <2>2 DEF AnswerMatches, Reload, LinkChange, vars
  <2>3. CASE Restart
    BY <2>3 DEF Restart, AnswerMatches
  <2> QED BY <1>2, <2>1, <2>2, <2>3 DEF Next
<1> QED BY <1>1, <1>2, TypeCorrect, PTL DEF Spec

\* A completed command is in force when its answer leaves.
LEMMA CompletionForces ==
  ASSUME TypeOK, NEW f \in Requests, handleNCSIFrame(f), Completed
  PROVE  InForce(f, port', nic')
<1>1. Obeyed(f)
  BY FrameOutcome
<1>2. CASE f.command = "SetMACAddress"
  <2>1. Slot(f.number) \in NicSlots
    BY SlotType DEF ControlFrame
  <2>2. nic'[Slot(f.number)] = IF f.enable THEN f.mac ELSE None
    BY <1>1, <1>2, <2>1 DEF Obeyed, ProgramNic, TypeOK
  <2>3. Slot(f.number) \in Slots =>
          port'.mac_filters[Slot(f.number)] =
            [enabled |-> f.enable, address_type |-> f.at, mac |-> f.mac]
    BY <1>1, <1>2 DEF Obeyed, Obeys
  <2> QED BY <1>2, <2>2, <2>3 DEF InForce
<1>3. CASE f.command # "SetMACAddress"
  <2>1. Obeys(f, port')
    BY <1>1 DEF Obeyed
  <2>2. f.command \notin PackageCommands \cup {"ClearInitialState"} => port.ready
    BY <1>1 DEF Obeyed
  <2> QED BY <1>3, <2>1, <2>2 DEF Obeys, InForce, PackageCommands
<1> QED BY <1>2, <1>3

\* A command stays in force when it comes again, whether it is accepted then or not,
\* and through the refusal of another.
LEMMA RepeatKeeps ==
  ASSUME TypeOK, TypeOK', NEW f \in Requests, NEW g \in Requests,
         handleNCSIFrame(f), f = g \/ ~Completed, InForce(g, port, nic)
  PROVE  InForce(g, port', nic')
<1>1. CASE Completed
  BY <1>1, CompletionForces
<1>2. CASE ~Completed
  <2>1. /\ port'.ready = port.ready /\ nic' = nic
        /\ Settings(port') = Settings(port)
    BY <1>2, FrameOutcome DEF Refused
  <2>2. /\ port'.enabled = port.enabled /\ port'.tx_passthrough_en = port.tx_passthrough_en
        /\ port'.vlan_enabled = port.vlan_enabled /\ port'.aen_control = port.aen_control
        /\ port'.link_settings = port.link_settings
        /\ port'.broadcast_filter_settings = port.broadcast_filter_settings
        /\ port'.mac_filters = port.mac_filters
    BY <2>1 DEF Settings
  <2> QED BY <2>1, <2>2 DEF InForce
<1> QED BY <1>1, <1>2

\* What InForce lists for a command is in force once the command was answered
\* COMMAND_COMPLETE, for every frame, both copies of every filter, and through reloads
\* and link changes until the next frame.  InForce asks nothing of Set VLAN Filter,
\* which completes and records nothing, nor of a tracked copy for a slot beyond the
\* tracked ones.
THEOREM CompletedIsTrue == Spec => []CompletedIsInForce
<1>1. Init => CompletedIsInForce
  BY DEF Init, CompletedIsInForce
<1>2. ASSUME TypeOK, CompletedIsInForce, [Next]_vars PROVE CompletedIsInForce'
  <2>1. ASSUME NEW f \in Requests, handleNCSIFrame(f) PROVE CompletedIsInForce'
    <3>1. SUFFICES ASSUME Completed PROVE CompletedIsInForce'
      BY DEF Completed, CompletedIsInForce
    <3>2. rx' = f /\ Obeyed(f)
      BY <1>2, <2>1, <3>1, FrameOutcome
    <3>3. /\ f.command = "SelectPackage" => selected'
          /\ f.command = "DeselectPackage" => ~selected'
      BY <3>2 DEF Obeyed
    <3>4. InForce(f, port', nic')
      BY <1>2, <2>1, <3>1, CompletionForces
    <3> QED BY <3>2, <3>3, <3>4 DEF CompletedIsInForce
  <2>2. CASE Reload \/ LinkChange \/ UNCHANGED vars
    <3>1. /\ UNCHANGED <<selected, nic, rx, tx>>
          /\ port'.ready = port.ready /\ port'.enabled = port.enabled
          /\ port'.tx_passthrough_en = port.tx_passthrough_en
          /\ port'.vlan_enabled = port.vlan_enabled
          /\ port'.aen_control = port.aen_control
          /\ port'.link_settings = port.link_settings
          /\ port'.broadcast_filter_settings = port.broadcast_filter_settings
          /\ port'.mac_filters = port.mac_filters
      BY <1>2, <2>2 DEF TypeOK, Reload, LinkChange, vars, ClearStats, ChannelState
    <3> QED BY <1>2, <3>1 DEF CompletedIsInForce, InForce
  <2>3. CASE Restart
    BY <2>3 DEF Restart, CompletedIsInForce
  <2> QED BY <1>2, <2>1, <2>2, <2>3 DEF Next
<1> QED BY <1>1, <1>2, TypeCorrect, PTL DEF Spec

\* A command that is refused is refused as a whole.
THEOREM RefusedIsInert == Spec => RefusedChangesNothing
<1>1. ASSUME TypeOK, [Next]_vars, rx' # None, tx' # None, tx'.code # "COMPLETE"
      PROVE  Settings(port') = Settings(port) /\ port'.ready = port.ready /\ nic' = nic
  <2>1. ASSUME NEW f \in Requests, handleNCSIFrame(f)
        PROVE  Settings(port') = Settings(port) /\ port'.ready = port.ready /\ nic' = nic
    BY <1>1, <2>1, FrameOutcome DEF Completed, Refused
  <2>2. CASE Reload \/ LinkChange \/ UNCHANGED vars
    BY <1>1, <2>2, OtherEffect
    DEF TypeOK, Reload, LinkChange, vars, ClearStats, ChannelState
  <2>3. ~Restart
    BY <1>1 DEF Restart
  <2> QED BY <1>1, <2>1, <2>2, <2>3 DEF Next
<1>2. TypeOK /\ [Next]_vars =>
        [rx' # None /\ tx' # None /\ tx'.code # "COMPLETE" =>
           /\ Settings(port') = Settings(port)
           /\ port'.ready = port.ready
           /\ nic' = nic]_vars
  BY <1>1
<1> QED BY <1>2, TypeCorrect, PTL DEF Spec, RefusedChangesNothing

----------------------------------------------------------------------------
(* Repeated commands *)

\* The answer to a frame for this chip, by the frame and by whether the channel
\* is ready: nothing else in the state of the chip has a say in it.
Verdict(f, ready) ==
  IF ~HasHandler(f) THEN <<"UNSUPPORTED", "UNKNOWN_UNSUPPORTED">>
  ELSE IF ~LengthOk(f) THEN <<"FAILED", "INVALID_PAYLOAD_LENGTH">>
  ELSE IF ~AlwaysAccepted(f) /\ f.channel # ChannelId THEN <<"FAILED", "INVALID_PARAM">>
  ELSE IF ~AlwaysAccepted(f) /\ ~ready THEN <<"FAILED", "INITIALIZATION_REQUIRED">>
  ELSE IF f.command \in Unimplemented THEN <<"UNSUPPORTED", "UNKNOWN_UNSUPPORTED">>
  ELSE IF f.command = "SetVLANFilter" /\ f.enable /\ f.value = 0
         THEN <<"FAILED", "VLAN_TAG_INVALID">>
  ELSE <<"COMPLETE", "NONE">>

\* f gets as far as the selection of the package.
Reached(f) ==
  /\ HasHandler(f) /\ LengthOk(f)
  /\ AlwaysAccepted(f) \/ f.channel = ChannelId

\* What such a frame makes of gPackageState.selected.
SelectedBy(f, ready) ==
  ~(f.command = "DeselectPackage" /\ Verdict(f, ready)[1] = "COMPLETE")

LEMMA VerdictOutcome ==
  ASSUME NEW f \in Requests, handleNCSIFrame(f), Addressed(f)
  PROVE  /\ tx'.code = Verdict(f, port.ready)[1]
         /\ tx'.reason = Verdict(f, port.ready)[2]
         /\ Reached(f) => selected' = SelectedBy(f, port.ready)
         /\ ~Reached(f) => selected' = selected
<1>1. ASSUME NEW p, NEW code, NEW reason, Respond(f, p, code, reason)
      PROVE  tx'.code = code /\ tx'.reason = reason
  BY <1>1 DEF Respond
<1>2. CASE Dispatch(f)
  <2>1. ~Ignore(f)
    BY DEF Ignore
  <2>2. CASE RejectUnknown(f)
    BY <1>1, <2>2 DEF RejectUnknown, Verdict, Reached
  <2>3. CASE RejectLength(f)
    BY <1>1, <2>3 DEF RejectLength, Verdict, Reached
  <2>4. CASE RejectPackageWide(f)
    BY <1>1, <2>4 DEF RejectPackageWide, Verdict, Reached
  <2>5. CASE RejectNotReady(f)
    BY <1>1, <2>5 DEF RejectNotReady, Verdict, Reached, SelectedBy
  <2> QED BY <1>2, <2>1, <2>2, <2>3, <2>4, <2>5 DEF Dispatch
<1>3. ASSUME NEW c \in Commands, Accepted(f, c)
      PROVE  /\ f.command = c /\ HasHandler(f) /\ LengthOk(f) /\ Reached(f)
             /\ AlwaysAccepted(f) \/ (f.channel = ChannelId /\ port.ready)
  BY <1>3 DEF Accepted, HasHandler, ChannelReady, Reached
<1>4. ASSUME NEW c \in Commands \ (Unimplemented \cup {"SetVLANFilter", "DeselectPackage"}),
             Accepted(f, c), NEW p, Complete(f, p)
      PROVE  /\ tx'.code = Verdict(f, port.ready)[1]
             /\ tx'.reason = Verdict(f, port.ready)[2]
             /\ Reached(f) /\ selected' = SelectedBy(f, port.ready)
  BY <1>1, <1>3, <1>4 DEF Complete, Verdict, SelectedBy
<1>5. CASE Execute(f)
  <2> USE DEF Commands, FourBytes, EightBytes, NoBytes, Unimplemented
  <2>1. CASE ClearInitialState(f)
    BY <1>4, <2>1 DEF ClearInitialState
  <2>2. CASE SelectPackage(f)
    BY <1>4, <2>2 DEF SelectPackage
  <2>3. CASE EnableChannel(f)
    BY <1>4, <2>3 DEF EnableChannel
  <2>4. CASE DisableChannel(f)
    BY <1>4, <2>4 DEF DisableChannel
  <2>5. CASE ResetChannel(f)
    BY <1>4, <2>5 DEF ResetChannel
  <2>6. CASE EnableTX(f)
    BY <1>4, <2>6 DEF EnableTX
  <2>7. CASE DisableTX(f)
    BY <1>4, <2>7 DEF DisableTX
  <2>8. CASE AENEnable(f)
    BY <1>4, <2>8 DEF AENEnable
  <2>9. CASE SetLink(f)
    BY <1>4, <2>9 DEF SetLink
  <2>10. CASE GetLinkStatus(f)
    <3>1. PICK p : Complete(f, p)
      BY <2>10 DEF GetLinkStatus
    <3> QED BY <1>4, <2>10, <3>1 DEF GetLinkStatus
  <2>11. CASE EnableVLAN(f)
    BY <1>4, <2>11 DEF EnableVLAN
  <2>12. CASE DisableVLAN(f)
    BY <1>4, <2>12 DEF DisableVLAN
  <2>13. CASE SetMACAddress(f)
    <3>1. PICK p : Complete(f, p)
      BY <2>13 DEF SetMACAddress
    <3> QED BY <1>4, <2>13, <3>1 DEF SetMACAddress
  <2>14. CASE EnableBroadcast(f)
    BY <1>4, <2>14 DEF EnableBroadcast
  <2>15. CASE DisableBroadcast(f)
    BY <1>4, <2>15 DEF DisableBroadcast
  <2>16. CASE Identify(f)
    BY <1>4, <2>16 DEF Identify
  <2>17. CASE DeselectPackage(f)
    <3>1. Accepted(f, "DeselectPackage") /\ selected' = FALSE
      BY <2>17 DEF DeselectPackage
    <3>2. tx'.code = "COMPLETE" /\ tx'.reason = "NONE"
      BY <1>1, <2>17 DEF DeselectPackage
    <3>3. "DeselectPackage" \in Commands \ Unimplemented
      OBVIOUS
    <3> HIDE DEF Commands, Unimplemented
    <3> QED BY <1>3, <3>1, <3>2, <3>3 DEF Verdict, SelectedBy
  <2>18. CASE UnknownHandler(f)
    <3>1. Accepted(f, f.command) /\ f.command \in Unimplemented /\ selected' = TRUE
      BY <2>18 DEF UnknownHandler
    <3>2. tx'.code = "UNSUPPORTED" /\ tx'.reason = "UNKNOWN_UNSUPPORTED"
      BY <1>1, <2>18 DEF UnknownHandler
    <3> QED BY <1>3, <3>1, <3>2 DEF Verdict, SelectedBy
  <2>19. CASE SetVLANFilter(f)
    <3>1. Accepted(f, "SetVLANFilter") /\ selected' = TRUE
      BY <2>19 DEF SetVLANFilter
    <3>2. IF f.enable /\ f.value = 0
            THEN tx'.code = "FAILED" /\ tx'.reason = "VLAN_TAG_INVALID"
            ELSE tx'.code = "COMPLETE" /\ tx'.reason = "NONE"
      BY <1>1, <2>19 DEF SetVLANFilter
    <3>3. "SetVLANFilter" \in Commands \ Unimplemented
      OBVIOUS
    <3> HIDE DEF Commands, Unimplemented
    <3> QED BY <1>3, <3>1, <3>2, <3>3 DEF Verdict, SelectedBy
  <2> QED BY <1>5, <2>1, <2>2, <2>3, <2>4, <2>5, <2>6, <2>7, <2>8, <2>9, <2>10,
             <2>11, <2>12, <2>13, <2>14, <2>15, <2>16, <2>17, <2>18, <2>19
          DEF Execute
<1> QED BY <1>2, <1>5 DEF handleNCSIFrame

\* What is so after f was answered with t, and stays so until the next frame or
\* restart: handling f again would give the same answer, a Reset Channel would be
\* refused now, and the selection is the one f asks for.
SettledFor(f, t, p, sel) ==
  Addressed(f) =>
    /\ t # None
    /\ f.command # "ResetChannel" =>
         t.code = Verdict(f, p.ready)[1] /\ t.reason = Verdict(f, p.ready)[2]
    /\ f.command = "ResetChannel" => Verdict(f, p.ready)[1] # "COMPLETE"
    /\ Reached(f) => sel = SelectedBy(f, p.ready)

Settled == rx # None => SettledFor(rx, tx, port, selected)

\* Only Clear Initial State and Reset Channel change whether the channel is
\* ready; the first is accepted either way, the second is not.
LEMMA VerdictStays ==
  ASSUME TypeOK, NEW f \in Requests, handleNCSIFrame(f), Addressed(f)
  PROVE  /\ f.command # "ResetChannel" =>
              Verdict(f, port'.ready) = Verdict(f, port.ready)
         /\ f.command = "ResetChannel" => Verdict(f, port'.ready)[1] # "COMPLETE"
<1>1. tx' # None /\ (Completed <=> Verdict(f, port.ready)[1] = "COMPLETE")
  BY FrameOutcome, VerdictOutcome DEF Echoes, Completed
<1>2. CASE f.command = "ClearInitialState"
  <2>1. HasHandler(f) => AlwaysAccepted(f)
    BY <1>2 DEF HasHandler, AlwaysAccepted, gNCSIHandlers
  <2> QED BY <1>2, <2>1 DEF Verdict
<1>3. CASE f.command # "ClearInitialState" /\ f.command # "ResetChannel"
  <2>1. port'.ready = port.ready
    BY <1>3, FrameOutcome DEF Obeyed, Obeys, Refused, TypeOK, ChannelState
  <2> QED BY <1>3, <2>1
<1>4. CASE f.command = "ResetChannel"
  <2>1. CASE Completed
    <3>1. ~port'.ready
      BY <1>4, <2>1, FrameOutcome DEF Obeyed, Obeys
    <3>2. HasHandler(f) => ~AlwaysAccepted(f)
      BY <1>4 DEF HasHandler, AlwaysAccepted, gNCSIHandlers, PackageCommands
    <3> QED BY <1>4, <3>1, <3>2 DEF Verdict
  <2>2. CASE ~Completed
    <3>1. port'.ready = port.ready
      BY <2>2, FrameOutcome DEF Refused
    <3> QED BY <1>1, <1>4, <2>2, <3>1
  <2> QED BY <2>1, <2>2
<1> QED BY <1>2, <1>3, <1>4

LEMMA FrameSettles ==
  ASSUME TypeOK, NEW f \in Requests, handleNCSIFrame(f)
  PROVE  SettledFor(f, tx', port', selected')
<1> SUFFICES ASSUME Addressed(f) PROVE SettledFor(f, tx', port', selected')
  BY DEF SettledFor
<1>1. tx' # None
  BY FrameOutcome DEF Echoes
<1>2. f.command # "ResetChannel" =>
        /\ tx'.code = Verdict(f, port'.ready)[1]
        /\ tx'.reason = Verdict(f, port'.ready)[2]
  BY VerdictOutcome, VerdictStays
<1>3. Reached(f) => selected' = SelectedBy(f, port'.ready)
  BY VerdictOutcome, VerdictStays DEF SelectedBy
<1> QED BY <1>1, <1>2, <1>3, VerdictStays DEF SettledFor

LEMMA SettledInvariant == Spec => []Settled
<1>1. Init => Settled
  BY DEF Init, Settled
<1>2. ASSUME TypeOK, Settled, [Next]_vars PROVE Settled'
  <2>1. ASSUME NEW f \in Requests, handleNCSIFrame(f) PROVE Settled'
    <3>1. rx' = f
      BY <1>2, <2>1, FrameOutcome
    <3> QED BY <1>2, <2>1, <3>1, FrameSettles DEF Settled
  <2>2. CASE Reload \/ LinkChange \/ UNCHANGED vars
    <3>1. UNCHANGED <<selected, rx, tx>> /\ port'.ready = port.ready
      BY <1>2, <2>2 DEF TypeOK, Reload, LinkChange, vars, ClearStats, ChannelState
    <3> QED BY <1>2, <3>1 DEF Settled, SettledFor
  <2>3. CASE Restart
    BY <2>3 DEF Restart, Settled
  <2> QED BY <1>2, <2>1, <2>2, <2>3 DEF Next
<1> QED BY <1>1, <1>2, TypeCorrect, PTL DEF Spec

\* What a completed command asks for is already so when it comes again.
LEMMA RepeatIsIdle ==
  ASSUME TypeOK, TypeOK', Settled, CompletedIsInForce, rx \in Requests,
         handleNCSIFrame(rx), Addressed(rx), Completed
  PROVE  /\ Settings(port') = Settings(port)
         /\ port'.ready = port.ready /\ nic' = nic
<1>1. rx # None /\ SettledFor(rx, tx, port, selected)
  BY DEF Settled
<1>2. rx.command # "ResetChannel" /\ tx # None /\ tx.code = "COMPLETE"
  BY <1>1, FrameOutcome, VerdictOutcome DEF SettledFor, Completed
<1>3. Obeys(rx, port')
      /\ nic' = IF rx.command = "SetMACAddress" THEN ProgramNic(Slot(rx.number), rx) ELSE nic
  BY FrameOutcome DEF Obeyed
<1>4. /\ port'.ready = port.ready /\ port'.enabled = port.enabled
      /\ port'.tx_passthrough_en = port.tx_passthrough_en
      /\ port'.vlan_enabled = port.vlan_enabled
      /\ port'.aen_control = port.aen_control
      /\ port'.link_settings = port.link_settings
      /\ port'.broadcast_filter_settings = port.broadcast_filter_settings
  BY <1>2, <1>3 DEF Obeys, CompletedIsInForce, InForce, TypeOK, ChannelState
<1>5. port'.mac_filters = port.mac_filters
  <2>1. \A i \in Slots : port'.mac_filters[i] = port.mac_filters[i]
    BY <1>2, <1>3 DEF Obeys, CompletedIsInForce, InForce
  <2>2. port.mac_filters \in [Slots -> Filter] /\ port'.mac_filters \in [Slots -> Filter]
    BY DEF TypeOK, ChannelState
  <2> QED BY <2>1, <2>2
<1>6. nic' = nic
  <2>1. SUFFICES ASSUME rx.command = "SetMACAddress" PROVE nic' = nic
    BY <1>3
  <2>2. nic[Slot(rx.number)] = IF rx.enable THEN rx.mac ELSE None
    BY <1>2, <2>1 DEF CompletedIsInForce, InForce
  <2> QED BY <1>3, <2>1, <2>2 DEF ProgramNic, TypeOK
<1> QED BY <1>4, <1>5, <1>6 DEF Settings

\* A command that comes again, its answer having been lost, changes nothing and
\* gets the same answer, whatever happened to the link in between and however
\* often the statistics were restarted.
THEOREM RetriesAreIdempotent == Spec => RetryIsIdempotent
<1> DEFINE Same ==
      /\ Settings(port') = Settings(port)
      /\ port'.ready = port.ready /\ selected' = selected /\ nic' = nic
      /\ rx.command # "ResetChannel" /\ tx # None =>
           tx'.code = tx.code /\ tx'.reason = tx.reason
<1>1. ASSUME TypeOK, TypeOK', Settled, CompletedIsInForce, AnswerMatches,
             [Next]_vars, rx # None, rx' = rx
      PROVE  Same
  <2>1. CASE Reload \/ LinkChange \/ UNCHANGED vars
    <3>1. UNCHANGED <<selected, tx>> /\ port'.ready = port.ready
      BY <1>1, <2>1 DEF TypeOK, Reload, LinkChange, vars, ClearStats, ChannelState
    <3> QED BY <1>1, <2>1, <3>1, OtherEffect
  <2>2. ~Restart
    BY <1>1 DEF Restart
  <2>3. ASSUME NEW f \in Requests, handleNCSIFrame(f) PROVE Same
    <3>1. f = rx /\ rx \in Requests /\ handleNCSIFrame(rx)
      BY <1>1, <2>3, FrameOutcome
    <3>2. CASE ~Addressed(rx)
      <4>1. Ignore(rx)
        BY <3>1, <3>2
        DEF handleNCSIFrame, Dispatch, Execute, RejectUnknown, RejectLength,
            RejectPackageWide, RejectNotReady, ClearInitialState, SelectPackage,
            DeselectPackage, EnableChannel, DisableChannel, ResetChannel, EnableTX,
            DisableTX, AENEnable, SetLink, GetLinkStatus, SetVLANFilter, EnableVLAN,
            DisableVLAN, SetMACAddress, EnableBroadcast, DisableBroadcast, Identify,
            UnknownHandler, Accepted
      <4>2. tx = None
        BY <1>1, <3>2 DEF AnswerMatches, Addressed
      <4> QED BY <4>1, <4>2 DEF Ignore
    <3>3. CASE Addressed(rx)
      <4>1. SettledFor(rx, tx, port, selected)
        BY <1>1 DEF Settled
      <4>2. selected' = selected
        BY <3>1, <3>3, <4>1, VerdictOutcome DEF SettledFor
      <4>3. rx.command # "ResetChannel" => tx'.code = tx.code /\ tx'.reason = tx.reason
        BY <3>1, <3>3, <4>1, VerdictOutcome DEF SettledFor
      <4>4. CASE Completed
        BY <1>1, <3>1, <3>3, <4>2, <4>3, <4>4, RepeatIsIdle
      <4>5. CASE ~Completed
        BY <1>1, <3>1, <4>2, <4>3, <4>5, FrameOutcome DEF Refused
      <4> QED BY <4>4, <4>5
    <3> QED BY <3>2, <3>3
  <2> QED BY <1>1, <2>1, <2>2, <2>3 DEF Next
<1>2. TypeOK /\ TypeOK' /\ Settled /\ CompletedIsInForce /\ AnswerMatches /\ [Next]_vars
        => [rx # None /\ rx' = rx => Same]_vars
  BY <1>1
<1> QED BY <1>2, TypeCorrect, SettledInvariant, CompletedIsTrue, AnswersMatch, PTL
    DEF Spec, RetryIsIdempotent

----------------------------------------------------------------------------
(* The chip on the bus *)

\* What a chip does with a frame: it answers for itself or for the package, echoing
\* the channel it was asked for, or it does nothing.
LEMMA FrameAddressing ==
  ASSUME NEW f, handleNCSIFrame(f)
  PROVE  \/ f.channel \in {ChannelPackage, ChannelId} /\ tx'.channel = f.channel
         \/ tx' = None /\ UNCHANGED <<selected, port, nic>>
<1>1. ASSUME NEW p, NEW code, NEW reason, Respond(f, p, code, reason)
      PROVE  tx'.channel = f.channel
  BY <1>1 DEF Respond
<1>2. ASSUME NEW p, Complete(f, p)
      PROVE  tx'.channel = f.channel
  BY <1>1, <1>2 DEF Complete
<1>3. Addressed(f) => f.channel \in {ChannelPackage, ChannelId}
  BY DEF Addressed
<1>4. ASSUME NEW command, Accepted(f, command)
      PROVE  f.channel \in {ChannelPackage, ChannelId}
  BY <1>3, <1>4 DEF Accepted
<1>5. CASE Dispatch(f)
  <2>1. CASE Ignore(f)
    BY <2>1 DEF Ignore
  <2>2. CASE RejectUnknown(f)
    BY <1>1, <1>3, <2>2 DEF RejectUnknown
  <2>3. CASE RejectLength(f)
    BY <1>1, <1>3, <2>3 DEF RejectLength
  <2>4. CASE RejectPackageWide(f)
    BY <1>1, <1>3, <2>4 DEF RejectPackageWide
  <2>5. CASE RejectNotReady(f)
    BY <1>1, <1>3, <2>5 DEF RejectNotReady
  <2> QED BY <1>5, <2>1, <2>2, <2>3, <2>4, <2>5 DEF Dispatch
<1>6. CASE Execute(f)
  <2>1. CASE ClearInitialState(f)
    BY <1>2, <1>4, <2>1 DEF ClearInitialState
  <2>2. CASE SelectPackage(f)
    BY <1>2, <1>4, <2>2 DEF SelectPackage
  <2>3. CASE EnableChannel(f)
    BY <1>2, <1>4, <2>3 DEF EnableChannel
  <2>4. CASE DisableChannel(f)
    BY <1>2, <1>4, <2>4 DEF DisableChannel
  <2>5. CASE ResetChannel(f)
    BY <1>2, <1>4, <2>5 DEF ResetChannel
  <2>6. CASE EnableTX(f)
    BY <1>2, <1>4, <2>6 DEF EnableTX
  <2>7. CASE DisableTX(f)
    BY <1>2, <1>4, <2>7 DEF DisableTX
  <2>8. CASE AENEnable(f)
    BY <1>2, <1>4, <2>8 DEF AENEnable
  <2>9. CASE SetLink(f)
    BY <1>2, <1>4, <2>9 DEF SetLink
  <2>10. CASE EnableVLAN(f)
    BY <1>2, <1>4, <2>10 DEF EnableVLAN
  <2>11. CASE DisableVLAN(f)
    BY <1>2, <1>4, <2>11 DEF DisableVLAN
  <2>12. CASE SetMACAddress(f)
    BY <1>2, <1>4, <2>12 DEF SetMACAddress
  <2>13. CASE EnableBroadcast(f)
    BY <1>2, <1>4, <2>13 DEF EnableBroadcast
  <2>14. CASE DisableBroadcast(f)
    BY <1>2, <1>4, <2>14 DEF DisableBroadcast
  <2>15. CASE Identify(f)
    BY <1>2, <1>4, <2>15 DEF Identify
  <2>16. CASE DeselectPackage(f)
    BY <1>1, <1>4, <2>16 DEF DeselectPackage
  <2>17. CASE UnknownHandler(f)
    BY <1>1, <1>4, <2>17 DEF UnknownHandler
  <2>18. CASE SetVLANFilter(f)
    BY <1>1, <1>4, <2>18 DEF SetVLANFilter
  <2>19. CASE GetLinkStatus(f)
    <3>1. \E p : Complete(f, p)
      BY <2>19 DEF GetLinkStatus
    <3> QED BY <1>2, <1>4, <2>19, <3>1 DEF GetLinkStatus
  <2> QED
    BY <1>6, <2>1, <2>2, <2>3, <2>4, <2>5, <2>6, <2>7, <2>8, <2>9, <2>10,
       <2>11, <2>12, <2>13, <2>14, <2>15, <2>16, <2>17, <2>18, <2>19
    DEF Execute
<1> QED BY <1>5, <1>6 DEF handleNCSIFrame

----------------------------------------------------------------------------
(* The link report *)

ReportKept ==
  /\ port'.link_up = port.link_up /\ port'.autoneg_hcd = port.autoneg_hcd
  /\ port'.autoneg_enabled = port.autoneg_enabled

\* Every frame leaves the report alone, but for Get Link Status, which renews the
\* whole of it or falls back to the whole of it.
LEMMA FrameReport ==
  ASSUME TypeOK, NEW f \in Requests, handleNCSIFrame(f)
  PROVE  \/ ReportKept
         \/ /\ port'.autoneg_enabled
            /\ \/ port'.autoneg_hcd = port'.link_up
               \/ port'.link_up = port.link_up /\ port'.autoneg_hcd = port.autoneg_hcd
<1> DEFINE counted == CountRx(port)
<1>1. /\ counted \in ChannelState /\ port \in ChannelState
      /\ counted.link_up = port.link_up /\ counted.autoneg_hcd = port.autoneg_hcd
      /\ counted.autoneg_enabled = port.autoneg_enabled
  BY CountRxType DEF TypeOK, CountRx, ChannelState
<1> HIDE DEF counted
<1>2. ASSUME NEW p, NEW code, NEW reason, Respond(f, p, code, reason), p \in ChannelState
      PROVE  /\ port'.link_up = p.link_up /\ port'.autoneg_hcd = p.autoneg_hcd
             /\ port'.autoneg_enabled = p.autoneg_enabled
  BY <1>2 DEF Respond, ChannelState
<1>3. CASE Dispatch(f)
  BY <1>1, <1>2, <1>3
  DEF Dispatch, Ignore, RejectUnknown, RejectLength, RejectPackageWide, RejectNotReady,
      ReportKept
<1>4. f.value \in Words /\ f.enable \in BOOLEAN /\ f.at \in 0..7 /\ f.mac \in Macs
  BY DEF ControlFrame
<1>5. CASE ClearInitialState(f)
  <2> DEFINE p == [counted EXCEPT !.ready = TRUE]
  <2>1. Respond(f, p, "COMPLETE", "NONE")
    BY <1>5 DEF ClearInitialState, Complete, counted
  <2>2. /\ p \in ChannelState
        /\ p.link_up = counted.link_up /\ p.autoneg_hcd = counted.autoneg_hcd
        /\ p.autoneg_enabled = counted.autoneg_enabled
    BY <1>1 DEF ChannelState
  <2> HIDE DEF p
  <2> QED BY <1>1, <1>2, <2>1, <2>2 DEF ReportKept
<1>6. CASE SelectPackage(f)
  <2> DEFINE p == counted
  <2>1. Respond(f, p, "COMPLETE", "NONE")
    BY <1>6 DEF SelectPackage, Complete, counted
  <2>2. /\ p \in ChannelState
        /\ p.link_up = counted.link_up /\ p.autoneg_hcd = counted.autoneg_hcd
        /\ p.autoneg_enabled = counted.autoneg_enabled
    BY <1>1 DEF ChannelState
  <2> HIDE DEF p
  <2> QED BY <1>1, <1>2, <2>1, <2>2 DEF ReportKept
<1>7. CASE DeselectPackage(f)
  <2> DEFINE p == counted
  <2>1. Respond(f, p, "COMPLETE", "NONE")
    BY <1>7 DEF DeselectPackage, Complete, counted
  <2>2. /\ p \in ChannelState
        /\ p.link_up = counted.link_up /\ p.autoneg_hcd = counted.autoneg_hcd
        /\ p.autoneg_enabled = counted.autoneg_enabled
    BY <1>1 DEF ChannelState
  <2> HIDE DEF p
  <2> QED BY <1>1, <1>2, <2>1, <2>2 DEF ReportKept
<1>8. CASE EnableChannel(f)
  <2> DEFINE p == [counted EXCEPT !.enabled = TRUE]
  <2>1. Respond(f, p, "COMPLETE", "NONE")
    BY <1>8 DEF EnableChannel, Complete, counted
  <2>2. /\ p \in ChannelState
        /\ p.link_up = counted.link_up /\ p.autoneg_hcd = counted.autoneg_hcd
        /\ p.autoneg_enabled = counted.autoneg_enabled
    BY <1>1 DEF ChannelState
  <2> HIDE DEF p
  <2> QED BY <1>1, <1>2, <2>1, <2>2 DEF ReportKept
<1>9. CASE DisableChannel(f)
  <2> DEFINE p == [counted EXCEPT !.enabled = FALSE]
  <2>1. Respond(f, p, "COMPLETE", "NONE")
    BY <1>9 DEF DisableChannel, Complete, counted
  <2>2. /\ p \in ChannelState
        /\ p.link_up = counted.link_up /\ p.autoneg_hcd = counted.autoneg_hcd
        /\ p.autoneg_enabled = counted.autoneg_enabled
    BY <1>1 DEF ChannelState
  <2> HIDE DEF p
  <2> QED BY <1>1, <1>2, <2>1, <2>2 DEF ReportKept
<1>10. CASE EnableTX(f)
  <2> DEFINE p == [counted EXCEPT !.tx_passthrough_en = TRUE]
  <2>1. Respond(f, p, "COMPLETE", "NONE")
    BY <1>10 DEF EnableTX, Complete, counted
  <2>2. /\ p \in ChannelState
        /\ p.link_up = counted.link_up /\ p.autoneg_hcd = counted.autoneg_hcd
        /\ p.autoneg_enabled = counted.autoneg_enabled
    BY <1>1 DEF ChannelState
  <2> HIDE DEF p
  <2> QED BY <1>1, <1>2, <2>1, <2>2 DEF ReportKept
<1>11. CASE DisableTX(f)
  <2> DEFINE p == [counted EXCEPT !.tx_passthrough_en = FALSE]
  <2>1. Respond(f, p, "COMPLETE", "NONE")
    BY <1>11 DEF DisableTX, Complete, counted
  <2>2. /\ p \in ChannelState
        /\ p.link_up = counted.link_up /\ p.autoneg_hcd = counted.autoneg_hcd
        /\ p.autoneg_enabled = counted.autoneg_enabled
    BY <1>1 DEF ChannelState
  <2> HIDE DEF p
  <2> QED BY <1>1, <1>2, <2>1, <2>2 DEF ReportKept
<1>12. CASE AENEnable(f)
  <2> DEFINE p == [counted EXCEPT !.aen_control = f.value]
  <2>1. Respond(f, p, "COMPLETE", "NONE")
    BY <1>12 DEF AENEnable, Complete, counted
  <2>2. /\ p \in ChannelState
        /\ p.link_up = counted.link_up /\ p.autoneg_hcd = counted.autoneg_hcd
        /\ p.autoneg_enabled = counted.autoneg_enabled
    BY <1>1, <1>4 DEF ChannelState
  <2> HIDE DEF p
  <2> QED BY <1>1, <1>2, <2>1, <2>2 DEF ReportKept
<1>13. CASE SetLink(f)
  <2> DEFINE p == [counted EXCEPT !.link_settings = f.value]
  <2>1. Respond(f, p, "COMPLETE", "NONE")
    BY <1>13 DEF SetLink, Complete, counted
  <2>2. /\ p \in ChannelState
        /\ p.link_up = counted.link_up /\ p.autoneg_hcd = counted.autoneg_hcd
        /\ p.autoneg_enabled = counted.autoneg_enabled
    BY <1>1, <1>4 DEF ChannelState
  <2> HIDE DEF p
  <2> QED BY <1>1, <1>2, <2>1, <2>2 DEF ReportKept
<1>14. CASE EnableVLAN(f)
  <2> DEFINE p == [counted EXCEPT !.vlan_enabled = (f.value # 0)]
  <2>1. Respond(f, p, "COMPLETE", "NONE")
    BY <1>14 DEF EnableVLAN, Complete, counted
  <2>2. /\ p \in ChannelState
        /\ p.link_up = counted.link_up /\ p.autoneg_hcd = counted.autoneg_hcd
        /\ p.autoneg_enabled = counted.autoneg_enabled
    BY <1>1, <1>4 DEF ChannelState
  <2> HIDE DEF p
  <2> QED BY <1>1, <1>2, <2>1, <2>2 DEF ReportKept
<1>15. CASE DisableVLAN(f)
  <2> DEFINE p == [counted EXCEPT !.vlan_enabled = FALSE]
  <2>1. Respond(f, p, "COMPLETE", "NONE")
    BY <1>15 DEF DisableVLAN, Complete, counted
  <2>2. /\ p \in ChannelState
        /\ p.link_up = counted.link_up /\ p.autoneg_hcd = counted.autoneg_hcd
        /\ p.autoneg_enabled = counted.autoneg_enabled
    BY <1>1 DEF ChannelState
  <2> HIDE DEF p
  <2> QED BY <1>1, <1>2, <2>1, <2>2 DEF ReportKept
<1>16. CASE EnableBroadcast(f)
  <2> DEFINE p == [counted EXCEPT !.broadcast_filter_settings = f.value]
  <2>1. Respond(f, p, "COMPLETE", "NONE")
    BY <1>16 DEF EnableBroadcast, Complete, counted
  <2>2. /\ p \in ChannelState
        /\ p.link_up = counted.link_up /\ p.autoneg_hcd = counted.autoneg_hcd
        /\ p.autoneg_enabled = counted.autoneg_enabled
    BY <1>1, <1>4 DEF ChannelState
  <2> HIDE DEF p
  <2> QED BY <1>1, <1>2, <2>1, <2>2 DEF ReportKept
<1>17. CASE DisableBroadcast(f)
  <2> DEFINE p == [counted EXCEPT !.broadcast_filter_settings = 0]
  <2>1. Respond(f, p, "COMPLETE", "NONE")
    BY <1>17 DEF DisableBroadcast, Complete, counted
  <2>2. /\ p \in ChannelState
        /\ p.link_up = counted.link_up /\ p.autoneg_hcd = counted.autoneg_hcd
        /\ p.autoneg_enabled = counted.autoneg_enabled
    BY <1>1 DEF ChannelState
  <2> HIDE DEF p
  <2> QED BY <1>1, <1>2, <2>1, <2>2 DEF ReportKept
<1>18. CASE Identify(f)
  <2> DEFINE p == counted
  <2>1. Respond(f, p, "COMPLETE", "NONE")
    BY <1>18 DEF Identify, Complete, counted
  <2>2. /\ p \in ChannelState
        /\ p.link_up = counted.link_up /\ p.autoneg_hcd = counted.autoneg_hcd
        /\ p.autoneg_enabled = counted.autoneg_enabled
    BY <1>1 DEF ChannelState
  <2> HIDE DEF p
  <2> QED BY <1>1, <1>2, <2>1, <2>2 DEF ReportKept
<1>19. CASE UnknownHandler(f) \/ SetVLANFilter(f)
  <2>1. \E code, reason : Respond(f, counted, code, reason)
    BY <1>19 DEF UnknownHandler, SetVLANFilter, counted
  <2> QED BY <1>1, <1>2, <2>1 DEF ReportKept
<1>20. CASE ResetChannel(f)
  <2>1. Respond(f, ResetState(counted), "COMPLETE", "NONE")
    BY <1>20 DEF ResetChannel, Complete, counted
  <2>2. ResetState(counted) \in ChannelState
    BY <1>1, ResetStateType
  <2>3. /\ ResetState(counted).link_up = counted.link_up
        /\ ResetState(counted).autoneg_hcd = counted.autoneg_hcd
        /\ ResetState(counted).autoneg_enabled = counted.autoneg_enabled
    BY <1>1 DEF ResetState, ClearStats, ChannelState
  <2> QED BY <1>1, <1>2, <2>1, <2>2, <2>3 DEF ReportKept
<1>21. CASE SetMACAddress(f)
  <2> DEFINE filter == [enabled |-> f.enable, address_type |-> f.at, mac |-> f.mac]
             p == IF Slot(f.number) \in Slots
                    THEN [counted EXCEPT !.mac_filters[Slot(f.number)] = filter]
                    ELSE counted
  <2>1. Respond(f, p, "COMPLETE", "NONE")
    BY <1>21 DEF SetMACAddress, Complete, counted
  <2>2. filter \in Filter
    BY <1>4 DEF Filter
  <2> HIDE DEF filter
  <2>3. /\ p \in ChannelState
        /\ p.link_up = counted.link_up /\ p.autoneg_hcd = counted.autoneg_hcd
        /\ p.autoneg_enabled = counted.autoneg_enabled
    BY <1>1, <2>2 DEF ChannelState
  <2> HIDE DEF p
  <2> QED BY <1>1, <1>2, <2>1, <2>3 DEF ReportKept
<1>22. CASE GetLinkStatus(f)
  <2>1. PICK reg \in BmsrReads :
          LET phyUp == IF reg = "failed" THEN port.link_up ELSE reg = "up"
              hcd   == IF reg = "failed" THEN port.autoneg_hcd ELSE phyUp
          IN  Respond(f, [counted EXCEPT !.link_up = phyUp, !.autoneg_hcd = hcd,
                                         !.autoneg_enabled = TRUE], "COMPLETE", "NONE")
    BY <1>22 DEF GetLinkStatus, Complete, counted
  <2>2. ASSUME NEW up \in BOOLEAN, NEW hcd \in BOOLEAN
        PROVE  LET p == [counted EXCEPT !.link_up = up, !.autoneg_hcd = hcd,
                                        !.autoneg_enabled = TRUE]
               IN  /\ p \in ChannelState
                   /\ p.link_up = up /\ p.autoneg_hcd = hcd /\ p.autoneg_enabled = TRUE
    BY <1>1 DEF ChannelState
  <2>3. CASE reg = "failed"
    <3>1. port.link_up \in BOOLEAN /\ port.autoneg_hcd \in BOOLEAN
      BY <1>1 DEF ChannelState
    <3>2. port'.link_up = port.link_up /\ port'.autoneg_hcd = port.autoneg_hcd
          /\ port'.autoneg_enabled = TRUE
      BY <1>2, <2>1, <2>2, <2>3, <3>1
    <3> QED BY <3>2
  <2>4. CASE reg # "failed"
    <3>1. (reg = "up") \in BOOLEAN
      OBVIOUS
    <3>2. port'.link_up = (reg = "up") /\ port'.autoneg_hcd = (reg = "up")
          /\ port'.autoneg_enabled = TRUE
      BY <1>2, <2>1, <2>2, <2>4, <3>1
    <3> QED BY <3>2
  <2> QED BY <2>3, <2>4
<1> QED BY <1>3, <1>5, <1>6, <1>7, <1>8, <1>9, <1>10, <1>11, <1>12, <1>13, <1>14, <1>15,
           <1>16, <1>17, <1>18, <1>19, <1>20, <1>21, <1>22
    DEF handleNCSIFrame, Execute

\* What Get Link Status reports is consistent, whatever the PHY reads return, in
\* whatever order resets, reloads and restarts come.
THEOREM LinkReportIsConsistent == Spec => []LinkReportAgrees
<1>1. Init => LinkReportAgrees
  BY DEF Init, PowerOn, LinkReportAgrees
<1>2. ASSUME TypeOK, LinkReportAgrees, [Next]_vars PROVE LinkReportAgrees'
  <2>1. ASSUME NEW f \in Requests, handleNCSIFrame(f) PROVE LinkReportAgrees'
    BY <1>2, <2>1, FrameReport DEF ReportKept, LinkReportAgrees
  <2>2. CASE Reload \/ LinkChange \/ UNCHANGED vars
    <3>1. ReportKept
      BY <1>2, <2>2
      DEF TypeOK, Reload, LinkChange, vars, ClearStats, ChannelState, ReportKept
    <3> QED BY <1>2, <3>1 DEF ReportKept, LinkReportAgrees
  <2>3. CASE Restart
    BY <2>3 DEF Restart, PowerOn, LinkReportAgrees
  <2> QED BY <1>2, <2>1, <2>2, <2>3 DEF Next
<1> QED BY <1>1, <1>2, TypeCorrect, PTL DEF Spec
=============================================================================
