----------------------- MODULE NcsiPassthrough_proofs -----------------------
(***************************************************************************)
(* Theorems about NcsiPassthrough for every number of filter slots, every  *)
(* address and every sequence of control and pass-through frames.          *)
(***************************************************************************)
EXTENDS NcsiPassthrough, NcsiResponder_proofs

USE ResponderAssumption

\* The strengthening: what the MC was told agrees with the gates themselves, and
\* no gate is open in the Initial State.
GatesAgree ==
  /\ granted.tx = port.tx_passthrough_en
  /\ granted.rx = port.enabled
  /\ port.tx_passthrough_en \/ port.enabled => port.ready
  /\ \A i \in Slots :
       LET filter == port.mac_filters[i]
       IN  granted.unicast[i] =
             IF filter.enabled /\ filter.address_type = 0 THEN filter.mac ELSE None

PassInv ==
  /\ TypeOK /\ PassTypeOK /\ GatesAgree
  /\ OnlyGrantedPasses /\ GrantedReachesDriver /\ CountersHonest

----------------------------------------------------------------------------

\* A slot of the filters is a slot of the NIC.
LEMMA SlotsInNic == Slots \subseteq NicSlots
BY DEF Slots, NicSlots

LEMMA NothingGrantedType ==
  /\ NothingGranted \in [tx : BOOLEAN, rx : BOOLEAN, unicast : [NicSlots -> Macs \cup {None}]]
  /\ ~NothingGranted.tx /\ ~NothingGranted.rx
  /\ \A i \in Slots : NothingGranted.unicast[i] = None
BY SlotsInNic DEF NothingGranted

\* A search that finds a filter found one that the MC was told is in force.
LEMMA SearchIsHonest ==
  ASSUME TypeOK, GatesAgree, NEW source \in Macs
  PROVE  SourceMatches(source) <=> \E i \in Slots : granted.unicast[i] = source
<1>1. \A i \in Slots :
        port.mac_filters[i].enabled \in BOOLEAN /\ port.mac_filters[i].mac \in Macs
  BY DEF TypeOK, ChannelState, Filter
<1> QED BY <1>1 DEF SourceMatches, GatesAgree

\* A command changes the gates and what the MC is told of them together.
LEMMA CommandStep ==
  ASSUME PassInv, NEW f \in Requests, ControlFrameReceived(f)
  PROVE  PassInv'
<1>1. TypeOK'
  BY TypeStep DEF PassInv, ControlFrameReceived, Next
<1>2. last' = None
  BY DEF ControlFrameReceived
<1>3. OnlyGrantedPasses' /\ GrantedReachesDriver'
  BY <1>2 DEF OnlyGrantedPasses, GrantedReachesDriver
<1>4. CASE ~Completed
  <2>1. /\ granted' = granted /\ counts' = counts
        /\ Refused
    BY <1>4, FrameOutcome DEF ControlFrameReceived, Completes, Completed, PassInv
  <2>2. /\ port'.tx_passthrough_en = port.tx_passthrough_en
        /\ port'.enabled = port.enabled /\ port'.ready = port.ready
        /\ port'.mac_filters = port.mac_filters
        /\ port'.stat_net_tx = port.stat_net_tx
        /\ port'.stat_net_dropped = port.stat_net_dropped
    BY <2>1 DEF Refused, Settings
  <2>3. GatesAgree' /\ CountersHonest' /\ PassTypeOK'
    BY <1>2, <2>1, <2>2 DEF PassInv, GatesAgree, CountersHonest, PassTypeOK
  <2> QED BY <1>1, <1>3, <2>3 DEF PassInv
<1>5. CASE Completed
  <2>1. /\ granted' = Grant(f)
        /\ counts' = IF f.command = "ResetChannel" THEN [counts EXCEPT !.sent = 0] ELSE counts
        /\ Obeyed(f)
    BY <1>5, FrameOutcome DEF ControlFrameReceived, Completes, Completed, PassInv
  <2>2. Slot(f.number) \in NicSlots /\ f.mac \in Macs /\ f.enable \in BOOLEAN
    BY SlotType DEF ControlFrame
  <2>3. granted \in [tx : BOOLEAN, rx : BOOLEAN, unicast : [NicSlots -> Macs \cup {None}]]
    BY DEF PassInv, PassTypeOK
  <2>4. CountersHonest'
    <3>1. counts \in [sent : Stat, dropped : Stat]
      BY DEF PassInv, PassTypeOK
    <3> QED BY <2>1, <3>1 DEF PassInv, CountersHonest, Obeyed, Obeys
  <2>5. granted' \in [tx : BOOLEAN, rx : BOOLEAN, unicast : [NicSlots -> Macs \cup {None}]]
    BY <2>1, <2>2, <2>3, NothingGrantedType DEF Grant
  <2>6. PassTypeOK'
    <3>1. counts' \in [sent : Stat, dropped : Stat]
      BY <2>1 DEF PassInv, PassTypeOK, Stat
    <3> QED BY <1>2, <2>5, <3>1 DEF PassTypeOK
  <2>7. /\ granted'.tx = port'.tx_passthrough_en
        /\ granted'.rx = port'.enabled
        /\ port'.tx_passthrough_en \/ port'.enabled => port'.ready
    <3>1. /\ port'.ready =
               (f.command = "ClearInitialState" \/ (f.command # "ResetChannel" /\ port.ready))
          /\ port'.enabled =
               (f.command = "EnableChannel" \/
                  (f.command \notin {"DisableChannel", "ResetChannel"} /\ port.enabled))
          /\ port'.tx_passthrough_en =
               (f.command = "EnableTX" \/
                  (f.command \notin {"DisableTX", "ResetChannel"} /\ port.tx_passthrough_en))
          /\ f.command \in {"EnableChannel", "EnableTX"} => port.ready
      BY <2>1 DEF Obeyed, Obeys, PackageCommands
    <3>2. /\ granted'.tx =
               (f.command = "EnableTX" \/
                  (f.command \notin {"DisableTX", "ResetChannel"} /\ granted.tx))
          /\ granted'.rx =
               (f.command = "EnableChannel" \/
                  (f.command \notin {"DisableChannel", "ResetChannel"} /\ granted.rx))
      BY <2>1, <2>3, NothingGrantedType DEF Grant
    <3> QED BY <3>1, <3>2 DEF PassInv, GatesAgree, TypeOK, ChannelState
  <2>8. ASSUME NEW i \in Slots
        PROVE  granted'.unicast[i] =
                 IF port'.mac_filters[i].enabled /\ port'.mac_filters[i].address_type = 0
                   THEN port'.mac_filters[i].mac ELSE None
    <3>1. i \in NicSlots
      BY SlotsInNic
    <3>2. IF f.command = "ResetChannel" THEN ~port'.mac_filters[i].enabled
          ELSE port'.mac_filters[i] =
                 IF f.command = "SetMACAddress" /\ i = Slot(f.number)
                   THEN [enabled |-> f.enable, address_type |-> f.at, mac |-> f.mac]
                   ELSE port.mac_filters[i]
      BY <2>1 DEF Obeyed, Obeys
    <3>3. CASE f.command = "ResetChannel"
      <4>1. granted' = NothingGranted
        BY <2>1, <3>3 DEF Grant
      <4> QED BY <3>2, <3>3, <4>1, NothingGrantedType
    <3>4. CASE f.command = "SetMACAddress"
      <4>1. granted' = [granted EXCEPT !.unicast[Slot(f.number)] =
                          IF f.enable /\ f.at = 0 THEN f.mac ELSE None]
        BY <2>1, <3>4 DEF Grant
      <4>2. granted'.unicast =
              [granted.unicast EXCEPT ![Slot(f.number)] =
                 IF f.enable /\ f.at = 0 THEN f.mac ELSE None]
        BY <2>3, <4>1
      <4>3. granted'.unicast[i] =
              IF i = Slot(f.number) THEN (IF f.enable /\ f.at = 0 THEN f.mac ELSE None)
                                    ELSE granted.unicast[i]
        BY <2>3, <3>1, <4>2
      <4> QED BY <3>2, <3>4, <4>3 DEF PassInv, GatesAgree
    <3>5. CASE f.command \notin {"ResetChannel", "SetMACAddress"}
      <4>1. granted'.unicast = granted.unicast
        BY <2>1, <2>3, <3>5 DEF Grant
      <4> QED BY <3>2, <3>5, <4>1 DEF PassInv, GatesAgree
    <3> QED BY <3>3, <3>4, <3>5
  <2> QED BY <1>1, <1>3, <2>4, <2>6, <2>7, <2>8 DEF PassInv, GatesAgree
<1> QED BY <1>4, <1>5

\* A pass-through frame leaves every gate alone.
LEMMA GatesKept ==
  ASSUME PassInv, granted' = granted, TypeOK',
         port'.ready = port.ready, port'.enabled = port.enabled,
         port'.tx_passthrough_en = port.tx_passthrough_en,
         port'.mac_filters = port.mac_filters
  PROVE  GatesAgree'
BY DEF PassInv, GatesAgree

LEMMA ForwardStep ==
  ASSUME PassInv, NEW source \in Macs, Forward(source), port.tx_passthrough_en,
         SourceMatches(source)
  PROVE  PassInv'
<1>1. PICK ok \in BOOLEAN :
        /\ last' = [to |-> "toNetwork", source |-> source,
                    result |-> IF ok THEN "passed" ELSE "lost"]
        /\ port' = IF ok THEN [port EXCEPT !.stat_net_tx = Inc(@)] ELSE port
        /\ counts' = [counts EXCEPT !.sent = IF ok THEN Inc(@) ELSE @]
        /\ UNCHANGED <<selected, nic, linkUp, rx, tx, granted>>
  BY DEF Forward
<1>2. port \in ChannelState /\ counts \in [sent : Stat, dropped : Stat]
  BY DEF PassInv, TypeOK, PassTypeOK
<1>3. port.stat_net_tx \in Stat /\ Inc(port.stat_net_tx) \in Stat
  BY <1>2, IncType DEF ChannelState
<1>4. /\ port'.ready = port.ready /\ port'.enabled = port.enabled
      /\ port'.tx_passthrough_en = port.tx_passthrough_en
      /\ port'.mac_filters = port.mac_filters
      /\ port'.stat_net_dropped = port.stat_net_dropped
      /\ port'.stat_net_tx = IF ok THEN Inc(port.stat_net_tx) ELSE port.stat_net_tx
      /\ port' \in ChannelState
  BY <1>1, <1>2, <1>3 DEF ChannelState
<1>5. TypeOK'
  BY <1>1, <1>4 DEF PassInv, TypeOK
<1>6. GatesAgree'
  BY <1>1, <1>4, <1>5, GatesKept
<1>7. CountersHonest' /\ PassTypeOK'
  BY <1>1, <1>2, <1>3, <1>4
  DEF PassInv, CountersHonest, PassTypeOK, Fate, Directions
<1>8. granted'.tx /\ port'.ready /\ \E i \in Slots : granted'.unicast[i] = source
  BY <1>1, <1>4, SearchIsHonest DEF PassInv, GatesAgree
<1>9. OnlyGrantedPasses' /\ GrantedReachesDriver'
  BY <1>1, <1>8 DEF OnlyGrantedPasses, GrantedReachesDriver
<1> QED BY <1>5, <1>6, <1>7, <1>9 DEF PassInv

LEMMA DropStep ==
  ASSUME PassInv, NEW source \in Macs, Drop(source),
         ~(port.tx_passthrough_en /\ SourceMatches(source))
  PROVE  PassInv'
<1>1. /\ last' = [to |-> "toNetwork", source |-> source, result |-> "refused"]
      /\ UNCHANGED <<selected, port, nic, linkUp, rx, tx, granted, counts>>
  BY DEF Drop, vars
<1>2. TypeOK' /\ GatesAgree' /\ CountersHonest'
  BY <1>1 DEF PassInv, TypeOK, GatesAgree, CountersHonest
<1>3. PassTypeOK'
  BY <1>1 DEF PassInv, PassTypeOK, Fate, Directions
<1>4. ~granted.tx \/ \A i \in Slots : granted.unicast[i] # source
  BY SearchIsHonest DEF PassInv, GatesAgree
<1>5. OnlyGrantedPasses' /\ GrantedReachesDriver'
  BY <1>1, <1>4 DEF OnlyGrantedPasses, GrantedReachesDriver
<1> QED BY <1>2, <1>3, <1>5 DEF PassInv

LEMMA NetworkStep ==
  ASSUME PassInv, NCSI_handlePassthrough
  PROVE  PassInv'
<1>1. PICK ok \in BOOLEAN :
        /\ last' = [to |-> "toMC", source |-> None,
                    result |-> IF ok THEN "passed" ELSE "lost"]
        /\ port' = IF ok THEN port ELSE [port EXCEPT !.stat_net_dropped = Inc(@)]
        /\ counts' = [counts EXCEPT !.dropped = IF ok THEN @ ELSE Inc(@)]
        /\ port.enabled /\ UNCHANGED <<selected, nic, linkUp, rx, tx, granted>>
  BY DEF NCSI_handlePassthrough, Receives
<1>2. port \in ChannelState /\ counts \in [sent : Stat, dropped : Stat]
  BY DEF PassInv, TypeOK, PassTypeOK
<1>3. port.stat_net_dropped \in Stat /\ Inc(port.stat_net_dropped) \in Stat
  BY <1>2, IncType DEF ChannelState
<1>4. /\ port'.ready = port.ready /\ port'.enabled = port.enabled
      /\ port'.tx_passthrough_en = port.tx_passthrough_en
      /\ port'.mac_filters = port.mac_filters
      /\ port'.stat_net_tx = port.stat_net_tx
      /\ port'.stat_net_dropped =
           IF ok THEN port.stat_net_dropped ELSE Inc(port.stat_net_dropped)
      /\ port' \in ChannelState
  BY <1>1, <1>2, <1>3 DEF ChannelState
<1>5. TypeOK'
  BY <1>1, <1>4 DEF PassInv, TypeOK
<1>6. GatesAgree'
  BY <1>1, <1>4, <1>5, GatesKept
<1>7. CountersHonest' /\ PassTypeOK'
  BY <1>1, <1>2, <1>3, <1>4
  DEF PassInv, CountersHonest, PassTypeOK, Fate, Directions
<1>8. granted'.rx /\ port'.ready
  BY <1>1, <1>4 DEF PassInv, GatesAgree
<1>9. OnlyGrantedPasses' /\ GrantedReachesDriver'
  BY <1>1, <1>8 DEF OnlyGrantedPasses, GrantedReachesDriver
<1> QED BY <1>5, <1>6, <1>7, <1>9 DEF PassInv

LEMMA PassStep == PassInv /\ [PassNext]_allVars => PassInv'
<1> SUFFICES ASSUME PassInv, [PassNext]_allVars PROVE PassInv'
  OBVIOUS
<1>1. ASSUME NEW f \in Requests, ControlFrameReceived(f) PROVE PassInv'
  BY <1>1, CommandStep
<1>2. CASE ShortFrameReceived
  BY <1>2
  DEF ShortFrameReceived, vars, PassInv, TypeOK, PassTypeOK, GatesAgree,
      OnlyGrantedPasses, GrantedReachesDriver, CountersHonest
<1>3. ASSUME NEW source \in Macs, ncsi_passthrough_tx_from_mc(source) PROVE PassInv'
  BY <1>3, ForwardStep, DropStep DEF ncsi_passthrough_tx_from_mc
<1>4. CASE NCSI_handlePassthrough
  BY <1>4, NetworkStep
<1>5. CASE ReloadAll
  <2>1. TypeOK'
    BY <1>5, TypeStep DEF PassInv, ReloadAll, Next
  <2>2. /\ port'.ready = port.ready /\ port'.enabled = port.enabled
        /\ port'.tx_passthrough_en = port.tx_passthrough_en
        /\ port'.mac_filters = port.mac_filters
        /\ port'.stat_net_tx = 0
        /\ port'.stat_net_dropped = port.stat_net_dropped
    BY <1>5 DEF PassInv, TypeOK, ReloadAll, Reload, ClearStats, ChannelState
  <2>3. GatesAgree'
    BY <1>5, <2>1, <2>2, GatesKept DEF ReloadAll
  <2>4. 0 \in Stat
    BY DEF Stat
  <2>5. CountersHonest' /\ PassTypeOK'
    BY <1>5, <2>2, <2>4 DEF ReloadAll, PassInv, CountersHonest, PassTypeOK
  <2> QED BY <1>5, <2>1, <2>3, <2>5
      DEF ReloadAll, PassInv, OnlyGrantedPasses, GrantedReachesDriver
<1>6. CASE RestartAll
  <2>1. TypeOK'
    BY <1>6, TypeStep DEF PassInv, RestartAll, Next
  <2>2. GatesAgree'
    BY <1>6, NothingGrantedType DEF RestartAll, Restart, PowerOn, GatesAgree
  <2>3. 0 \in Stat
    BY DEF Stat
  <2>4. CountersHonest' /\ PassTypeOK'
    BY <1>6, <2>3, NothingGrantedType
    DEF RestartAll, Restart, PowerOn, CountersHonest, PassTypeOK
  <2> QED BY <1>6, <2>1, <2>2, <2>4
      DEF RestartAll, PassInv, OnlyGrantedPasses, GrantedReachesDriver
<1>7. CASE UNCHANGED allVars
  BY <1>7
  DEF allVars, vars, passVars, PassInv, TypeOK, PassTypeOK, GatesAgree,
      OnlyGrantedPasses, GrantedReachesDriver, CountersHonest
<1> QED BY <1>1, <1>2, <1>3, <1>4, <1>5, <1>6, <1>7 DEF PassNext

\* The strengthened invariant holds: by every route the commands can take, what
\* the MC was told of the gates is what the gates are.
LEMMA PassInvariant == PassSpec => []PassInv
<1>1. ASSUME PassInit PROVE PassInv
  <2>1. TypeOK
    BY <1>1, PowerOnType DEF PassInit, Init, TypeOK, NoFilters
  <2>2. GatesAgree
    BY <1>1, NothingGrantedType DEF PassInit, Init, PowerOn, GatesAgree
  <2>3. 0 \in Stat
    BY DEF Stat
  <2>4. CountersHonest /\ PassTypeOK
    BY <1>1, <2>3, NothingGrantedType DEF PassInit, Init, PowerOn, CountersHonest, PassTypeOK
  <2> QED BY <1>1, <2>1, <2>2, <2>4
      DEF PassInit, PassInv, OnlyGrantedPasses, GrantedReachesDriver
<1> QED BY <1>1, PassStep, PTL DEF PassSpec

\* The fates, the grants and the counts keep their types.
THEOREM PassTypeCorrect == PassSpec => []PassTypeOK
BY PassInvariant, PTL DEF PassInv

\* No frame is handed on in either direction unless the MC holds a completed command
\* that allows it, whatever was sent before.
THEOREM GatesHold == PassSpec => []OnlyGrantedPasses
BY PassInvariant, PTL DEF PassInv

\* No frame is refused whose sender the MC was told may pass, for any number of
\* tracked filters.  What the MAC driver does with it is not the gates' doing: it may
\* be lost there (Fate).
THEOREM GatesRefuseNoGrant == PassSpec => []GrantedReachesDriver
BY PassInvariant, PTL DEF PassInv

\* The pass-through counters count what happened, at every width they may wrap
\* at, across resets, reloads and restarts.
THEOREM CountersAreHonest == PassSpec => []CountersHonest
BY PassInvariant, PTL DEF PassInv

----------------------------------------------------------------------------
(* Traffic and the contract *)

\* A step between commands and traffic is one of the command engine, or one the
\* contract does not see.
LEMMA PassContractStep ==
  TypeOK /\ TypeOK' /\ [PassNext]_allVars => [Contract!Next]_Contract!vars
<1> SUFFICES ASSUME TypeOK, TypeOK', [PassNext]_allVars
             PROVE  [Contract!Next]_Contract!vars
  OBVIOUS
<1>1. CASE (\E f \in Requests : ControlFrameReceived(f)) \/ ReloadAll \/ RestartAll
  <2>1. Next
    BY <1>1 DEF ControlFrameReceived, ReloadAll, RestartAll, Next
  <2> QED BY <2>1, ContractStep
<1>2. ASSUME port' = port \/ \E n : port' = [port EXCEPT !.stat_net_tx = n]
                       \/ port' = [port EXCEPT !.stat_net_dropped = n]
      PROVE  UNCHANGED Contract!vars
  BY <1>2, KeptView DEF TypeOK, ChannelState
<1>3. CASE ShortFrameReceived \/ UNCHANGED allVars
  BY <1>2, <1>3 DEF ShortFrameReceived, allVars, vars
<1>4. ASSUME NEW source \in Macs, ncsi_passthrough_tx_from_mc(source)
      PROVE  UNCHANGED Contract!vars
  BY <1>2, <1>4 DEF ncsi_passthrough_tx_from_mc, Forward, Drop, vars
<1>5. CASE NCSI_handlePassthrough
  BY <1>2, <1>5 DEF NCSI_handlePassthrough
<1> QED BY <1>1, <1>3, <1>4, <1>5 DEF PassNext

\* Pass-through traffic, forwarded, dropped or failed, between any two commands
\* leaves the contract of the channel intact: no frame that is not a command
\* switches anything on or off.
THEOREM TrafficKeepsContract == PassSpec => ImplementsContract
<1>1. PassInit => Contract!Init
  BY ContractInit DEF PassInit
<1>2. PassInv => TypeOK
  BY DEF PassInv
<1> QED BY <1>1, <1>2, PassInvariant, PassContractStep, PTL
        DEF PassSpec, ImplementsContract, Contract!Spec
=============================================================================
