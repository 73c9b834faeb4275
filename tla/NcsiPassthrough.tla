-------------------------- MODULE NcsiPassthrough --------------------------
(***************************************************************************)
(* Pass-through: what a chip does with a frame that is not an NC-SI        *)
(* control frame, in both directions (ncsi.c, "Pass-through"), and the     *)
(* dispatch of received frames in front of it (ncsi_on_rx_frame() in       *)
(* ncsi_hal_template.c).  The gates are the channel state that the command *)
(* engine of NcsiResponder changes between two pass-through frames.        *)
(*                                                                         *)
(* The link plays no part here: it changes only by what the engine does.   *)
(***************************************************************************)
EXTENDS NcsiResponder

VARIABLES
  last,     \* the fate of the last pass-through frame; None after a command
  granted,  \* history: what the MC was told is in force, by the answers
  counts    \* history: frames sent since the statistics were cleared, and
            \* frames dropped since power-on

passVars == <<last, granted, counts>>
allVars  == <<vars, passVars>>

Directions == {"toNetwork", "toMC"}

\* refused: a gate was closed; lost: the MAC driver could not take or send it.
Fate == [to : Directions, source : Macs \cup {None},
         result : {"passed", "refused", "lost"}]

NothingGranted ==
  [tx |-> FALSE, rx |-> FALSE, unicast |-> [i \in NicSlots |-> None]]

\* Operators marked "fault:" are bugs this code could have had.  No definition
\* uses them; each shows that a property notices such a bug.

----------------------------------------------------------------------------
(* history: the answers the MC got *)

\* What frame f, once it is answered COMMAND_COMPLETE, grants or revokes.
Grant(f) ==
  CASE f.command = "EnableTX"       -> [granted EXCEPT !.tx = TRUE]
    [] f.command = "DisableTX"      -> [granted EXCEPT !.tx = FALSE]
    [] f.command = "EnableChannel"  -> [granted EXCEPT !.rx = TRUE]
    [] f.command = "DisableChannel" -> [granted EXCEPT !.rx = FALSE]
    [] f.command = "ResetChannel"   -> NothingGranted
    [] f.command = "SetMACAddress"  ->
         [granted EXCEPT !.unicast[Slot(f.number)] =
            IF f.enable /\ f.at = 0 THEN f.mac ELSE None]
    [] OTHER -> granted

Completes(answer) == answer # None /\ answer.code = "COMPLETE"

----------------------------------------------------------------------------
(* ncsi_on_rx_frame(): frames from the sideband *)

ControlFrameReceived(f) ==
  /\ handleNCSIFrame(f)
  /\ last' = None
  /\ granted' = IF Completes(tx') THEN Grant(f) ELSE granted
  /\ counts' = IF Completes(tx') /\ f.command = "ResetChannel"
                 THEN [counts EXCEPT !.sent = 0] ELSE counts

\* A frame shorter than a control packet header is not looked at.
ShortFrameReceived ==
  /\ last' = None
  /\ UNCHANGED <<vars, granted, counts>>

\* fault: a filter that was switched off still matches
SourceMatchesDisabled(source) ==
  \E i \in Slots :
    port.mac_filters[i].address_type = 0 /\ port.mac_filters[i].mac = source

\* fault: a slot that does not match ends the search
SourceMatchesFirst(source) ==
  /\ port.mac_filters[0].enabled /\ port.mac_filters[0].address_type = 0
  /\ port.mac_filters[0].mac = source

\* Only enabled filters for a unicast address count.
SourceMatches(source) ==
  \E i \in Slots :
    /\ port.mac_filters[i].enabled /\ port.mac_filters[i].address_type = 0
    /\ port.mac_filters[i].mac = source

Drop(source) ==
  /\ last' = [to |-> "toNetwork", source |-> source, result |-> "refused"]
  /\ UNCHANGED <<vars, granted, counts>>

\* fault: a frame the driver failed to send is counted
ForwardCountsAll(source) ==
  \E ok \in BOOLEAN :
    /\ last' = [to |-> "toNetwork", source |-> source,
                result |-> IF ok THEN "passed" ELSE "lost"]
    /\ port' = [port EXCEPT !.stat_net_tx = Inc(@)]
    /\ counts' = [counts EXCEPT !.sent = IF ok THEN Inc(@) ELSE @]
    /\ UNCHANGED <<selected, nic, linkUp, rx, tx, granted>>

\* Network_TxFrame() may fail: the frame is lost then, and only a frame that was
\* sent is counted.  The caller gets FALSE, as for a frame that was refused.
Forward(source) ==
  \E ok \in BOOLEAN :
    /\ last' = [to |-> "toNetwork", source |-> source,
                result |-> IF ok THEN "passed" ELSE "lost"]
    /\ port' = IF ok THEN [port EXCEPT !.stat_net_tx = Inc(@)] ELSE port
    /\ counts' = [counts EXCEPT !.sent = IF ok THEN Inc(@) ELSE @]
    /\ UNCHANGED <<selected, nic, linkUp, rx, tx, granted>>

ncsi_passthrough_tx_from_mc(source) ==
  IF port.tx_passthrough_en /\ SourceMatches(source)
    THEN Forward(source) ELSE Drop(source)

----------------------------------------------------------------------------
(* NCSI_handlePassthrough(): frames from the network *)

\* "enabled", which is not the same as "ready".
Receives == port.enabled

\* external: Network_PassthroughRxPacket() reports nothing to do and a frame
\* that went through alike, and FALSE for one it had to drop.
NCSI_handlePassthrough ==
  /\ Receives
  /\ \E ok \in BOOLEAN :
       /\ last' = [to |-> "toMC", source |-> None,
                   result |-> IF ok THEN "passed" ELSE "lost"]
       /\ port' = IF ok THEN port ELSE [port EXCEPT !.stat_net_dropped = Inc(@)]
       /\ counts' = [counts EXCEPT !.dropped = IF ok THEN @ ELSE Inc(@)]
  /\ UNCHANGED <<selected, nic, linkUp, rx, tx, granted>>

----------------------------------------------------------------------------

ReloadAll ==
  /\ Reload
  /\ last' = None /\ counts' = [counts EXCEPT !.sent = 0]
  /\ UNCHANGED granted

RestartAll ==
  /\ Restart
  /\ last' = None /\ granted' = NothingGranted
  /\ counts' = [sent |-> 0, dropped |-> 0]

PassInit ==
  /\ Init
  /\ last = None /\ granted = NothingGranted
  /\ counts = [sent |-> 0, dropped |-> 0]

PassNext ==
  \/ \E f \in Requests : ControlFrameReceived(f)
  \/ ShortFrameReceived
  \/ \E source \in Macs : ncsi_passthrough_tx_from_mc(source)
  \/ NCSI_handlePassthrough
  \/ ReloadAll
  \/ RestartAll

PassSpec == PassInit /\ [][PassNext]_allVars

----------------------------------------------------------------------------
(* Properties *)

\* The type invariant of the variables this module adds.
PassTypeOK ==
  /\ last \in Fate \cup {None}
  /\ granted \in [tx : BOOLEAN, rx : BOOLEAN, unicast : [NicSlots -> Macs \cup {None}]]
  /\ counts \in [sent : Stat, dropped : Stat]

\* A frame is handed on, to pass or to be lost in the driver, only while the MC holds
\* a completed command that allows it, not revoked by a later one, a reset or a
\* restart: for a frame to the network Channel Network TX and the sender's unicast
\* address, for one to the MC the channel itself.  In the Initial State none is.
OnlyGrantedPasses ==
  last # None /\ last.result # "refused" =>
    /\ port.ready
    /\ last.to = "toNetwork" =>
         granted.tx /\ \E i \in Slots : granted.unicast[i] = last.source
    /\ last.to = "toMC" => granted.rx

\* ncsi_passthrough_tx_from_mc() refuses a frame only if the MC was not told that its
\* sender may pass: no command but those the MC sent closes a gate, and no filter
\* hides another.  It says nothing of what Network_TxFrame() does with the frame
\* then, which may still be lost, nor of slots beyond the tracked ones, although the
\* command for them completes.
GrantedReachesDriver ==
  last # None /\ last.to = "toNetwork" /\ last.result = "refused" =>
    ~granted.tx \/ \A i \in Slots : granted.unicast[i] # last.source

\* Network.h:137: a frame for the MC is polled for "once per received non-control
\* frame while tx_passthrough_en is set for that channel".
PolledWhileTxEnabled ==
  last # None /\ last.to = "toMC" => port.tx_passthrough_en

\* The statistics the MC will be told count what happened: stat_net_tx the
\* frames sent since it was cleared, stat_net_dropped the frames dropped since
\* power-on, which no reset and no reload of the channel forgets.
CountersHonest ==
  port.stat_net_tx = counts.sent /\ port.stat_net_dropped = counts.dropped
============================================================================
