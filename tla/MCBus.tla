------------------------------- MODULE MCBus -------------------------------
(* Values for the constants of NcsiBus. *)
EXTENDS NcsiBus

Frame(ch, c, len) ==
  [package |-> PackageId, channel |-> ch, command |-> c, instance |-> 1,
   length |-> len, value |-> 1, number |-> 1, enable |-> TRUE, at |-> 0,
   mac |-> "macA"]

MCMacs  == {"zero", "macA"}
MCWords == {0, 1}

\* Commands for either channel: the one that opens it, a setting of the channel
\* and one of the NIC too, and the reset, whose repetition is refused.
ChannelFrames ==
  {Frame(ch, "ClearInitialState", 0) : ch \in Chips}
  \cup {Frame(0, "EnableVLAN", 4), Frame(0, "ResetChannel", 4)}
  \cup {Frame(1, "SetMACAddress", 8)}

\* The same with the package addressed as a whole.
PackageFrames ==
  {Frame(ch, "ClearInitialState", 0) : ch \in Chips}
  \cup {Frame(31, "SelectPackage", 4), Frame(31, "DeselectPackage", 0)}
============================================================================
