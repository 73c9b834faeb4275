---------------------------- MODULE MCResponder ----------------------------
(* Values for the constants of NcsiResponder: which frames the MC sends.     *)
EXTENDS NcsiResponder

MCMacs  == {"zero", "macA", "macB"}
MCWords == {0, 1}

\* A well-formed frame for this chip, with a value.
Frame(c, v) ==
  [package |-> PackageId, channel |-> ChannelId, command |-> c, instance |-> 1,
   length |-> IF c \in Commands THEN gNCSIHandlers[c].payloadLength ELSE 0,
   value |-> v, number |-> 0, enable |-> FALSE, at |-> 0, mac |-> "zero"]

PackageWide(f)  == [f EXCEPT !.channel = ChannelPackage]
OtherChannel(f) == [f EXCEPT !.channel = 1 - ChannelId]
OtherPackage(f) == [f EXCEPT !.package = 7 - PackageId]
WrongLength(f)  == [f EXCEPT !.length = 3]

MacFrame(n, e, a, m) ==
  [Frame("SetMACAddress", 0) EXCEPT !.number = n, !.enable = e, !.at = a, !.mac = m]

VlanFrame(e, v) == [Frame("SetVLANFilter", v) EXCEPT !.enable = e]

\* Every command to the channel, and each way a frame can be turned away; MACNumbers
\* 0 and 1 mean the first slot, MaxMacNumber one beyond the tracked slots.
LifecycleFrames ==
  {Frame(c, 0) : c \in
     {"ClearInitialState", "EnableChannel", "DisableChannel", "ResetChannel",
      "EnableTX", "DisableTX", "GetLinkStatus", "DisableVLAN", "DisableBroadcast",
      "GetVersionID", "GetParameters", "SelectPackage", "OEM"}}
  \cup {Frame(c, 1) : c \in {"EnableVLAN", "AENEnable", "EnableBroadcast", "SetLink"}}
  \cup {MacFrame(n, TRUE, 0, "macA") : n \in 0..MaxMacNumber}
  \cup {MacFrame(1, FALSE, 0, "macA"), VlanFrame(TRUE, 0), VlanFrame(TRUE, 1)}
  \cup {PackageWide(Frame(c, 0)) : c \in
          {"DeselectPackage", "ClearInitialState", "EnableChannel"}}
  \cup {WrongLength(Frame("EnableTX", 0)), OtherChannel(Frame("EnableTX", 0)),
        OtherPackage(Frame("ResetChannel", 0)),
        [Frame("EnableChannel", 0) EXCEPT !.instance = 2]}

\* The commands with an address or a table index.
FilterFrames ==
  {MacFrame(n, e, 0, "macA") : n \in 0..MaxMacNumber, e \in BOOLEAN}
  \cup {MacFrame(n, e, 1, "macB") : n \in 0..1, e \in BOOLEAN}
  \cup {Frame("ClearInitialState", 0), Frame("ResetChannel", 0),
        Frame("SetLink", 1), VlanFrame(TRUE, 0), VlanFrame(TRUE, 1),
        VlanFrame(FALSE, 1), OtherChannel(MacFrame(1, TRUE, 0, "macA")),
        WrongLength(MacFrame(1, TRUE, 0, "macA"))}
============================================================================
