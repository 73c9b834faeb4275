------------------------------- MODULE MCPass -------------------------------
(* Values for the constants of NcsiPassthrough. *)
EXTENDS NcsiPassthrough

MCMacs  == {"zero", "macA", "macB"}
MCWords == {0}

Command(c) ==
  [package |-> PackageId, channel |-> ChannelId, command |-> c, instance |-> 1,
   length |-> gNCSIHandlers[c].payloadLength, value |-> 0, number |-> 0,
   enable |-> FALSE, at |-> 0, mac |-> "zero"]

SetMac(n, e, a, m) ==
  [Command("SetMACAddress") EXCEPT !.number = n, !.enable = e, !.at = a, !.mac = m]

\* The commands that open and close the gates; the two tracked slots have the
\* numbers 0 (or 1) and 2.
GateFrames ==
  {Command(c) : c \in {"ClearInitialState", "ResetChannel", "EnableTX", "DisableTX",
                       "EnableChannel", "DisableChannel"}}
  \cup {SetMac(n, TRUE, 0, "macA") : n \in 1..MaxMacNumber}
  \cup {SetMac(0, FALSE, 0, "macA"), SetMac(2, TRUE, 1, "macA"),
        SetMac(2, TRUE, 0, "macB")}
============================================================================
