-------------------------- MODULE ChannelContract --------------------------
(***************************************************************************)
(* What one NC-SI channel promises its Management Controller, with the     *)
(* wire, the dispatch table and the statistics left out.                   *)
(*                                                                         *)
(* A channel is in its Initial State or Ready.  While it is Ready each     *)
(* command puts ONE setting in force or takes one out of force; a reset    *)
(* takes all of them out of force together.  In the Initial State nothing  *)
(* is in force.  NcsiResponder is shown to implement this module.          *)
(***************************************************************************)
CONSTANTS
  Services,     \* what a command switches on and off
  Slots,        \* MAC address filter slots
  Addresses,    \* what a filter slot can let through
  BroadcastSettings, \* broadcast filter settings
  Open,         \* the member of BroadcastSettings that filters nothing
  Empty         \* a filter slot that lets nothing through

VARIABLES
  phase,        \* "Initial" or "Ready"
  services,     \* the services that are switched on
  broadcast,    \* the broadcast filter settings in force
  filters       \* what each filter slot lets through

vars == <<phase, services, broadcast, filters>>

AllOff ==
  /\ services = {}
  /\ broadcast = Open
  /\ filters = [s \in Slots |-> Empty]

Init == phase = "Initial" /\ AllOff

\* Clear Initial State: nothing comes into force by it.
Clear ==
  /\ phase' = "Ready"
  /\ UNCHANGED <<services, broadcast, filters>>

SetService(s) ==
  /\ phase = "Ready"
  /\ services' \in {services \cup {s}, services \ {s}}
  /\ UNCHANGED <<phase, broadcast, filters>>

SetBroadcast(w) ==
  /\ phase = "Ready"
  /\ broadcast' = w
  /\ UNCHANGED <<phase, services, filters>>

SetFilter(s, a) ==
  /\ phase = "Ready"
  /\ filters' = [filters EXCEPT ![s] = a]
  /\ UNCHANGED <<phase, services, broadcast>>

\* Reset Channel, or a restart of the firmware.
Reset == phase' = "Initial" /\ AllOff'

Next ==
  \/ Clear
  \/ \E s \in Services : SetService(s)
  \/ \E w \in BroadcastSettings : SetBroadcast(w)
  \/ \E s \in Slots, a \in Addresses \cup {Empty} : SetFilter(s, a)
  \/ Reset

Spec == Init /\ [][Next]_vars

\* In the Initial State nothing is in force: the promise the MC relies on
\* after a reset (ncsi.c resetChannel(), Network.h ncsi_channel_state_t).
InitialMeansOff == phase = "Initial" => AllOff
============================================================================
