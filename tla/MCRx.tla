-------------------------------- MODULE MCRx --------------------------------
(* Values for the constants of RxHandoff. *)
EXTENDS RxHandoff

MCBuffers == {"rx"}
============================================================================
