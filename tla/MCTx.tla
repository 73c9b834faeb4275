-------------------------------- MODULE MCTx --------------------------------
(* Values for the constants of TxPath. *)
EXTENDS TxPath

MCBuffers == {"gResponseFrame", "gVersionFrame"}
MCBodies  == {1, 2}
============================================================================
