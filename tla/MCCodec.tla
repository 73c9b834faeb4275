------------------------------- MODULE MCCodec -------------------------------
(* Values for the constants of WireCodec: bytes of one bit, so that every    *)
(* packet of ten of them is tried, and a stack buffer one byte too short for *)
(* the longest.                                                              *)
EXTENDS WireCodec

MCBase    == 2
MCSize    == 10
MCSwapMax == MCSize - 1
=============================================================================
