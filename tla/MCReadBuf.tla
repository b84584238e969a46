----------------------------- MODULE MCReadBuf ------------------------------
(* ReadBuf is bounded by its own constants.                                 *)
EXTENDS ReadBuf
=============================================================================
