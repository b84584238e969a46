----------------------------- MODULE MCUtf8Tail -----------------------------
(* Utf8Tail is bounded by the length of a message.                          *)
EXTENDS Utf8Tail
=============================================================================
