-------------------------- MODULE MCGatewaySession --------------------------
(* GatewaySession is bounded by its own constants.                          *)
EXTENDS GatewaySession
=============================================================================
