---------------------------- MODULE MCTcpBridge ----------------------------
(***************************************************************************)
(* The bridge with main's settings in small: the uplink's queue is bounded *)
(* and the downlink's is not.                                              *)
(***************************************************************************)
EXTENDS TcpBridge

TunnelBounds  == [t \in Sides |-> IF t = "up" THEN 1 ELSE 0]
TunnelPackets == [t \in Sides |-> IF t = "up" THEN 3 ELSE 1]
=============================================================================
