---- MODULE MCGatewayRestart ----
(* A small instance of GatewayRestart: a ladder of two rungs, one role.    *)
EXTENDS GatewayRestart

Rungs == <<1, 2>>
====
