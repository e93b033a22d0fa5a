---- MODULE MCGatewayControl ----
(* Small instances of GatewayControl: the watchdog's adapter next to two   *)
(* invocations by others.                                                  *)
EXTENDS GatewayControl

CONSTANTS adapter, p1, p2

(* What everybody but an operator who resets the lease by hand may do.     *)
AutomaticVerbs == AllVerbs \ {"reset"}
====
