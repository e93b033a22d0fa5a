---- MODULE MCPushLease ----
(* A small instance of PushLease: two processes, two components, a lease   *)
(* of two clock units with a grace of one.                                 *)
EXTENDS PushLease, TLC

CONSTANTS watchdog, api

(* What the components ask for: the watchdog checks, acquires and releases *)
(* its own lease, its adapter consumes it, the shell helpers release it    *)
(* through the CLI, whose second half is a release; FastAPI acquires, and  *)
(* stop and reset release whatever there is.                               *)
ComponentRequests ==
    {<<"acquire", watchdog>>, <<"acquire", api>>, <<"consume", watchdog>>,
     <<"cli_release", watchdog>>, <<"release", AnyHolder>>}

Symmetric == Permutations(Proc)
====
